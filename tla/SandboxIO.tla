----------------------------- MODULE SandboxIO -----------------------------
(***************************************************************************)
(* What the console of an interactive sandbox promises to its user, with   *)
(* neither packets nor two ends: the output of the sandboxed application   *)
(* arrives in order, its exit status is reported once and truly, and the   *)
(* console ends cleanly only when all of that has happened.                *)
(***************************************************************************)
EXTENDS Naturals, Sequences

CONSTANTS Streams,    \* output streams of the application
          Statuses    \* statuses it can exit with

VARIABLES produced,   \* bytes the application has written, per stream
          delivered,  \* what has reached the user, per stream
          ended,      \* << >>, or << the status the application ended with >>
          reported,   \* statuses reported to the user
          session     \* "open", "clean" or "error"

ioVars == << produced, delivered, ended, reported, session >>

Upto(n) == [i \in 1 .. n |-> i]

AllDelivered == \A s \in Streams : Len(delivered[s]) = produced[s]

Init ==
  /\ produced = [s \in Streams |-> 0]
  /\ delivered = [s \in Streams |-> << >>]
  /\ ended = << >> /\ reported = << >> /\ session = "open"

Produce(s) ==
  /\ ended = << >>
  /\ produced' = [produced EXCEPT ![s] = @ + 1]
  /\ UNCHANGED << delivered, ended, reported, session >>

(* Any number of bytes that have been produced, and no others, come next.  *)
Deliver(s) ==
  /\ session = "open"
  /\ \E n \in Len(delivered[s]) + 1 .. produced[s] :
       delivered' = [delivered EXCEPT ![s] = Upto(n)]
  /\ UNCHANGED << produced, ended, reported, session >>

End ==
  /\ ended = << >>
  /\ \E st \in Statuses : ended' = << st >>
  /\ UNCHANGED << produced, delivered, reported, session >>

Report ==
  /\ session = "open" /\ ended # << >> /\ reported = << >>
  /\ reported' = ended
  /\ UNCHANGED << produced, delivered, ended, session >>

Finish ==
  /\ session = "open" /\ reported # << >> /\ AllDelivered
  /\ session' = "clean"
  /\ UNCHANGED << produced, delivered, ended, reported >>

Break ==
  /\ session = "open" /\ session' = "error"
  /\ UNCHANGED << produced, delivered, ended, reported >>

Next == \/ \E s \in Streams : Produce(s) \/ Deliver(s)
        \/ End \/ Report \/ Finish \/ Break

Spec == Init /\ [][Next]_ioVars
============================================================================
