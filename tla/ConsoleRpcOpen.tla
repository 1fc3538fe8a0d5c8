-------------------------- MODULE ConsoleRpcOpen --------------------------
(***************************************************************************)
(* ConsoleRpc at the end of a console whose other end is any program that  *)
(* frames what it sends: handshake bytes, noise (the echo of a terminal    *)
(* that is not raw yet) and packets of any procedure in any order.  What   *)
(* holds here, the host end guarantees whatever the guest does.            *)
(***************************************************************************)
EXTENDS ConsoleRpc

CONSTANTS PeerMax,     \* bound on the protocol elements the peer sends
          PayloadMax   \* most bytes of output in one packet

ASSUME PeerAssumption == PeerMax \in Nat /\ PayloadMax \in Nat \ {0}

VARIABLE peerSent

vars == << hostVars, toGuest, toHost, peerSent >>

(* Payload bytes are all alike here: who gets which byte is a question for *)
(* the composed system.                                                    *)
Output(n) == [i \in 1 .. n |-> 0]

Messages == {<< Sync >>, << Noise >>, Packet("EXIT", << 0 >>),
             Packet("QUIT", << >>)}
            \cup {Packet(proc, Output(n)) : proc \in {"STDOUT", "STDERR"},
                                            n \in 1 .. PayloadMax}

PeerSend ==
  /\ peerSent < PeerMax /\ HasRoom(toHost)
  /\ \E m \in Messages : toHost' = toHost \o m
  /\ peerSent' = peerSent + 1
  /\ UNCHANGED << hostVars, toGuest >>

PeerReceive ==
  /\ toGuest # << >>
  /\ toGuest' = Tail(toGuest)
  /\ UNCHANGED << hostVars, toHost, peerSent >>

Init == /\ HostInit
        /\ toGuest = << >> /\ toHost = << >> /\ peerSent = 0

Next == \/ HostNext /\ UNCHANGED peerSent
        \/ PeerSend
        \/ PeerReceive

Spec == Init /\ [][Next]_vars
-----------------------------------------------------------------------------
(* The types of the host's variables and the channel's; an offset stays within *)
(* its queue, and stderr's never leaves 0 (console-rpc.c:1043).                 *)
TypeOK ==
  /\ state \in States /\ tx \in TxBuffer /\ rx \in RxBuffer
  /\ localToStdout \in Seq(Nat)
  /\ localToStdoutOffset \in 0 .. localToStdoutLength
  /\ localToStderr \in Seq(Nat)
  /\ localToStderrOffset = 0  \* it counts what is written: nothing ever is
  /\ localEOF \in BOOLEAN /\ timers \in Nat
  /\ stale \in [Sources -> Nat] /\ dead \subseteq Sources \cup {"watch"}
  /\ stdinRead \in 0 .. StdinTotal
  /\ stdoutWritten \in Seq(Nat) /\ stderrWritten \in Seq(Nat)
  /\ exited \in Seq(Nat) /\ closed \in Seq({"clean", "error"})
  /\ attaches \in 0 .. MaxAttach /\ peerSent \in 0 .. PeerMax
  /\ ChannelTypeOK

(* Whatever the peer sends, a console that is attached, and has not said   *)
(* "closed" since, always has an event pending that can carry it on: a     *)
(* byte to send or a timeout while it waits for the guest, a packet being  *)
(* awaited unless a queue is full, a queue to drain before it may finish,  *)
(* and QUIT to send when it has.  No callback loses the wakeup of another. *)
NeverStranded ==
  closed = << >> =>
    /\ state = "WAITING"  => (tx # << >> \/ timers > 0) /\ rx = "byte"
    /\ state = "SYNCING"  => tx # << >>
    /\ state = "RUNNING"  => rx \in {"length", "body"} \/ ~QueuesBelowMax
    /\ state = "STOPPING" => Queued > 0
    /\ state = "FINISHED" => tx # << >>

(* The queues do not grow without bound: a packet is only awaited while    *)
(* both are below the limit, so neither exceeds it by a packet or more.    *)
QueuesBounded ==
  /\ localToStdoutLength < MaxQueued + PayloadMax
  /\ localToStderrLength < MaxQueued + PayloadMax

(* QUIT goes to the guest only when the guest has reported the exit of the *)
(* application and all output received before is on the local streams.     *)
QuitAfterDrained == state = "FINISHED" => exited # << >> /\ Queued = 0

(* Why the two before hold.  What is awaited from the guest follows the     *)
(* state: output only while RUNNING, with room in both queues, so nothing  *)
(* can be queued in a state that assumes empty queues.                     *)
AwaitsOnlyWhatItCanTake ==
  /\ rx = "byte" => state = "WAITING"
  /\ rx \in {"length", "body"} => state = "RUNNING" /\ QueuesBelowMax
  /\ state \in {"INACTIVE", "WAITING", "SYNCING", "FINISHED"}
       => localToStdoutLength = 0 /\ localToStderrLength = 0
  /\ state \in {"STOPPING", "FINISHED"} => exited # << >>

(* Until SYNC is out the host sends handshake bytes only: no STDIN packet   *)
(* reaches a guest that has not put its console in raw mode yet.           *)
DataOnlyAfterSync ==
  [][Len(toGuest') > Len(toGuest) /\ toGuest'[Len(toGuest')].part # "byte"
       => state \in {"RUNNING", "FINISHED"}]_vars
-----------------------------------------------------------------------------
(* What comments and documents of the repository say and the code does not *)
(* do.                                                                     *)

(* libvirt-sandbox-console-rpc.c:132 and 137, on the lengths of the queues: *)
(* "No more than GVIR_SANDBOX_CONSOLE_MAX_QUEUED_DATA".                    *)
QueueLimit == /\ localToStdoutLength <= MaxQueued
              /\ localToStderrLength <= MaxQueued

(* libvirt-sandbox-console-rpc.c:103-109, on FINISHED: "When tx == 0, then *)
(* emit "closed", go back to first state".                                 *)
ClosedMeansDetached == closed # << >> => state = "INACTIVE"
===========================================================================
