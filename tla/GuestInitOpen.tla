--------------------------- MODULE GuestInitOpen ---------------------------
(***************************************************************************)
(* GuestInit at the end of a console whose other end is any program that   *)
(* frames what it sends.  What holds here, the guest's loop guarantees     *)
(* whatever the host does.                                                 *)
(***************************************************************************)
EXTENDS GuestInit, RpcTraffic

CONSTANTS PeerMax,     \* bound on the protocol elements the peer sends
          MaxSeen      \* units the peer reads before it stops reading

ASSUME PeerAssumption == PeerMax \in Nat /\ MaxSeen \in Nat

VARIABLES peerSent,
          seen         \* every unit the guest has sent, as the host reads them

vars == << guestVars, toGuest, toHost, peerSent, seen >>

(* The bytes of the n-th STDIN packet are n and n + 1: no two packets with *)
(* the same data follow each other.                                        *)
Messages == {<< Wait >>, << Sync >>, << Noise >>, Packet("QUIT", << >>),
             Packet("EXIT", << 0 >>), Packet("STDIN", << >>),
             Packet("STDIN", << peerSent >>),
             Packet("STDIN", << peerSent, peerSent + 1 >>)}

PeerSend ==
  /\ peerSent < PeerMax /\ HasRoom(toGuest)
  /\ \E m \in Messages : toGuest' = toGuest \o m
  /\ peerSent' = peerSent + 1
  /\ UNCHANGED << guestVars, toHost, seen >>

PeerReceive ==
  /\ toHost # << >> /\ Len(seen) < MaxSeen
  /\ seen' = Append(seen, Head(toHost)) /\ toHost' = Tail(toHost)
  /\ UNCHANGED << guestVars, toGuest, peerSent >>

Init == /\ GuestInitial
        /\ toGuest = << >> /\ toHost = << >> /\ peerSent = 0 /\ seen = << >>

Next == \/ GuestNext /\ UNCHANGED << peerSent, seen >>
        \/ PeerSend
        \/ PeerReceive

Spec == Init /\ [][Next]_vars
-----------------------------------------------------------------------------
(* The types of the loop's variables, the application's and the channel's.   *)
TypeOK ==
  /\ gstate \in {"BOOT", "WAITING", "SYNCING", "RUNNING", "OFF"}
  /\ grx \in RxBuffer /\ gtx \in TxBuffer /\ quit \in BOOLEAN
  /\ hostToStdin \in Seq(Nat)
  /\ {appin, appOutEOF, appErrEOF, appQuit, sigchld, writing} \subseteq BOOLEAN
  /\ exitstatus \in Nat /\ appStatus \in Nat /\ orphanStatus \in Nat
  /\ app \in {"none", "running", "exited"}
  /\ orphan \in {"none", "running", "exited"}
  /\ holders \in [Streams -> SUBSET {"app", "orphan"}]
  /\ inPipe \in Seq(Nat) /\ outPipe \in Seq(Nat) /\ errPipe \in Seq(Nat)
  /\ appRead \in Seq(Nat)
  /\ outWritten \in 0 .. OutTotal /\ errWritten \in 0 .. ErrTotal
  /\ zombies \subseteq {"app", "orphan"}
  /\ peerSent \in 0 .. PeerMax /\ seen \in Seq(Unit) /\ ChannelTypeOK

(* Everything the guest has put on its way to the host, oldest first.      *)
Sent == seen \o toHost \o gtx

(* What the application writes to its pipes goes out completely, in order  *)
(* and once: every byte is in a packet sent, in the packet being sent or   *)
(* still in its pipe.  With a tty the output may be cut off, but what is   *)
(* sent is a beginning of what was written.                                *)
OutputConserved ==
  /\ wantTty => IsPrefix(DataOf("STDOUT", Sent), Bytes(1, outWritten))
  /\ (~wantTty /\ gstate = "RUNNING") =>
       /\ DataOf("STDOUT", Sent) \o outPipe = Bytes(1, outWritten)
       /\ DataOf("STDERR", Sent) \o errPipe = Bytes(1, errWritten)

ExitSent == \E i \in 1 .. Len(Sent) : Sent[i].proc = "EXIT"

(* EXIT is reported once, and when it is, the application is gone, nothing *)
(* of its output is left behind and nothing follows, whichever of its end  *)
(* and the two ends of file the loop notices last.  (With a tty whose      *)
(* input nobody reads any more the loop sends EXIT over and over.)         *)
ExitIsLast ==
  ~wantTty /\ ExitSent =>
    /\ appQuit /\ app = "exited"
    /\ Last(Sent).proc = "EXIT"
    /\ Cardinality({i \in 1 .. Len(Sent) : Sent[i].proc = "EXIT"
                                            /\ Sent[i].part = "body"}) = 1
    /\ outPipe = << >> /\ errPipe = << >>

(* The guest sends SYNC once, before any packet, and starts the            *)
(* application only after it: the host may take every byte it reads before *)
(* SYNC for noise of the boot.  (With a tty, input of a host that has not  *)
(* awaited SYNC may replace it.)  No packet is begun inside another or cut *)
(* short, although a signal ends a write half-way, tx is assigned in eight *)
(* places and not all of them ask whether it is free; only with a tty, and *)
(* once the exit is known, may EXIT replace what is left of a packet.      *)
SyncThenPackets ==
  LET packets == {i \in 1 .. Len(Sent) : Sent[i].part # "byte"}
      syncs   == {i \in 1 .. Len(Sent) : Sent[i] = Sync}
  IN  /\ Cardinality(syncs) <= 1
      /\ ~wantTty => /\ app # "none" => Cardinality(syncs) = 1
                     /\ \A i \in packets : \E j \in syncs : j < i
      /\ gstate # "OFF" => /\ CutOnlyByExit(Sent)
                           /\ CutsShort(Sent) => wantTty /\ appQuit

(* docs/architecture.txt, on the end of the input: the guest "will close   *)
(* stdin of the sandboxed application, transmit any pending output from    *)
(* the application's stdout/stderr and then shutdown the entire guest".    *)
PendingOutputKept ==
  (gstate = "RUNNING" /\ ~appin) =>
     DataOf("STDOUT", Sent) \o outPipe = Bytes(1, outWritten)
============================================================================
