----------------------------- MODULE RpcSession -----------------------------
(***************************************************************************)
(* A session of an interactive sandbox: ConsoleRpc on the host and         *)
(* GuestInit in the guest, with the console device between them.           *)
(***************************************************************************)
EXTENDS ConsoleRpc, GuestInit, RpcTraffic

vars == << hostVars, guestVars, toGuest, toHost >>

Init == HostInit /\ GuestInitial /\ toGuest = << >> /\ toHost = << >>

Next == \/ HostNext /\ UNCHANGED guestVars
        \/ GuestNext /\ UNCHANGED hostVars

Spec == Init /\ [][Next]_vars

(* GLib's main loop dispatches every source that stays ready, a timeout    *)
(* included; poll reports every descriptor that stays ready.  Nothing is   *)
(* assumed of the user, of the local stdin or of the application, except   *)
(* in ExitingSpec that the application ends.                               *)
HostStep(A) == A /\ UNCHANGED guestVars
LoopStep(A) == A /\ UNCHANGED hostVars

HostFairness ==
  /\ WF_vars(HostStep(StreamReceive))
  /\ WF_vars(HostStep(StreamSend))
  /\ WF_vars(HostStep(WaitTimeout))
  /\ \A viaStale \in BOOLEAN :
       /\ WF_vars(HostStep(StdoutWrite(viaStale)))
       /\ WF_vars(HostStep(StderrWrite(viaStale)))

GuestFairness ==
  /\ WF_vars(LoopStep(Boot))
  /\ WF_vars(LoopStep(Reap))
  /\ WF_vars(LoopStep(ReadHost))
  /\ WF_vars(LoopStep(WriteHost))
  /\ WF_vars(LoopStep(WriteStdin))
  /\ WF_vars(LoopStep(ReadAppOut))
  /\ WF_vars(LoopStep(ReadAppErr))
  /\ WF_vars(LoopStep(LeaveLoop))

FairSpec == Spec /\ HostFairness /\ GuestFairness

ExitingSpec == FairSpec /\ WF_vars(LoopStep(AppExits))
                        /\ WF_vars(LoopStep(OrphanExits))
-----------------------------------------------------------------------------
Connected == state \in {"RUNNING", "STOPPING", "FINISHED"}

(* What the application writes reaches the local stdout complete and in    *)
(* order: it is written out, queued, under way in a packet or in the pipe, *)
(* and in exactly one of these places.                                     *)
OutputInOnePlace ==
  (Connected /\ gstate = "RUNNING") =>
    stdoutWritten
      \o SubSeq(localToStdout, localToStdoutOffset + 1, localToStdoutLength)
      \o DataOf("STDOUT", toHost \o gtx) \o outPipe
    = Bytes(1, outWritten)

(* What has been read from the local stdin reaches the application in      *)
(* order and without loss, as long as it reads and the sandbox runs.       *)
InputInOnePlace ==
  (state = "RUNNING" /\ gstate = "RUNNING" /\ app = "running"
     /\ holders["in"] # {}) =>
    appRead \o inPipe \o hostToStdin \o DataOf("STDIN", toGuest \o tx)
    = Bytes(1, stdinRead)

(* The host does not leave the handshake before the guest has entered it,  *)
(* the application does not run before the host is ready for its output,   *)
(* and until the host has reported an exit no interleaving of repeated     *)
(* wait bytes, the echo of the console and packets makes the guest meet a  *)
(* byte it cannot interpret and power off.                                 *)
HandshakeAgrees ==
  /\ state \in {"SYNCING", "RUNNING"} => gstate \in {"SYNCING", "RUNNING"}
  /\ gstate = "RUNNING" => state # "WAITING"
  /\ gstate = "OFF" => exited # << >>

IO == INSTANCE SandboxIO WITH
  Streams   <- {"out", "err"},
  produced  <- [s \in {"out", "err"} |-> IF s = "out" THEN outWritten ELSE errWritten],
  delivered <- [s \in {"out", "err"} |-> IF s = "out" THEN stdoutWritten ELSE stderrWritten],
  ended     <- IF app = "exited" THEN << appStatus >> ELSE << >>,
  reported  <- exited,
  session   <- IF closed # << >> THEN closed[1]
               ELSE IF state = "INACTIVE" /\ attaches > 0 THEN "error" ELSE "open"

(* The two ends implement what the console promises.                       *)
KeepsPromise == IO!Spec

(* The handshake completes, however long the guest takes to boot and       *)
(* whichever wait bytes the boot swallows: a console that waits gets to    *)
(* run unless it is detached.                                              *)
HandshakeCompletes == state = "WAITING" ~> state \in {"RUNNING", "INACTIVE"}

(* Once the application has ended, with nobody left holding its output,    *)
(* the console ends too.                                                   *)
ExitEndsSession == (app = "exited" /\ orphan # "running") ~> state = "INACTIVE"
-----------------------------------------------------------------------------
(* What comments and documents of the repository say and the code does not *)
(* do.                                                                     *)

(* libvirt-sandbox-console-rpc.c:94-101, on STOPPING: "When stream tx == 0 *)
(* and stdout/err == 0, send PROC_QUIT and move to next state".            *)
StoppingFinishes == state = "STOPPING" ~> state # "STOPPING"

(* The same comment: what is left of a packet is sent before QUIT, so the  *)
(* guest finds whole packets.                                              *)
ToGuestFramed ==
  (gstate = "RUNNING" /\ state \in {"RUNNING", "STOPPING", "FINISHED"})
     => \A i \in 2 .. Len(toGuest) :
          toGuest[i - 1].part = "length" => Continues(toGuest[i - 1], toGuest[i])

(* libvirt-sandbox-console-rpc.c:103-109, on FINISHED: "When tx == 0, then *)
(* emit "closed", go back to first state".                                 *)
FinishedCloses == state = "FINISHED" ~> state = "INACTIVE"

(* docs/architecture.txt:173-176: told of the end of the input, the guest  *)
(* will close stdin of the application, transmit any pending output and    *)
(* "then shutdown the entire guest".                                       *)
EndOfInputShutsDown ==
  (app = "exited" /\ ~appin /\ closed = << "clean" >>) ~> gstate = "OFF"
=============================================================================
