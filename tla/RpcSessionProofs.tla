-------------------------- MODULE RpcSessionProofs ---------------------------
(***************************************************************************)
(* Theorems about a session of an interactive sandbox: what the two ends   *)
(* of the console guarantee together.                                      *)
(***************************************************************************)
EXTENDS RpcSession, RpcTrafficProofs

USE CapAssumption, HostAssumption, GuestAssumption

(* Each end as the program at the end of an open console whose theorems    *)
(* are in its own module.  A record of what it has read is not needed.     *)
H == INSTANCE ConsoleRpcProofs WITH PeerMax <- 0, PayloadMax <- PipeCap, peerSent <- 0
G == INSTANCE GuestInitProofs WITH PeerMax <- 0, MaxSeen <- 0, peerSent <- 0, seen <- << >>

(* What the guest has sent and the host has not read.                      *)
ToHost == toHost \o gtx

Bare(units) == \A i \in 1 .. Len(units) : units[i].part = "byte"
Waits(units) == \A i \in 1 .. Len(units) : units[i] = Wait

(* Before it is attached, and until SYNC is out, the host has sent nothing *)
(* but wait bytes, and the application does not run.                       *)
Fresh == attaches = 0 \/ state \in {"WAITING", "SYNCING"}

HostFirst ==
  /\ Fresh => /\ Waits(toGuest) /\ app = "none"
              /\ exited = << >> /\ stdinRead = 0 /\ stdoutWritten = << >>
  /\ attaches = 0 => toGuest = << >> /\ closed = << >>
  /\ state = "WAITING" => tx \in {<< >>, << Wait >>}
  /\ state = "SYNCING" => tx = << Sync >>
  /\ state = "RUNNING" => exited = << >>
  /\ stderrWritten = << >>

(* The host gets SYNC from a guest that has entered the handshake.         *)
GuestFirst ==
  /\ gstate \in {"BOOT", "WAITING"} => Waits(toGuest)
  /\ state \in {"SYNCING", "RUNNING", "STOPPING", "FINISHED"} => gstate \notin {"BOOT", "WAITING"}
  /\ app = "none" => /\ Bare(ToHost) /\ outWritten = 0 /\ errWritten = 0
                     /\ outPipe = << >> /\ errPipe = << >>
                     /\ appRead = << >> /\ inPipe = << >> /\ hostToStdin = << >>

(* What the guest can take next, and what it could take behind units.      *)
Takes(want, u) == CASE want = "byte"   -> u \in {Wait, Sync}
                    [] want = "length" -> u.part = "length" /\ u.proc = "STDIN"
                    [] want = "body"   -> u.part = "body" /\ u.proc = "STDIN"

After(u) == IF u = Wait THEN "byte" ELSE IF u.part = "length" THEN "body" ELSE "length"

Want == IF gstate # "RUNNING" THEN "byte" ELSE IF grx = "body" THEN "body" ELSE "length"

Orderly(want, units) ==
  /\ units # << >> => Takes(want, units[1])
  /\ \A i \in 1 .. Len(units) - 1 : Takes(After(units[i]), units[i + 1])

Ends(want, units) == IF units = << >> THEN want ELSE After(units[Len(units)])

StdinTail == IF tx = << >> THEN "length" ELSE IF Len(tx) = 2 THEN "length" ELSE "body"

(* Until an exit is reported the guest can take all that is on its way.    *)
Understood ==
  exited = << >> =>
    /\ gstate # "OFF" /\ ~quit
    /\ Orderly(Want, toGuest)
    /\ state = "RUNNING" => Ends(Want, toGuest) = StdinTail

StdinPacket ==
  state = "RUNNING" =>
    \/ tx = << >>
    \/ Len(tx) = 2 /\ tx = Packet("STDIN", tx[2].data)
    \/ Len(tx) = 1 /\ tx = << BodyUnit("STDIN", tx[1].data) >>

(* The input in one place.                                                 *)
InputInv ==
  /\ grx # "none" => hostToStdin = << >>
  /\ (state = "RUNNING" /\ gstate \in {"SYNCING", "RUNNING"}
       /\ (app = "none" \/ (app = "running" /\ holders["in"] # {}))) =>
         appRead \o inPipe \o hostToStdin \o DataOf("STDIN", toGuest \o tx) = Bytes(1, stdinRead)

(* The output in one place, on pipes.                                      *)
OutFlow == DataOf("STDOUT", ToHost) \o outPipe
ErrFlow == DataOf("STDERR", ToHost) \o errPipe

OutputInv ==
  ~wantTty /\ Connected =>
    /\ (stdoutWritten
          \o SubSeq(localToStdout, localToStdoutOffset + 1, localToStdoutLength)) \o OutFlow
       = Bytes(1, outWritten)
    /\ localToStderr \o ErrFlow = Bytes(1, errWritten)

PipesInv == /\ Len(outPipe) <= PipeCap /\ Len(errPipe) <= PipeCap
            /\ \A i \in 1 .. Len(ToHost) : Len(ToHost[i].data) <= PipeCap

HInv == H!HostInv /\ H!FirstSession
GInv == G!Typed /\ G!Handshaking /\ G!Endings /\ G!ExitEnds

(* What is behind the first unit, and before the last.                     *)
LEMMA HeadIs ==
  ASSUME NEW u \in Seq(Unit), u # << >>
  PROVE  /\ Head(u) \in Unit /\ Head(u) = u[1] /\ Tail(u) \in Seq(Unit)
         /\ Len(u) \in Nat \ {0} /\ Len(Tail(u)) = Len(u) - 1
         /\ \A i \in 1 .. Len(Tail(u)) : Tail(u)[i] = u[i + 1] /\ i + 1 \in 1 .. Len(u)
<1>1. Len(u) \in Nat \ {0}
  BY LenProperties, EmptySeq
<1>2. /\ Head(u) \in Unit /\ Tail(u) \in Seq(Unit) /\ Head(u) = u[1]
      /\ Len(Tail(u)) = Len(u) - 1 /\ \A i \in 1 .. Len(Tail(u)) : Tail(u)[i] = u[i + 1]
  BY HeadTailProperties
<1> QED
  BY <1>1, <1>2

(* Taking the first unit leaves a row of units that can be taken.          *)
LEMMA OrderlyTail ==
  ASSUME NEW u \in Seq(Unit), u # << >>, NEW want, Orderly(want, u)
  PROVE  /\ Takes(want, Head(u)) /\ Orderly(After(Head(u)), Tail(u))
         /\ Ends(After(Head(u)), Tail(u)) = Ends(want, u)
<1> DEFINE t == Tail(u)
<1>1. /\ Head(u) = u[1] /\ t \in Seq(Unit) /\ Len(u) \in Nat \ {0} /\ Len(t) = Len(u) - 1
      /\ \A i \in 1 .. Len(t) : t[i] = u[i + 1] /\ i + 1 \in 1 .. Len(u)
  BY HeadIs
<1>2. t # << >> => Len(t) \in Nat \ {0}
  BY <1>1, EmptySeq
<1> HIDE DEF t
<1>3. t # << >> => t[1] = u[2] /\ t[Len(t)] = u[Len(u)] /\ 1 \in 1 .. Len(u) - 1
  BY <1>1, <1>2
<1>4. t = << >> => u[Len(u)] = u[1]
  <2>1. t = << >> => Len(t) = 0
    OBVIOUS
  <2>2. Len(t) = 0 => Len(u) = 1
    BY <1>1
  <2> QED
    BY <2>1, <2>2
<1>5. \A i \in 1 .. Len(u) - 1 : Takes(After(u[i]), u[i + 1])
  BY DEF Orderly
<1>6. ASSUME NEW i \in 1 .. Len(t) - 1 PROVE Takes(After(t[i]), t[i + 1])
  <2>1. i \in 1 .. Len(t) /\ i + 1 \in 1 .. Len(t) /\ i + 1 \in 1 .. Len(u) - 1
    BY <1>1
  <2>2. t[i] = u[i + 1] /\ t[i + 1] = u[(i + 1) + 1]
    BY <1>1, <2>1
  <2> QED
    BY <1>5, <2>1, <2>2
<1>7. t # << >> => Takes(After(u[1]), t[1])
  <2>1. ASSUME t # << >> PROVE Takes(After(u[1]), u[1 + 1])
    BY <1>3, <1>5, <2>1
  <2>2. 1 + 1 = 2
    OBVIOUS
  <2> QED
    BY <1>3, <2>1, <2>2
<1>8. Orderly(After(u[1]), t)
  BY <1>6, <1>7 DEF Orderly
<1>9. Ends(After(u[1]), t) = Ends(want, u)
  BY <1>3, <1>4 DEF Ends
<1>10. Takes(want, u[1])
  BY DEF Orderly
<1> QED
  BY <1>1, <1>8, <1>9, <1>10 DEF t

(* Adding a unit that can be taken behind the others.                      *)
LEMMA OrderlyAppend ==
  ASSUME NEW u \in Seq(Unit), NEW x \in Unit, NEW want,
         Orderly(want, u), Takes(Ends(want, u), x)
  PROVE  Orderly(want, Append(u, x)) /\ Ends(want, Append(u, x)) = After(x)
<1> DEFINE v == Append(u, x)
<1>1. /\ v \in Seq(Unit) /\ Len(u) \in Nat /\ Len(v) = Len(u) + 1 /\ v # << >>
      /\ \A i \in 1 .. Len(u) : v[i] = u[i]
      /\ v[Len(u) + 1] = x
  BY AppendIs, AppendProperties
<1>2. u # << >> => Len(u) \in Nat \ {0} /\ v[1] = u[1]
  BY <1>1, EmptySeq
<1>3. u = << >> => v[1] = x
  <2>1. u = << >> => Len(u) = 0
    OBVIOUS
  <2> QED
    BY <1>1, <2>1
<1> HIDE DEF v
<1>4. Takes(want, v[1])
  BY <1>2, <1>3 DEF Orderly, Ends
<1>5. ASSUME NEW i \in 1 .. Len(v) - 1 PROVE Takes(After(v[i]), v[i + 1])
  <2>1. i \in 1 .. Len(u) /\ u # << >> /\ v[i] = u[i]
    <3>1. u = << >> => Len(u) = 0
      OBVIOUS
    <3> QED
      BY <1>1, <3>1
  <2>2. CASE i = Len(u)
    BY <1>1, <2>1, <2>2 DEF Ends
  <2>3. CASE i # Len(u)
    <3>1. i \in 1 .. Len(u) - 1 /\ i + 1 \in 1 .. Len(u)
      BY <1>1, <2>1, <2>3
    <3> QED
      BY <1>1, <2>1, <3>1 DEF Orderly
  <2> QED
    BY <2>2, <2>3
<1>6. Orderly(want, v) /\ Ends(want, v) = After(x)
  BY <1>1, <1>4, <1>5 DEF Orderly, Ends
<1> QED
  BY <1>6 DEF v

(* Wait bytes can be taken wherever a byte of the handshake is wanted.     *)
LEMMA WaitsOrderly ==
  ASSUME NEW u \in Seq(Unit), Waits(u)
  PROVE  /\ Orderly("byte", u) /\ Ends("byte", u) = "byte"
         /\ u # << >> => Head(u) = Wait
<1>1. Len(u) \in Nat /\ (u # << >> => Len(u) \in Nat \ {0})
  BY LenProperties, EmptySeq
<1>2. After(Wait) = "byte" /\ Takes("byte", Wait)
  BY DEF After, Takes
<1>3. u # << >> => u[1] = Wait /\ u[Len(u)] = Wait
  BY <1>1 DEF Waits
<1>4. \A i \in 1 .. Len(u) - 1 : u[i] = Wait /\ u[i + 1] = Wait
  BY <1>1 DEF Waits
<1>5. u # << >> => Head(u) = u[1]
  BY HeadIs
<1> QED
  BY <1>2, <1>3, <1>4, <1>5 DEF Orderly, Ends

(* Wait bytes stay wait bytes when the first is taken or one is added.     *)
LEMMA WaitsKept ==
  ASSUME NEW u \in Seq(Unit), Waits(u)
  PROVE  Waits(Append(u, Wait)) /\ (u # << >> => Waits(Tail(u)))
<1>1. /\ Len(u) \in Nat /\ Len(Append(u, Wait)) = Len(u) + 1
      /\ \A i \in 1 .. Len(u) : Append(u, Wait)[i] = u[i]
      /\ Append(u, Wait)[Len(u) + 1] = Wait
  BY AppendIs, BytesTyped
<1>2. \A i \in 1 .. Len(u) + 1 : i \in 1 .. Len(u) \/ i = Len(u) + 1
  BY <1>1
<1>3. Waits(Append(u, Wait))
  BY <1>1, <1>2 DEF Waits
<1>4. u # << >> => Waits(Tail(u))
  BY HeadIs DEF Waits
<1> QED
  BY <1>3, <1>4

(* Handshake bytes carry nothing, and stay handshake bytes.                *)
LEMMA BareKept ==
  ASSUME NEW u \in Seq(Unit), Bare(u)
  PROVE  /\ \A x \in Unit : x.part = "byte" => Bare(Append(u, x))
         /\ u # << >> => Bare(Tail(u))
         /\ \A proc \in Procs : DataOf(proc, u) = << >>
<1>1. ASSUME NEW x \in Unit, x.part = "byte" PROVE Bare(Append(u, x))
  <2>1. /\ Len(u) \in Nat /\ Len(Append(u, x)) = Len(u) + 1
        /\ \A i \in 1 .. Len(u) : Append(u, x)[i] = u[i]
        /\ Append(u, x)[Len(u) + 1] = x
    BY AppendIs
  <2>2. \A i \in 1 .. Len(u) + 1 : i \in 1 .. Len(u) \/ i = Len(u) + 1
    BY <2>1
  <2> QED
    BY <1>1, <2>1, <2>2 DEF Bare
<1>2. u # << >> => Bare(Tail(u))
  BY HeadIs DEF Bare
<1>3. ASSUME NEW proc \in Procs PROVE DataOf(proc, u) = << >>
  BY DataOfIdle DEF Bare, Carried
<1> QED
  BY <1>1, <1>2, <1>3

(* Wait bytes are handshake bytes.                                         *)
LEMMA WaitsBare == ASSUME NEW u, Waits(u) PROVE Bare(u)
BY DEF Waits, Bare, Wait, Byte

-----------------------------------------------------------------------------
(* A step of an end is a step of that end at an open console.              *)

(* The host's step, said twice with the same words.                        *)
LEMMA HostSame == HostNext => H!HostNext
<1> USE DEF Need, H!Need, Live, H!Live, WatchReadable, H!WatchReadable, WatchWritable,
      H!WatchWritable, UpdateEvents, H!UpdateEvents, UpdateEventsAfter, H!UpdateEventsAfter,
      Fires, H!Fires, Bit, H!Bit, queues, H!queues, local, H!local, Sources, H!Sources,
      Queued, H!Queued, QueuesBelowMax, H!QueuesBelowMax, localToStdoutLength,
      H!localToStdoutLength, localToStderrLength, H!localToStderrLength, HasRoom, H!HasRoom,
      Bytes, H!Bytes, Packet, H!Packet, Wait, H!Wait, Sync, H!Sync, Byte, H!Byte
<1>1. Attach => H!Attach
  BY DEF Attach, H!Attach
<1>2. Detach => H!Detach
  BY DEF Detach, H!Detach, Detached, H!Detached
<1>3. StreamReceive => H!StreamReceive
  BY DEF StreamReceive, H!StreamReceive, ReceiveHandshake, H!ReceiveHandshake, ReceiveLength,
         H!ReceiveLength, ReceiveOutput, H!ReceiveOutput, ReceiveExit, H!ReceiveExit,
         ReceiveBad, H!ReceiveBad, Close, H!Close, Detached, H!Detached, DetachRefused,
         H!DetachRefused
<1>4. StreamSend => H!StreamSend
  BY DEF StreamSend, H!StreamSend, SentHandshake, H!SentHandshake, SentPart, H!SentPart,
         SentQuit, H!SentQuit, Close, H!Close, Detached, H!Detached, DetachRefused,
         H!DetachRefused
<1>5. StreamError => H!StreamError
  BY DEF StreamError, H!StreamError, Close, H!Close, Detached, H!Detached, DetachRefused,
         H!DetachRefused
<1>6. WaitTimeout => H!WaitTimeout
  BY DEF WaitTimeout, H!WaitTimeout
<1>7. ASSUME NEW v PROVE StdinRead(v) => H!StdinRead(v)
  BY DEF StdinRead, H!StdinRead
<1>8. ASSUME NEW v PROVE StdinClose(v) => H!StdinClose(v)
  BY DEF StdinClose, H!StdinClose, Close, H!Close, Detached, H!Detached, DetachRefused,
         H!DetachRefused
<1>9. ASSUME NEW v PROVE StdoutWrite(v) => H!StdoutWrite(v)
  BY DEF StdoutWrite, H!StdoutWrite, Drained, H!Drained
<1>10. ASSUME NEW v PROVE StderrWrite(v) => H!StderrWrite(v)
  BY DEF StderrWrite, H!StderrWrite, Drained, H!Drained
<1>11. ASSUME NEW s, NEW v PROVE OutputClose(s, v) => H!OutputClose(s, v)
  BY DEF OutputClose, H!OutputClose, Close, H!Close, Detached, H!Detached, DetachRefused,
         H!DetachRefused
<1> QED
  BY <1>1, <1>2, <1>3, <1>4, <1>5, <1>6, <1>7, <1>8, <1>9, <1>10, <1>11
     DEF HostNext, H!HostNext

(* The guest's.                                                            *)
LEMMA GuestSame == GuestNext => G!GuestNext
<1> USE DEF HasRoom, G!HasRoom, Packet, G!Packet, Wait, G!Wait, Sync, G!Sync, Noise, G!Noise,
      Byte, G!Byte, InRead, G!InRead, Polls, G!Polls, PollsStdin,
      G!PollsStdin, PollsHostIn, G!PollsHostIn, PollsHostOut, G!PollsHostOut, PollsOut,
      G!PollsOut, PollsErr, G!PollsErr, ExitPacket, G!ExitPacket, Leave, G!Leave,
      OutputEnded, G!OutputEnded, Streams, G!Streams, RunCommand, G!RunCommand,
      guestVars, G!guestVars, loopVars, G!loopVars, appVars, G!appVars, ReadsChunk,
      G!ReadsChunk, Writes, G!Writes, Interrupt, G!Interrupt
<1>1. Echo => G!Echo
  BY DEF Echo, G!Echo
<1>2. Boot => G!Boot
  BY DEF Boot, G!Boot
<1>3. Reap => G!Reap
  BY DEF Reap, G!Reap
<1>4. ReadHost => G!ReadHost
  BY DEF ReadHost, G!ReadHost, ReadWait, G!ReadWait, IgnoreWait, G!IgnoreWait, ReadSync,
         G!ReadSync, RunCommandFails, G!RunCommandFails, ReadLength, G!ReadLength, ReadStdin,
         G!ReadStdin, ReadStdinEOF, G!ReadStdinEOF, ReadQuit, G!ReadQuit, ReadBad, G!ReadBad
<1>5. WriteHost => G!WriteHost
  BY DEF WriteHost, G!WriteHost
<1>6. HostFails => G!HostFails
  BY DEF HostFails, G!HostFails
<1>7. WriteStdin => G!WriteStdin
  BY DEF WriteStdin, G!WriteStdin
<1>8. ReadAppOut => G!ReadAppOut
  BY DEF ReadAppOut, G!ReadAppOut
<1>9. ReadAppErr => G!ReadAppErr
  BY DEF ReadAppErr, G!ReadAppErr
<1>10. MasterHangup => G!MasterHangup
  BY DEF MasterHangup, G!MasterHangup
<1>11. LeaveLoop => G!LeaveLoop
  BY DEF LeaveLoop, G!LeaveLoop
<1>12. App => G!App
  BY DEF App, G!App, AppRead, G!AppRead, AppWriteOut, G!AppWriteOut, AppWriteErr,
         G!AppWriteErr, AppExits, G!AppExits, OrphanExits, G!OrphanExits, AppClose,
         G!AppClose, AppForks, G!AppForks
<1> QED
  BY <1>1, <1>2, <1>3, <1>4, <1>5, <1>6, <1>7, <1>8, <1>9, <1>10, <1>11, <1>12
     DEF GuestNext, G!GuestNext, Loop, G!Loop

HostStepOf  == HostNext /\ UNCHANGED guestVars
GuestStepOf == GuestNext /\ UNCHANGED hostVars

(* It is one of an end at an open console whose other end rests.           *)
LEMMA HostIsOpen == ASSUME HostStepOf PROVE H!Next
BY HostSame DEF HostStepOf, H!Next

(* So is the guest's.                                                      *)
LEMMA GuestIsOpen == ASSUME GuestStepOf PROVE G!Next
BY GuestSame DEF GuestStepOf, G!Next

(* What the types of the host's variables say.                             *)
LEMMA HostTypes ==
  ASSUME H!TypeOK
  PROVE  /\ state \in {"INACTIVE", "WAITING", "SYNCING", "RUNNING", "STOPPING", "FINISHED"}
         /\ tx \in Seq(Unit) /\ toGuest \in Seq(Unit) /\ toHost \in Seq(Unit)
         /\ localToStdout \in Seq(Nat) /\ localToStderr \in Seq(Nat)
         /\ localToStdoutOffset \in 0 .. Len(localToStdout)
         /\ localToStderrOffset = 0 /\ stdinRead \in Nat
         /\ stdoutWritten \in Seq(Nat) /\ stderrWritten \in Seq(Nat)
         /\ exited \in Seq(Nat) /\ closed \in Seq({"clean", "error"})
         /\ attaches \in 0 .. MaxAttach
<1>1. H!Unit = Unit
  BY DEF H!Unit, Unit, H!Procs, Procs
<1> QED
  BY <1>1 DEF H!TypeOK, H!States, H!TxBuffer, H!ChannelTypeOK, H!localToStdoutLength

(* What the types of the guest's say.                                      *)
LEMMA GuestTypes ==
  ASSUME G!Typed
  PROVE  /\ gstate \in {"BOOT", "WAITING", "SYNCING", "RUNNING", "OFF"}
         /\ gtx \in Seq(Unit) /\ toGuest \in Seq(Unit) /\ toHost \in Seq(Unit)
         /\ ToHost \in Seq(Unit) /\ G!Out = toHost /\ G!Sent = ToHost
         /\ hostToStdin \in Seq(Nat) /\ appRead \in Seq(Nat)
         /\ inPipe \in Seq(Nat) /\ outPipe \in Seq(Nat) /\ errPipe \in Seq(Nat)
         /\ outWritten \in Nat /\ errWritten \in Nat
         /\ holders \in [Streams -> SUBSET {"app", "orphan"}]
         /\ app \in {"none", "running", "exited"} /\ zombies \subseteq {"app", "orphan"}
         /\ appStatus \in Nat /\ wantTty \in BOOLEAN
<1>1. G!Unit = Unit
  BY DEF G!Unit, Unit, G!Procs, Procs
<1>2. /\ gtx \in Seq(Unit) /\ toGuest \in Seq(Unit) /\ toHost \in Seq(Unit)
      /\ gstate \in {"BOOT", "WAITING", "SYNCING", "RUNNING", "OFF"}
      /\ hostToStdin \in Seq(Nat) /\ appRead \in Seq(Nat)
      /\ inPipe \in Seq(Nat) /\ outPipe \in Seq(Nat) /\ errPipe \in Seq(Nat)
      /\ outWritten \in 0 .. OutTotal /\ errWritten \in 0 .. ErrTotal
      /\ holders \in [Streams -> SUBSET {"app", "orphan"}]
      /\ app \in {"none", "running", "exited"} /\ zombies \subseteq {"app", "orphan"}
      /\ appStatus \in Nat /\ wantTty \in BOOLEAN
  BY <1>1 DEF G!Typed, G!TypeOK, G!TxBuffer, G!ChannelTypeOK, G!Streams, Streams
<1>3. << >> \o toHost = toHost
  BY <1>2, ConcatEmptySeq
<1>4. G!Out = toHost /\ G!Sent = ToHost
  BY <1>3 DEF G!Out, G!Sent, ToHost
<1>5. ToHost \in Seq(Unit)
  BY <1>2, ConcatProperties DEF ToHost
<1> QED
  BY <1>2, <1>4, <1>5

(* What the host is ready for, in the terms of this module.                *)
LEMMA HostAwaits ==
  ASSUME HInv
  PROVE  /\ H!TypeOK /\ H!FirstSession /\ H!HostInv
         /\ rx = "byte" => state = "WAITING"
         /\ rx \in {"length", "body"} => state = "RUNNING"
         /\ state \notin {"RUNNING", "STOPPING"} => localToStdout = << >> /\ localToStderr = << >>
         /\ state = "FINISHED" => exited # << >>
         /\ state = "STOPPING" => exited # << >> /\ tx = << >>
         /\ attaches = 0 => state = "INACTIVE"
         /\ attaches = 0 \/ state # "INACTIVE" => \A s \in Sources : stale[s] = 0
         /\ state \in States /\ stale \in [Sources -> Nat]
<1>1. H!TypeOK /\ H!FirstSession /\ H!AwaitsOnlyWhatItCanTake /\ H!HostInv
  BY DEF HInv, H!HostInv
<1>2. /\ state \in States /\ stale \in [Sources -> Nat]
      /\ localToStdout \in Seq(Nat) /\ localToStderr \in Seq(Nat)
  BY <1>1 DEF H!TypeOK, H!States, H!Sources, Sources, States
<1>3. state \notin {"RUNNING", "STOPPING"} => Len(localToStdout) = 0 /\ Len(localToStderr) = 0
  BY <1>1, <1>2 DEF H!AwaitsOnlyWhatItCanTake, H!localToStdoutLength, H!localToStderrLength,
     States
<1>4. state \notin {"RUNNING", "STOPPING"} => localToStdout = << >> /\ localToStderr = << >>
  BY <1>2, <1>3, EmptySeq
<1> QED
  BY <1>1, <1>2, <1>4 DEF H!AwaitsOnlyWhatItCanTake, H!FirstSession, Sources, H!Sources

-----------------------------------------------------------------------------
(* What a step of the host may do, in one session.                          *)

HostData == << queues, local, exited, closed, attaches >>

Taken == toHost # << >> /\ toHost' = Tail(toHost)
Put   == tx # << >> /\ toGuest' = Append(toGuest, Head(tx))

Begins ==
  /\ attaches = 0 /\ attaches' # 0 /\ state' = "WAITING" /\ tx' = << Wait >>
  /\ exited' = << >> /\ closed' = << >>
  /\ UNCHANGED << queues, local, toGuest, toHost >>

Breaks ==
  /\ attaches # 0 /\ state' = "INACTIVE" /\ UNCHANGED << local, exited, attaches >>
  /\ \/ /\ UNCHANGED toGuest /\ (UNCHANGED toHost \/ Taken)
        /\ \/ state # "INACTIVE" /\ closed' = closed
           \/ closed' = Append(closed, "error")
           \/ Tty /\ closed' = Append(closed, "clean")
     \/ /\ state = "FINISHED" /\ Put /\ UNCHANGED toHost
        /\ closed' = Append(closed, "clean")

Refuses ==
  /\ TermFails /\ state # "INACTIVE" /\ state' = state
  /\ UNCHANGED << queues, local, exited, attaches >>
  /\ \/ UNCHANGED << tx, toGuest >> /\ (UNCHANGED toHost \/ Taken)
     \/ state = "FINISHED" /\ Put /\ UNCHANGED toHost

Awaits ==
  /\ state = "WAITING" /\ state' = "WAITING" /\ tx' \in {tx, << >>, << Wait >>}
  /\ \/ UNCHANGED << toGuest, toHost >>
     \/ UNCHANGED toGuest /\ Taken
     \/ tx # << >> /\ toGuest' = Append(toGuest, Wait) /\ UNCHANGED toHost
  /\ UNCHANGED HostData

Syncs ==
  /\ state = "WAITING" /\ Taken /\ Head(toHost) = Sync
  /\ state' = "SYNCING" /\ tx' = << Sync >> /\ UNCHANGED << HostData, toGuest >>

Starts ==
  /\ state = "SYNCING" /\ toGuest' = Append(toGuest, Sync)
  /\ state' = "RUNNING" /\ tx' = << >> /\ UNCHANGED << HostData, toHost >>

Sends ==
  /\ state \in {"RUNNING", "FINISHED"} /\ state' = state /\ Put /\ tx' = Tail(tx)
  /\ UNCHANGED << HostData, toHost >>

TakesLength ==
  /\ state = "RUNNING" /\ Taken /\ Head(toHost).part = "length"
  /\ UNCHANGED << state, tx, HostData, toGuest >>

TakesOutput(u) ==
  /\ state = "RUNNING" /\ Taken /\ u = Head(toHost)
  /\ u.part = "body" /\ u.proc \in {"STDOUT", "STDERR"}
  /\ localToStdout' = localToStdout \o (IF u.proc = "STDOUT" THEN u.data ELSE << >>)
  /\ localToStderr' = localToStderr \o (IF u.proc = "STDERR" THEN u.data ELSE << >>)
  /\ UNCHANGED << state, tx, localToStdoutOffset, local, exited, closed, attaches, toGuest >>

TakesExit(u) ==
  /\ state = "RUNNING" /\ Taken /\ u = Head(toHost)
  /\ u.part = "body" /\ u.proc = "EXIT"
  /\ exited' = Append(exited, Head(u.data)) /\ state' \in {"STOPPING", "FINISHED"}
  /\ UNCHANGED << queues, local, closed, attaches, toGuest >>

Gathers(n) ==
  /\ state = "RUNNING" /\ tx = << >>
  /\ tx' = Packet("STDIN", Bytes(stdinRead + 1, stdinRead + n)) /\ stdinRead' = stdinRead + n
  /\ UNCHANGED << state, queues, stdoutWritten, stderrWritten, exited, closed, attaches,
                  toGuest, toHost >>

(* A source of a session that has ended.                                   *)
Lags ==
  /\ state = "INACTIVE" /\ attaches # 0
  /\ UNCHANGED << state, stdoutWritten, stderrWritten, exited, closed, attaches,
                  toGuest, toHost >>

Delivers(n) ==
  /\ state \in {"RUNNING", "STOPPING"}
  /\ stdoutWritten' = stdoutWritten \o
       SubSeq(localToStdout, localToStdoutOffset + 1, localToStdoutOffset + n)
  /\ \/ /\ localToStdoutOffset + n = Len(localToStdout)
        /\ localToStdout' = << >> /\ localToStdoutOffset' = 0
     \/ localToStdoutOffset' = localToStdoutOffset + n /\ UNCHANGED localToStdout
  /\ \/ UNCHANGED << state, tx >>
     \/ state = "STOPPING" /\ state' = "FINISHED"
  /\ UNCHANGED << localToStderr, stdinRead, stderrWritten, exited, closed, attaches,
                  toGuest, toHost >>

Rests == UNCHANGED << state, tx, HostData, toGuest, toHost >>

HostKinds ==
  \/ Begins \/ Breaks \/ Refuses \/ Awaits \/ Syncs \/ Starts \/ Sends \/ TakesLength
  \/ \E u \in Unit : TakesOutput(u) \/ TakesExit(u)
  \/ \E n \in Nat : Gathers(n)
  \/ Lags
  \/ \E n \in 0 .. Len(localToStdout) - localToStdoutOffset : Delivers(n)
  \/ Rests

(* Closing the console ends the session, or is refused.                    *)
LEMMA CloseKind ==
  ASSUME HInv, attaches # 0, NEW running, NEW viaStale \in BOOLEAN,
         NEW txLeft, NEW rxLeft, NEW how \in {"clean", "error"},
         Close(running, viaStale, txLeft, rxLeft, how), UNCHANGED local,
         \/ /\ txLeft = tx /\ UNCHANGED toGuest /\ (UNCHANGED toHost \/ Taken)
            /\ how = "clean" => Tty
         \/ state = "FINISHED" /\ Put /\ UNCHANGED toHost /\ how = "clean"
  PROVE  Breaks \/ Refuses
<1>1. CASE Detached(running)
  BY <1>1 DEF Close, Detached, Breaks, local
<1>2. CASE DetachRefused(running, viaStale, txLeft, rxLeft)
  BY <1>2 DEF Close, DetachRefused, Refuses, local
<1> QED
  BY <1>1, <1>2 DEF Close

(* What fires does so in the session, or after it.                         *)
LEMMA FiresKind ==
  ASSUME HInv, NEW s \in Sources, NEW viaStale \in BOOLEAN, Fires(s, viaStale)
  PROVE  /\ attaches # 0
         /\ state = "INACTIVE" \/ Need(s)
         /\ state = "INACTIVE" => viaStale
<1>1. s \in {"in", "out", "err"} /\ stale[s] \in Nat
  BY HostAwaits DEF Sources
<1>2. CASE viaStale
  BY <1>1, <1>2, HostAwaits DEF Fires
<1>3. CASE ~viaStale
  BY <1>1, <1>3, HostAwaits DEF Fires, Live, Need
<1> QED
  BY <1>2, <1>3

(* Receiving.                                                              *)
LEMMA ReceiveKind == ASSUME HInv, StreamReceive PROVE HostKinds
<1> DEFINE u == Head(toHost)
<1>1. /\ Taken /\ UNCHANGED << local, toGuest >> /\ state # "INACTIVE" /\ attaches # 0
      /\ toHost \in Seq(Unit) /\ u \in Unit
      /\ localToStdout \in Seq(Nat) /\ localToStderr \in Seq(Nat)
  BY HostAwaits, HostTypes, HeadTailProperties DEF StreamReceive, WatchReadable, Taken
<1> HIDE DEF u
<1>2. CASE ReceiveHandshake(u)
  <2>1. state = "WAITING" /\ UNCHANGED HostData
    BY <1>1, <1>2, HostAwaits DEF ReceiveHandshake, HostData
  <2>2. CASE u = Sync
    BY <1>1, <1>2, <2>1, <2>2 DEF ReceiveHandshake, Syncs, HostKinds, u
  <2>3. CASE u # Sync
    BY <1>1, <1>2, <2>1, <2>3 DEF ReceiveHandshake, Awaits, HostKinds
  <2> QED
    BY <2>2, <2>3
<1>3. CASE ReceiveLength(u)
  BY <1>1, <1>3, HostAwaits DEF ReceiveLength, TakesLength, HostData, HostKinds, u
<1>4. CASE ReceiveOutput(u)
  <2>1. localToStdout \o << >> = localToStdout /\ localToStderr \o << >> = localToStderr
    BY <1>1, ConcatEmptySeq
  <2>2. TakesOutput(u)
    BY <1>1, <1>4, <2>1, HostAwaits DEF ReceiveOutput, TakesOutput, u
  <2> QED
    BY <1>1, <2>2 DEF HostKinds
<1>5. CASE ReceiveExit(u)
  <2>1. TakesExit(u)
    BY <1>1, <1>5, HostAwaits DEF ReceiveExit, TakesExit, u
  <2> QED
    BY <1>1, <2>1 DEF HostKinds
<1>6. CASE ReceiveBad(u)
  BY <1>1, <1>6, CloseKind DEF ReceiveBad, HostKinds
<1> QED
  BY <1>2, <1>3, <1>4, <1>5, <1>6 DEF StreamReceive, u

(* Sending.                                                                *)
LEMMA SendKind == ASSUME HInv, HostFirst, StreamSend PROVE HostKinds
<1>1. /\ Put /\ UNCHANGED << local, toHost >> /\ state # "INACTIVE" /\ state # "STOPPING"
      /\ attaches # 0 /\ tx \in Seq(Unit) /\ state \in States
  BY HostAwaits, HostTypes DEF StreamSend, WatchWritable, Put
<1>2. CASE state = "WAITING"
  <2>1. tx = << Wait >>
    BY <1>1, <1>2 DEF HostFirst, Put
  <2>2. Head(tx) = Wait /\ ~(Len(tx) > 1)
    BY <2>1
  <2> QED
    BY <1>1, <1>2, <2>2 DEF StreamSend, SentHandshake, Put, Awaits, HostData, HostKinds
<1>3. CASE state = "SYNCING"
  <2>1. tx = << Sync >>
    BY <1>3 DEF HostFirst
  <2>2. Head(tx) = Sync /\ ~(Len(tx) > 1)
    BY <2>1
  <2> QED
    BY <1>1, <1>3, <2>1, <2>2, BytesTyped
       DEF StreamSend, SentHandshake, Put, Starts, HostData, HostKinds
<1>4. CASE SentPart /\ state \in {"RUNNING", "FINISHED"}
  BY <1>1, <1>4 DEF SentPart, Sends, HostData, HostKinds
<1>5. CASE SentQuit /\ state = "FINISHED"
  BY <1>1, <1>5, CloseKind DEF SentQuit, HostKinds
<1> QED
  BY <1>1, <1>2, <1>3, <1>4, <1>5 DEF StreamSend, States

(* The local streams.                                                      *)
LEMMA LocalKind ==
  ASSUME HInv, NEW viaStale \in BOOLEAN,
         \/ StdinRead(viaStale) \/ StdinClose(viaStale)
         \/ StdoutWrite(viaStale) \/ StderrWrite(viaStale)
         \/ \E s \in {"out", "err"} : OutputClose(s, viaStale)
  PROVE  HostKinds
<1>1. CASE StdinRead(viaStale)
  <2>1. attaches # 0 /\ (state = "INACTIVE" \/ Need("in"))
    BY <1>1, FiresKind DEF StdinRead, Sources
  <2>2. PICK n \in 0 .. MaxIO : /\ tx' = Packet("STDIN", Bytes(stdinRead + 1, stdinRead + n))
                               /\ stdinRead' = stdinRead + n
    BY <1>1 DEF StdinRead
  <2>3. CASE state = "INACTIVE"
    BY <1>1, <2>1, <2>3 DEF StdinRead, Lags, HostKinds
  <2>4. CASE Need("in")
    <3>1. n \in Nat /\ Gathers(n)
      BY <1>1, <2>2, <2>4 DEF StdinRead, Gathers, Need
    <3> QED
      BY <3>1 DEF HostKinds
  <2> QED
    BY <2>1, <2>3, <2>4
<1>2. CASE StdinClose(viaStale)
  BY <1>2, FiresKind, CloseKind DEF StdinClose, Sources, HostKinds
<1>3. CASE \E s \in {"out", "err"} : OutputClose(s, viaStale)
  BY <1>3, FiresKind, CloseKind DEF OutputClose, Sources, HostKinds
<1>4. CASE StdoutWrite(viaStale)
  <2>1. attaches # 0 /\ (state = "INACTIVE" \/ Need("out"))
    BY <1>4, FiresKind DEF StdoutWrite, Sources
  <2>2. PICK n \in 0 .. Len(localToStdout) - localToStdoutOffset :
          /\ stdoutWritten' = stdoutWritten \o
               SubSeq(localToStdout, localToStdoutOffset + 1, localToStdoutOffset + n)
          /\ IF localToStdoutOffset + n = localToStdoutLength
             THEN /\ localToStdout' = << >> /\ localToStdoutOffset' = 0
                  /\ Drained(localToStderrLength)
             ELSE /\ localToStdoutOffset' = localToStdoutOffset + n
                  /\ UNCHANGED << localToStdout, rx, state, tx >>
    BY <1>4 DEF StdoutWrite, localToStdoutLength
  <2>3. CASE state = "INACTIVE"
    <3>1. localToStdout = << >> /\ localToStdoutOffset = 0 /\ stdoutWritten \in Seq(Nat)
      BY <2>3, HostAwaits, HostTypes, EmptySeq
    <3>2. n = 0
      BY <3>1, EmptySeq
    <3>3. SubSeq(<< >>, 0 + 1, 0 + 0) = << >>
      BY SubSeqEmpty
    <3>4. stdoutWritten' = stdoutWritten
      BY <2>2, <3>1, <3>2, <3>3, ConcatEmptySeq
    <3>5. state' = state
      BY <2>2, <2>3 DEF Drained
    <3> QED
      BY <1>4, <2>1, <2>3, <3>4, <3>5 DEF StdoutWrite, Lags, HostKinds
  <2>4. CASE Need("out")
    <3>1. state \in {"RUNNING", "STOPPING"}
      BY <2>4 DEF Need
    <3>2. UNCHANGED << state, tx >> \/ (state = "STOPPING" /\ state' = "FINISHED")
      BY <2>2 DEF Drained
    <3>3. Delivers(n)
      BY <1>4, <2>2, <3>1, <3>2 DEF StdoutWrite, Delivers, localToStdoutLength
    <3> QED
      BY <3>3 DEF HostKinds
  <2> QED
    BY <2>1, <2>3, <2>4
<1>5. CASE StderrWrite(viaStale)
  <2>1. attaches # 0 /\ (state = "INACTIVE" \/ Need("err"))
    BY <1>5, FiresKind DEF StderrWrite, Sources
  <2>2. localToStderrOffset = 0 /\ stderrWritten \in Seq(Nat) /\ localToStderr \in Seq(Nat)
    BY HostAwaits, HostTypes
  <2>3. /\ stderrWritten' = stderrWritten \o SubSeq(localToStderr, 1, 0)
        /\ IF 0 = localToStderrLength
           THEN /\ localToStderr' = << >> /\ localToStderrOffset' = 0
                /\ Drained(localToStdoutLength)
           ELSE /\ localToStderrOffset' = 0
                /\ UNCHANGED << localToStderr, rx, state, tx >>
    BY <1>5, <2>2 DEF StderrWrite
  <2>4. stderrWritten' = stderrWritten
    <3>1. SubSeq(localToStderr, 1, 0) = << >>
      BY SubSeqEmpty
    <3> QED
      BY <2>2, <2>3, <3>1, ConcatEmptySeq
  <2>5. CASE state = "INACTIVE"
    <3>1. state' = state
      BY <2>3, <2>5 DEF Drained
    <3> QED
      BY <1>5, <2>1, <2>4, <2>5, <3>1 DEF StderrWrite, Lags, HostKinds
  <2>6. CASE Need("err")
    <3>1. 0 # localToStderrLength
      BY <2>6 DEF Need
    <3> QED
      BY <1>5, <2>2, <2>3, <2>4, <3>1 DEF StderrWrite, Rests, HostData, queues, local, HostKinds
  <2> QED
    BY <2>1, <2>5, <2>6
<1> QED
  BY <1>1, <1>2, <1>3, <1>4, <1>5

(* Every step of the host does one of these things.                        *)
LEMMA KindsOfHost == ASSUME MaxAttach = 1, HInv, HostFirst, HostNext PROVE HostKinds
<1>1. CASE Attach
  <2>1. attaches = 0
    BY <1>1, HostAwaits, HostTypes DEF Attach
  <2> QED
    BY <1>1, <2>1 DEF Attach, Begins, HostKinds
<1>2. CASE Detach
  <2>1. attaches # 0
    BY <1>2, HostAwaits DEF Detach
  <2> QED
    BY <1>2, <2>1 DEF Detach, Detached, Breaks, HostKinds
<1>3. CASE StreamError
  <2>1. attaches # 0
    BY <1>3, HostAwaits DEF StreamError, WatchReadable, WatchWritable
  <2> QED
    BY <1>3, <2>1, CloseKind DEF StreamError, HostKinds
<1>4. CASE WaitTimeout
  BY <1>4 DEF WaitTimeout, Awaits, Rests, HostData, HostKinds
<1> QED
  BY <1>1, <1>2, <1>3, <1>4, ReceiveKind, SendKind, LocalKind DEF HostNext

-----------------------------------------------------------------------------
(* A step of the host keeps what holds of each end.                        *)

(* What a row of units says of each is said of all but the first.          *)
LEMMA SentTail ==
  ASSUME GInv, Taken, gtx' = gtx
  PROVE  /\ toHost # << >> /\ Head(toHost) = Head(ToHost)
         /\ ToHost # << >> /\ ToHost' = Tail(ToHost)
<1>1. toHost \in Seq(Unit) /\ gtx \in Seq(Unit) /\ toHost # << >> /\ toHost' = Tail(toHost)
  BY GuestTypes DEF GInv, Taken
<1>2. /\ Head(toHost) = Head(toHost \o gtx) /\ toHost \o gtx # << >>
      /\ Tail(toHost) \o gtx = Tail(toHost \o gtx)
  <2>1. PICK t \in Seq(Unit) : t = Tail(toHost)
    BY <1>1, HeadTailProperties
  <2>2. /\ Len(toHost) \in Nat \ {0} /\ Len(gtx) \in Nat /\ toHost \o gtx \in Seq(Unit)
        /\ Len(toHost \o gtx) = Len(toHost) + Len(gtx)
        /\ \A i \in 1 .. Len(toHost) : (toHost \o gtx)[i] = toHost[i]
        /\ \A i \in 1 .. Len(gtx) : (toHost \o gtx)[Len(toHost) + i] = gtx[i]
    BY <1>1, ConcatIs, HeadIs
  <2>3. toHost \o gtx # << >>
    BY <2>2
  <2>4. Head(toHost) = Head(toHost \o gtx)
    BY <1>1, <2>2, <2>3, HeadIs
  <2>5. /\ t \o gtx \in Seq(Unit) /\ Len(t \o gtx) = Len(t) + Len(gtx)
        /\ \A i \in 1 .. Len(t) : (t \o gtx)[i] = t[i]
        /\ \A i \in 1 .. Len(gtx) : (t \o gtx)[Len(t) + i] = gtx[i]
    BY <1>1, <2>1, ConcatIs
  <2>6. /\ Len(t) = Len(toHost) - 1
        /\ \A i \in 1 .. Len(t) : t[i] = toHost[i + 1] /\ i + 1 \in 1 .. Len(toHost)
    BY <1>1, <2>1, HeadIs
  <2>7. /\ Tail(toHost \o gtx) \in Seq(Unit)
        /\ Len(Tail(toHost \o gtx)) = Len(toHost \o gtx) - 1
        /\ \A i \in 1 .. Len(Tail(toHost \o gtx)) : Tail(toHost \o gtx)[i] = (toHost \o gtx)[i + 1]
    BY <2>2, <2>3, HeadIs
  <2>8. Len(t \o gtx) = Len(Tail(toHost \o gtx))
    BY <2>2, <2>5, <2>6, <2>7
  <2>9. ASSUME NEW i \in 1 .. Len(t \o gtx) PROVE (t \o gtx)[i] = Tail(toHost \o gtx)[i]
    <3>1. CASE i \in 1 .. Len(t)
      BY <2>2, <2>5, <2>6, <2>7, <2>8, <3>1
    <3>2. CASE i \notin 1 .. Len(t)
      <4>1. /\ i - Len(t) \in 1 .. Len(gtx) /\ i = Len(t) + (i - Len(t))
            /\ i + 1 = Len(toHost) + (i - Len(t))
        BY <2>2, <2>5, <2>6, <3>2
      <4>2. (t \o gtx)[i] = gtx[i - Len(t)] /\ (toHost \o gtx)[i + 1] = gtx[i - Len(t)]
        BY <2>2, <2>5, <4>1
      <4> QED
        BY <2>7, <2>8, <4>2
    <3> QED
      BY <3>1, <3>2
  <2>10. t \o gtx = Tail(toHost \o gtx)
    BY ONLY <2>5, <2>7, <2>8, <2>9, SeqEqual
  <2> QED
    BY <2>1, <2>3, <2>4, <2>10
<1> QED
  BY <1>1, <1>2 DEF ToHost

(* The open ends take no more for granted than this module does.           *)
LEMMA HostBounds == H!CapAssumption /\ H!HostAssumption /\ H!PeerAssumption
<1>1. 0 \in Nat /\ PipeCap \in Nat \ {0}
  OBVIOUS
<1> QED
  BY <1>1, H!CapAssumption, H!HostAssumption, H!PeerAssumption

(* Nor does the guest's.                                                   *)
LEMMA GuestBounds == G!CapAssumption /\ G!GuestAssumption /\ G!PeerAssumption
BY G!CapAssumption, G!GuestAssumption, G!PeerAssumption

(* What the host does with the channel.                                    *)
LEMMA HostChannels ==
  ASSUME HostKinds
  PROVE  UNCHANGED toHost \/ Taken
BY DEF HostKinds, Begins, Breaks, Refuses, Awaits, Syncs, Starts, Sends, TakesLength,
       TakesOutput, TakesExit, Gathers, Lags, Delivers, Rests

(* The host's own invariant.                                               *)
LEMMA HostKeepsHost ==
  ASSUME MaxAttach = 1, HInv, HostStepOf \/ UNCHANGED vars
  PROVE  HInv'
<1>1. [H!Next]_(H!vars) /\ H!HostInv /\ H!TypeOK /\ H!FirstSession
  BY HostIsOpen, HostAwaits DEF vars, H!vars, hostVars, H!hostVars, queues, H!queues, local, H!local
<1>2. H!HostInv'
  BY <1>1, H!HostInvStep, HostBounds
<1>3. H!FirstSession'
  BY <1>1, H!FirstStep, HostBounds
<1> QED
  BY <1>2, <1>3 DEF HInv

(* The guest's.                                                            *)
LEMMA HostKeepsGuest ==
  ASSUME HInv', GInv, UNCHANGED guestVars, UNCHANGED toHost \/ Taken
  PROVE  GInv'
<1> USE DEF guestVars, loopVars, appVars
<1>1. /\ G!Typed /\ G!Handshaking /\ G!Endings /\ G!ExitEnds
      /\ gtx \in Seq(Unit) /\ toHost \in Seq(Unit) /\ ToHost \in Seq(Unit)
      /\ G!Out = toHost /\ G!Sent = ToHost
  BY GuestTypes DEF GInv
<1>2. toGuest' \in Seq(Unit) /\ toHost' \in Seq(Unit)
  <2>1. H!ChannelTypeOK'
    BY DEF HInv, H!HostInv, H!TypeOK
  <2>2. H!Unit = Unit
    BY DEF H!Unit, Unit, H!Procs, Procs
  <2> QED
    BY <2>1, <2>2 DEF H!ChannelTypeOK
<1>3. G!Typed'
  <2>1. G!Unit = Unit
    BY DEF G!Unit, Unit, G!Procs, Procs
  <2> QED
    BY <1>1, <1>2, <2>1 DEF G!Typed, G!TypeOK, G!ChannelTypeOK
<1>4. G!Endings'
  BY <1>1 DEF G!Endings, G!OutputEnded
<1>5. G!Out' = toHost' /\ G!Sent' = ToHost'
  <2>1. << >> \o toHost' = toHost'
    BY <1>2, ConcatEmptySeq
  <2> QED
    BY <2>1 DEF G!Out, G!Sent, ToHost
<1>6. G!Handshaking'
  <2>1. ASSUME \A i \in 1 .. Len(toHost) : toHost[i] = G!Noise
        PROVE  \A i \in 1 .. Len(toHost') : toHost'[i] = G!Noise
    <3>1. CASE Taken
      BY <1>1, <2>1, <3>1, HeadIs DEF Taken
    <3> QED
      BY <2>1, <3>1
  <2> QED
    BY <1>1, <1>5, <2>1 DEF G!Handshaking, G!Noise, G!Byte
<1>7. G!ExitEnds'
  <2>1. CASE UNCHANGED toHost
    BY <1>1, <1>5, <2>1 DEF G!ExitEnds, G!ExitSent, G!OutputEnded, ToHost
  <2>2. CASE Taken
    <3>1. ToHost # << >> /\ ToHost' = Tail(ToHost)
      BY <2>2, SentTail
    <3>2. /\ Len(ToHost) \in Nat \ {0} /\ Len(ToHost') = Len(ToHost) - 1
          /\ \A i \in 1 .. Len(ToHost') : ToHost'[i] = ToHost[i + 1] /\ i + 1 \in 1 .. Len(ToHost)
      BY <1>1, <3>1, HeadIs
    <3>3. ASSUME ~wantTty, \E i \in 1 .. Len(ToHost') : ToHost'[i].proc = "EXIT"
          PROVE  /\ appQuit /\ G!OutputEnded
                 /\ \A i \in 1 .. Len(ToHost') :
                      ToHost'[i].proc = "EXIT" /\ ToHost'[i].part = "body" <=> i = Len(ToHost')
      <4>1. \E i \in 1 .. Len(ToHost) : ToHost[i].proc = "EXIT"
        BY <3>2, <3>3
      <4>2. /\ appQuit /\ G!OutputEnded
            /\ \A i \in 1 .. Len(ToHost) :
                 ToHost[i].proc = "EXIT" /\ ToHost[i].part = "body" <=> i = Len(ToHost)
        BY <1>1, <3>3, <4>1 DEF G!ExitEnds, G!ExitSent
      <4>3. ASSUME NEW i \in 1 .. Len(ToHost')
            PROVE  ToHost'[i].proc = "EXIT" /\ ToHost'[i].part = "body" <=> i = Len(ToHost')
        BY <3>2, <4>2
      <4> QED
        BY <4>2, <4>3
    <3> QED
      BY <1>5, <3>3 DEF G!ExitEnds, G!ExitSent, G!OutputEnded
  <2> QED
    BY <2>1, <2>2
<1> QED
  BY <1>3, <1>4, <1>6, <1>7 DEF GInv
-----------------------------------------------------------------------------
(* A step of the host keeps what relates the ends.                         *)
LEMMA HostKeepsHostFirst ==
  ASSUME HInv, HInv', HostFirst, HostKinds, UNCHANGED guestVars
  PROVE  HostFirst'
<1> USE DEF guestVars, loopVars, appVars, HostData, queues, local
<1>1. /\ toGuest \in Seq(Unit) /\ state \in States /\ (attaches = 0 => state = "INACTIVE")
      /\ (state = "STOPPING" => exited # << >>)
  BY HostAwaits, HostTypes
<1>2. CASE Begins
  <2>1. Waits(toGuest) /\ app = "none" /\ stdinRead = 0 /\ stdoutWritten = << >>
    BY <1>2 DEF Begins, HostFirst, Fresh
  <2> QED
    BY <1>2, <2>1 DEF Begins, HostFirst, Waits
<1>3. CASE Breaks
  BY <1>3 DEF Breaks, HostFirst, Fresh
<1>4. CASE Refuses
  BY <1>1, <1>4, HostAwaits, HostTypes DEF Refuses, HostFirst, Fresh, Waits, States
<1>5. CASE Awaits
  <2>1. /\ Waits(toGuest) /\ app = "none" /\ exited = << >> /\ stdinRead = 0
        /\ stdoutWritten = << >> /\ attaches # 0
    BY <1>1, <1>5 DEF Awaits, HostFirst, Fresh
  <2>2. Waits(toGuest')
    BY <1>1, <1>5, <2>1, WaitsKept DEF Awaits, Waits
  <2> QED
    BY <1>5, <2>1, <2>2 DEF Awaits, HostFirst, Waits
<1>6. CASE Syncs
  BY <1>1, <1>6 DEF Syncs, HostFirst, Fresh, Waits
<1>7. CASE Starts
  BY <1>1, <1>7 DEF Starts, HostFirst, Fresh
<1>8. CASE Sends
  BY <1>1, <1>8 DEF Sends, HostFirst, Fresh
<1>9. CASE TakesLength
  BY <1>1, <1>9 DEF TakesLength, HostFirst, Fresh
<1>10. CASE \E u \in Unit : TakesOutput(u) \/ TakesExit(u)
  BY <1>1, <1>10 DEF TakesOutput, TakesExit, HostFirst, Fresh
<1>11. CASE \E n \in Nat : Gathers(n)
  BY <1>1, <1>11 DEF Gathers, HostFirst, Fresh
<1>12. CASE Lags
  BY <1>1, <1>12 DEF Lags, HostFirst, Fresh
<1>13. CASE \E n \in 0 .. Len(localToStdout) - localToStdoutOffset : Delivers(n)
  BY <1>1, <1>13 DEF Delivers, HostFirst, Fresh
<1>14. CASE Rests
  BY <1>1, <1>14 DEF Rests, HostFirst, Fresh, Waits
<1> QED
  BY <1>2, <1>3, <1>4, <1>5, <1>6, <1>7, <1>8, <1>9, <1>10, <1>11, <1>12, <1>13, <1>14
     DEF HostKinds

(* The guest has entered the handshake when SYNC comes from it.            *)
LEMMA HostKeepsGuestFirst ==
  ASSUME HInv, HInv', GInv, HostFirst, GuestFirst, HostKinds, UNCHANGED guestVars
  PROVE  GuestFirst'
<1> USE DEF guestVars, loopVars, appVars, HostData, queues, local
<1>1. /\ toGuest \in Seq(Unit) /\ toHost \in Seq(Unit) /\ ToHost \in Seq(Unit)
      /\ state \in States /\ (attaches = 0 => state = "INACTIVE") /\ G!Handshaking
      /\ G!Out = toHost
  BY HostAwaits, HostTypes, GuestTypes DEF GInv
<1>2. app = "none" => Bare(ToHost')
  <2>1. CASE UNCHANGED toHost
    BY <2>1 DEF GuestFirst, ToHost, Bare
  <2>2. CASE Taken
    BY <1>1, <2>2, SentTail, BareKept DEF GuestFirst
  <2> QED
    BY <2>1, <2>2, HostChannels
<1>3. ASSUME gstate \in {"BOOT", "WAITING"}
      PROVE  /\ Waits(toGuest') /\ state' \notin {"SYNCING", "RUNNING", "STOPPING", "FINISHED"}
  <2>1. Waits(toGuest) /\ state \notin {"SYNCING", "RUNNING", "STOPPING", "FINISHED"}
    BY <1>3 DEF GuestFirst
  <2>2. ~Syncs
    <3>1. ASSUME Syncs PROVE FALSE
      <4>1. toHost # << >> /\ Head(toHost) = Sync
        BY <3>1 DEF Syncs, Taken
      <4>2. \A i \in 1 .. Len(toHost) : toHost[i] = G!Noise
        BY <1>1, <1>3 DEF G!Handshaking
      <4>3. toHost[1] = G!Noise /\ Head(toHost) = toHost[1]
        BY <1>1, <4>1, <4>2, HeadIs
      <4> QED
        BY <4>1, <4>3, BytesTyped DEF G!Noise, G!Byte, Noise, Byte
    <3> QED
      BY <3>1
  <2>3. state \in {"INACTIVE", "WAITING"}
    BY <1>1, <2>1 DEF States
  <2>4. CASE Begins \/ Lags \/ Rests
    BY <2>1, <2>3, <2>4 DEF Begins, Lags, Rests, Waits
  <2>5. CASE Breaks \/ Refuses
    BY <2>1, <2>3, <2>5 DEF Breaks, Refuses, Waits
  <2>6. CASE Awaits
    BY <1>1, <2>1, <2>6, WaitsKept DEF Awaits, Waits
  <2> QED
    BY <2>2, <2>3, <2>4, <2>5, <2>6
       DEF HostKinds, Starts, Sends, TakesLength, TakesOutput, TakesExit, Gathers, Delivers
<1> QED
  BY <1>2, <1>3 DEF GuestFirst

(* What the host is sending is an input packet, or what is left of one.    *)
LEMMA HostKeepsStdinPacket ==
  ASSUME HInv, HostFirst, StdinPacket, HostKinds
  PROVE  StdinPacket'
<1> USE DEF HostData, queues, local
<1>1. CASE Sends /\ state = "RUNNING"
  <2>1. tx # << >> /\ tx' = Tail(tx) /\ state' = state
    BY <1>1 DEF Sends, Put
  <2>2. CASE Len(tx) = 2 /\ tx = Packet("STDIN", tx[2].data)
    <3>1. PICK d : d = tx[2].data
      OBVIOUS
    <3>2. Packet("STDIN", d) = << LengthUnit("STDIN"), BodyUnit("STDIN", d) >>
      BY DEF Packet, BodyUnit, LengthUnit
    <3>3. Tail(<< LengthUnit("STDIN"), BodyUnit("STDIN", d) >>) = << BodyUnit("STDIN", d) >>
      OBVIOUS
    <3>4. tx' = << BodyUnit("STDIN", tx[2].data) >>
      BY <2>1, <2>2, <3>1, <3>2, <3>3
    <3>5. Len(tx') = 1 /\ tx'[1] = BodyUnit("STDIN", tx[2].data)
      BY <3>4
    <3>6. tx'[1].data = tx[2].data
      BY <3>5 DEF BodyUnit
    <3> QED
      BY <3>4, <3>5, <3>6 DEF StdinPacket
  <2>3. CASE Len(tx) = 1 /\ tx = << BodyUnit("STDIN", tx[1].data) >>
    <3>1. PICK x : tx = << x >>
      BY <2>3
    <3>2. Tail(<< x >>) = << >>
      OBVIOUS
    <3>3. tx' = << >>
      BY <2>1, <3>1, <3>2
    <3> QED
      BY <3>3 DEF StdinPacket
  <2> QED
    BY <1>1, <2>1, <2>2, <2>3 DEF StdinPacket
<1>2. CASE \E n \in Nat : Gathers(n)
  <2>1. PICK n \in Nat : Gathers(n)
    BY <1>2
  <2>2. tx' = Packet("STDIN", Bytes(stdinRead + 1, stdinRead + n))
    BY <2>1 DEF Gathers
  <2>3. Len(tx') = 2 /\ tx'[2].data = Bytes(stdinRead + 1, stdinRead + n)
    BY <2>2 DEF Packet
  <2> QED
    BY <2>2, <2>3 DEF StdinPacket
<1>3. CASE UNCHANGED << state, tx >>
  BY <1>3 DEF StdinPacket
<1>4. CASE state' # "RUNNING" \/ tx' = << >>
  BY <1>4 DEF StdinPacket
<1>5. CASE Refuses
  BY <1>5, <1>3, <1>4 DEF Refuses
<1> QED
  BY <1>1, <1>2, <1>3, <1>4, <1>5
     DEF HostKinds, Begins, Breaks, Awaits, Syncs, Starts, Sends, TakesLength,
         TakesOutput, TakesExit, Lags, Delivers, Rests

-----------------------------------------------------------------------------
(* What a step of the guest may do to the channel and to the application.  *)

Drops == toGuest # << >> /\ toGuest' = Tail(toGuest)

(* It reads a unit, or the boot discards them all.                         *)
LEMMA GuestReads ==
  ASSUME GuestNext
  PROVE  UNCHANGED toGuest \/ Drops \/ (gstate = "BOOT" /\ toGuest' = << >>)
<1> USE DEF Drops
<1>1. CASE Echo \/ Boot
  BY <1>1 DEF Echo, Boot
<1>2. CASE Loop
  BY <1>2 DEF Loop, Reap, ReadHost, WriteHost, HostFails, WriteStdin, ReadAppOut, ReadAppErr,
     MasterHangup, LeaveLoop
<1>3. CASE App
  BY <1>3 DEF App, AppRead, AppWriteOut, AppWriteErr, AppExits, OrphanExits, AppClose, AppForks
<1> QED
  BY <1>1, <1>2, <1>3 DEF GuestNext

(* Only SYNC starts the application, and nothing takes back its start.     *)
LEMMA AppStarts ==
  ASSUME GuestNext, app' # app, app = "none" \/ app' = "none"
  PROVE  /\ app = "none" /\ app' = "running" /\ gstate = "SYNCING"
         /\ Drops /\ Head(toGuest) = Sync
<1>1. CASE Echo \/ Boot
  BY <1>1 DEF Echo, Boot, guestVars, appVars
<1>2. CASE ReadHost
  BY <1>2 DEF ReadHost, ReadWait, IgnoreWait, ReadSync, RunCommandFails, ReadLength, ReadStdin,
     ReadStdinEOF, ReadQuit, ReadBad, Leave, RunCommand, guestVars, appVars, Drops
<1>3. CASE Loop /\ ~ReadHost
  BY <1>3 DEF Loop, Reap, WriteHost, HostFails, WriteStdin, ReadAppOut, ReadAppErr,
     MasterHangup, LeaveLoop, Leave, guestVars, appVars
<1>4. CASE App
  BY <1>4 DEF App, AppRead, AppWriteOut, AppWriteErr, AppExits, OrphanExits, AppClose, AppForks,
     Writes
<1> QED
  BY <1>1, <1>2, <1>3, <1>4 DEF GuestNext

(* Before the guest runs, no byte of a stream moves.                       *)
LEMMA NothingMoves ==
  ASSUME GuestNext, gstate # "RUNNING"
  PROVE  UNCHANGED << hostToStdin, appRead, inPipe, outPipe, errPipe, outWritten, errWritten >>
<1>1. CASE Echo \/ Boot
  BY <1>1 DEF Echo, Boot, guestVars, loopVars, appVars
<1>2. CASE ReadHost
  BY <1>2 DEF ReadHost, ReadWait, IgnoreWait, ReadSync, RunCommandFails, ReadLength, ReadStdin,
     ReadStdinEOF, ReadQuit, ReadBad, Leave, RunCommand, guestVars, loopVars, appVars,
     Polls, InRead
<1>3. CASE Loop /\ ~ReadHost
  BY <1>3 DEF Loop, Reap, WriteHost, HostFails, WriteStdin, ReadAppOut, ReadAppErr,
     MasterHangup, LeaveLoop, Leave, guestVars, loopVars, appVars, PollsStdin, PollsOut, PollsErr
<1>4. CASE App
  BY <1>4 DEF App, AppRead, AppWriteOut, AppWriteErr, AppExits, OrphanExits, AppClose, AppForks,
     Writes, loopVars
<1> QED
  BY <1>1, <1>2, <1>3, <1>4 DEF GuestNext

(* A pipe is not written to when it is full.                               *)
LEMMA PipesHaveRoom ==
  ASSUME GuestNext, outWritten \in Nat, errWritten \in Nat
  PROVE  /\ outWritten' = outWritten + 1 => Len(outPipe) < PipeCap
         /\ errWritten' = errWritten + 1 => Len(errPipe) < PipeCap
<1>1. outWritten # outWritten + 1 /\ errWritten # errWritten + 1
  OBVIOUS
<1>2. CASE Echo \/ Boot
  BY <1>1, <1>2 DEF Echo, Boot, guestVars, loopVars, appVars
<1>3. CASE ReadHost
  BY <1>1, <1>3 DEF ReadHost, ReadWait, IgnoreWait, ReadSync, RunCommandFails, ReadLength,
     ReadStdin, ReadStdinEOF, ReadQuit, ReadBad, Leave, RunCommand, guestVars, loopVars, appVars
<1>4. CASE Loop /\ ~ReadHost
  BY <1>1, <1>4 DEF Loop, Reap, WriteHost, HostFails, WriteStdin, ReadAppOut, ReadAppErr,
     MasterHangup, LeaveLoop, Leave, guestVars, loopVars, appVars
<1>5. CASE App
  BY <1>1, <1>5 DEF App, AppRead, AppWriteOut, AppWriteErr, AppExits, OrphanExits, AppClose,
     AppForks
<1> QED
  BY <1>2, <1>3, <1>4, <1>5 DEF GuestNext
-----------------------------------------------------------------------------
(* A step of the guest keeps what holds of each end.                       *)

(* The guest's own invariant, and what its module says of the step.        *)
LEMMA GuestKeepsGuest ==
  ASSUME GInv, GuestStepOf
  PROVE  GInv' /\ G!Kinds /\ G!PhaseStep
<1>1. G!Next /\ G!Typed /\ G!Handshaking /\ G!Endings /\ G!ExitEnds
  BY GuestIsOpen DEF GInv
<1>2. G!Typed'
  BY <1>1, G!NextTyped, GuestBounds
<1>3. G!Handshaking'
  BY <1>1, G!HandshakingStep, GuestBounds
<1>4. G!Endings'
  BY <1>1, G!EndingsStep, GuestBounds
<1>5. G!ExitEnds'
  BY <1>1, <1>2, G!ExitEndsStep, GuestBounds
<1>6. G!Kinds
  BY <1>1, G!StepKinds, GuestBounds
<1>7. G!PhaseStep
  BY <1>1, G!Phases, GuestBounds
<1> QED
  BY <1>2, <1>3, <1>4, <1>5, <1>6, <1>7 DEF GInv

(* It replies: a packet behind what has left the guest.                    *)
GuestSends(proc, data) ==
  /\ G!Replies(proc, data) /\ Sendable(proc, data) /\ app # "none"
  /\ ToHost' = toHost \o Packet(proc, data)

(* A reply replaces what was being sent.                                   *)
LEMMA PacketSent ==
  ASSUME GInv, GInv', NEW proc, NEW data, G!Replies(proc, data)
  PROVE  GuestSends(proc, data)
<1>1. G!Typed /\ G!Typed'
  BY DEF GInv
<1>2. G!Out = toHost /\ G!Sent' = ToHost' /\ toHost \in Seq(Unit)
  <2>1. toHost' \in Seq(Unit)
    <3>1. G!Unit = Unit
      BY DEF G!Unit, Unit, G!Procs, Procs
    <3> QED
      BY <1>1, <3>1 DEF G!Typed, G!TypeOK, G!ChannelTypeOK
  <2>2. << >> \o toHost' = toHost'
    BY <2>1, ConcatEmptySeq
  <2> QED
    BY <1>1, <2>2, GuestTypes DEF G!Sent, ToHost
<1>3. G!Sent' = G!Out \o G!Packet(proc, data)
  BY <1>1, G!SentReplies, GuestBounds
<1>4. G!Packet(proc, data) = Packet(proc, data)
  BY DEF G!Packet, Packet
<1>5. Sendable(proc, data) /\ app # "none"
  BY DEF G!Replies, G!Sends, G!Sendable, Sendable, G!Procs, Procs
<1> QED
  BY <1>2, <1>3, <1>4, <1>5 DEF GuestSends

(* What it does to the units on their way to the host.                     *)
LEMMA SentByGuest ==
  ASSUME GInv, GInv', G!Kinds, GuestNext
  PROVE  \/ ToHost' = ToHost
         \/ \E u \in {Noise, Sync} : ToHost' = Append(ToHost, u) /\ app' = "none"
         \/ \E n \in 1 .. Len(outPipe) :
              G!SendsOut(n) /\ GuestSends("STDOUT", SubSeq(outPipe, 1, n))
         \/ \E n \in 1 .. Len(errPipe) :
              G!SendsErr(n) /\ GuestSends("STDERR", SubSeq(errPipe, 1, n))
         \/ \E status \in Nat : G!SendsExit(status) /\ GuestSends("EXIT", << status >>)
<1>1. G!Typed /\ G!Typed' /\ G!Handshaking /\ G!Handshaking'
  BY DEF GInv
<1>2. G!Sent = ToHost /\ G!Out = toHost /\ G!Sent' = ToHost' /\ toHost \in Seq(Unit)
  <2>1. toHost' \in Seq(Unit)
    <3>1. G!Unit = Unit
      BY DEF G!Unit, Unit, G!Procs, Procs
    <3> QED
      BY <1>1, <3>1 DEF G!Typed, G!TypeOK, G!ChannelTypeOK
  <2>2. << >> \o toHost' = toHost'
    BY <2>1, ConcatEmptySeq
  <2> QED
    BY <1>1, <2>2, GuestTypes DEF G!Sent, ToHost
<1>3. G!Noise = Noise /\ G!Sync = Sync
  BY DEF G!Noise, Noise, G!Sync, Sync, G!Byte, Byte
<1>4. CASE G!Still
  BY <1>1, <1>2, <1>4, G!SentStill, GuestBounds
<1>5. CASE G!Passes
  BY <1>1, <1>2, <1>5, G!SentPasses, GuestBounds
<1>6. CASE G!Echoes
  <2>1. G!Sent' = Append(G!Out, G!Noise) /\ G!Sent = G!Out
    BY <1>1, <1>6, G!SentEchoes, GuestBounds
  <2>2. gstate = "BOOT" /\ app = "none"
    BY <1>1, <1>6 DEF G!Echoes, G!Handshaking
  <2>3. app' = "none"
    BY <2>2, AppStarts
  <2> QED
    BY <1>2, <1>3, <2>1, <2>3
<1>7. CASE G!Answers
  <2>1. G!Sent' = Append(G!Out, G!Sync) /\ G!Sent = G!Out
    BY <1>1, <1>7, G!SentAnswers, GuestBounds
  <2>2. gstate = "WAITING" /\ app = "none"
    BY <1>1, <1>7 DEF G!Answers, G!Handshaking
  <2>3. app' = "none"
    BY <2>2, AppStarts
  <2> QED
    BY <1>2, <1>3, <2>1, <2>3
<1>9. CASE \E n \in 1 .. Len(outPipe) : G!SendsOut(n)
  BY <1>9, PacketSent DEF G!SendsOut
<1>10. CASE \E n \in 1 .. Len(errPipe) : G!SendsErr(n)
  BY <1>10, PacketSent DEF G!SendsErr
<1>11. CASE \E status \in Nat : G!SendsExit(status)
  BY <1>11, PacketSent DEF G!SendsExit
<1> QED
  BY <1>4, <1>5, <1>6, <1>7, <1>9, <1>10, <1>11 DEF G!Kinds

(* No packet of the guest is longer than a pipe.                           *)
Short(units) == \A i \in 1 .. Len(units) : Len(units[i].data) <= PipeCap

(* A packet of no more than a pipe keeps a row of such units one.          *)
LEMMA ShortPacket ==
  ASSUME NEW u \in Seq(Unit), Short(u), NEW proc, NEW data, Sendable(proc, data),
         Len(data) <= PipeCap
  PROVE  Short(u \o Packet(proc, data))
<1> DEFINE v == u \o Packet(proc, data)
<1>1. /\ v \in Seq(Unit) /\ Len(u) \in Nat /\ Len(v) = Len(u) + 2
      /\ \A i \in 1 .. Len(u) : v[i] = u[i]
      /\ v[Len(u) + 1] = LengthUnit(proc) /\ v[Len(u) + 2] = BodyUnit(proc, data)
  <2> DEFINE p == Packet(proc, data)
  <2>1. p \in Seq(Unit) /\ p = << LengthUnit(proc), BodyUnit(proc, data) >>
    BY PacketTyped
  <2>2. Len(p) = 2 /\ p[1] = LengthUnit(proc) /\ p[2] = BodyUnit(proc, data)
    BY <2>1
  <2> HIDE DEF p
  <2>3. /\ u \o p \in Seq(Unit) /\ Len(u) \in Nat /\ Len(u \o p) = Len(u) + Len(p)
        /\ \A i \in 1 .. Len(u) : (u \o p)[i] = u[i]
        /\ \A i \in 1 .. Len(p) : (u \o p)[Len(u) + i] = p[i]
    BY <2>1, ConcatIs
  <2> QED
    BY <2>2, <2>3 DEF p
<1> HIDE DEF v
<1>2. Len(LengthUnit(proc).data) = 0 /\ BodyUnit(proc, data).data = data
  BY DEF LengthUnit, BodyUnit
<1>3. ASSUME NEW i \in 1 .. Len(v) PROVE Len(v[i].data) <= PipeCap
  <2>1. i \in 1 .. Len(u) \/ i = Len(u) + 1 \/ i = Len(u) + 2
    BY <1>1
  <2> QED
    BY <1>1, <1>2, <2>1 DEF Short
<1> QED
  BY <1>3 DEF Short, v

(* Nor is what is in one.                                                  *)
LEMMA GuestKeepsPipes ==
  ASSUME GInv, GInv', GuestStepOf, PipesInv
  PROVE  PipesInv'
<1>1. /\ G!Typed /\ G!Handshaking /\ G!Next
      /\ outPipe \in Seq(Nat) /\ errPipe \in Seq(Nat) /\ outWritten \in Nat /\ errWritten \in Nat
      /\ toHost \in Seq(Unit) /\ gtx \in Seq(Unit) /\ ToHost \in Seq(Unit)
      /\ Len(outPipe) \in Nat /\ Len(errPipe) \in Nat
  BY GuestTypes, GuestIsOpen, LenProperties DEF GInv
<1>2. Len(<< >>) = 0 /\ PipeCap \in Nat
  BY EmptySeq
<1>3. Len(outPipe) <= PipeCap /\ Len(errPipe) <= PipeCap
  BY DEF PipesInv
<1>4. ASSUME NEW s \in Seq(Nat), Len(s) <= PipeCap, NEW n \in 1 .. Len(s)
      PROVE  Len(SubSeq(s, 1, n)) <= PipeCap /\ Len(SubSeq(s, n + 1, Len(s))) <= PipeCap
  <2>1. Len(s) \in Nat /\ \A i \in 1 .. Len(s) : s[i] \in Nat
    BY LenProperties, ElementOfSeq
  <2>2. Len(SubSeq(s, 1, n)) = IF 1 <= n THEN n - 1 + 1 ELSE 0
    BY <2>1, SubSeqProperties
  <2>3. Len(SubSeq(s, n + 1, Len(s))) = IF n + 1 <= Len(s) THEN Len(s) - (n + 1) + 1 ELSE 0
    BY <2>1, SubSeqProperties
  <2> QED
    BY <1>2, <1>4, <2>1, <2>2, <2>3
<1>5. Len(outPipe') <= PipeCap /\ Len(errPipe') <= PipeCap
  <2>1. CASE G!PipeStep
    <3>1. ASSUME outWritten' = outWritten + 1, outPipe' = Append(outPipe, outWritten + 1)
          PROVE  Len(outPipe') = Len(outPipe) + 1 /\ Len(outPipe) < PipeCap
      <4>1. Len(outPipe) < PipeCap
        BY <1>1, <3>1, PipesHaveRoom DEF GuestStepOf
      <4>2. outPipe \in Seq(Nat) /\ outWritten + 1 \in Nat
        BY <1>1
      <4>3. Len(Append(outPipe, outWritten + 1)) = Len(outPipe) + 1
        BY ONLY <4>2, AppendIs
      <4> QED
        BY ONLY <3>1, <4>1, <4>3
    <3>2. ASSUME errWritten' = errWritten + 1, errPipe' = Append(errPipe, errWritten + 1)
          PROVE  Len(errPipe') = Len(errPipe) + 1 /\ Len(errPipe) < PipeCap
      <4>1. Len(errPipe) < PipeCap
        BY <1>1, <3>2, PipesHaveRoom DEF GuestStepOf
      <4>2. errPipe \in Seq(Nat) /\ errWritten + 1 \in Nat
        BY <1>1
      <4>3. Len(Append(errPipe, errWritten + 1)) = Len(errPipe) + 1
        BY ONLY <4>2, AppendIs
      <4> QED
        BY ONLY <3>2, <4>1, <4>3
    <3>3. \/ outPipe' = outPipe \/ outPipe' = << >>
          \/ outWritten' = outWritten + 1 /\ outPipe' = Append(outPipe, outWritten + 1)
      BY <2>1 DEF G!PipeStep
    <3>4. \/ errPipe' = errPipe
          \/ errWritten' = errWritten + 1 /\ errPipe' = Append(errPipe, errWritten + 1)
      BY <2>1 DEF G!PipeStep
    <3>5. Len(outPipe') <= PipeCap
      <4>1. CASE outPipe' = outPipe
        BY ONLY <1>3, <4>1
      <4>2. CASE outPipe' = << >>
        BY ONLY <1>2, <4>2
      <4>3. CASE outWritten' = outWritten + 1 /\ outPipe' = Append(outPipe, outWritten + 1)
        BY ONLY <1>1, <1>2, <3>1, <4>3
      <4> QED
        BY ONLY <3>3, <4>1, <4>2, <4>3
    <3>6. Len(errPipe') <= PipeCap
      <4>1. CASE errPipe' = errPipe
        BY ONLY <1>3, <4>1
      <4>2. CASE errWritten' = errWritten + 1 /\ errPipe' = Append(errPipe, errWritten + 1)
        BY ONLY <1>1, <1>2, <3>2, <4>2
      <4> QED
        BY ONLY <3>4, <4>1, <4>2
    <3> QED
      BY ONLY <3>5, <3>6
  <2>2. CASE \E n \in 1 .. Len(outPipe) : G!SendsOut(n)
    BY <1>1, <1>3, <1>4, <2>2 DEF G!SendsOut
  <2>3. CASE \E n \in 1 .. Len(errPipe) : G!SendsErr(n)
    BY <1>1, <1>3, <1>4, <2>3 DEF G!SendsErr
  <2> QED
    BY <1>1, <2>1, <2>2, <2>3, G!Pipes, GuestBounds
<1>6. Short(ToHost) /\ Short(toHost)
  <2>1. Short(ToHost)
    BY DEF PipesInv, Short
  <2>2. \A i \in 1 .. Len(toHost) : ToHost[i] = toHost[i] /\ i \in 1 .. Len(ToHost)
    BY <1>1, ConcatIs DEF ToHost
  <2> QED
    BY <2>1, <2>2 DEF Short
<1>7. Short(ToHost')
  <2>1. CASE ToHost' = ToHost
    BY <1>6, <2>1
  <2>2. ASSUME NEW u \in {Noise, Sync}, ToHost' = Append(ToHost, u) PROVE Short(ToHost')
    <3>1. u \in Unit /\ Len(u.data) = 0
      BY BytesTyped DEF Noise, Sync, Byte
    <3>2. /\ Len(ToHost) \in Nat /\ Len(Append(ToHost, u)) = Len(ToHost) + 1
          /\ \A i \in 1 .. Len(ToHost) : Append(ToHost, u)[i] = ToHost[i]
          /\ Append(ToHost, u)[Len(ToHost) + 1] = u
      BY <1>1, <3>1, AppendIs
    <3>3. \A i \in 1 .. Len(ToHost) + 1 : i \in 1 .. Len(ToHost) \/ i = Len(ToHost) + 1
      BY <3>2
    <3> QED
      BY <1>2, <1>6, <2>2, <3>1, <3>2, <3>3 DEF Short
  <2>3. ASSUME NEW proc, NEW data, GuestSends(proc, data), Len(data) <= PipeCap
        PROVE  Short(ToHost')
    BY <1>1, <1>6, <2>3, ShortPacket DEF GuestSends
  <2>4. \A n \in 1 .. Len(outPipe) : Len(SubSeq(outPipe, 1, n)) <= PipeCap
    BY <1>1, <1>3, <1>4
  <2>5. \A n \in 1 .. Len(errPipe) : Len(SubSeq(errPipe, 1, n)) <= PipeCap
    BY <1>1, <1>3, <1>4
  <2>6. \A status : Len(<< status >>) <= PipeCap
    OBVIOUS
  <2>7. G!Kinds /\ GuestNext
    BY GuestKeepsGuest DEF GuestStepOf
  <2> QED
    BY <2>1, <2>2, <2>3, <2>4, <2>5, <2>6, <2>7, SentByGuest
<1> QED
  BY <1>5, <1>7 DEF PipesInv, Short

(* The host's invariant.                                                   *)
LEMMA GuestKeepsHost ==
  ASSUME HInv, GInv', PipesInv', UNCHANGED hostVars
  PROVE  HInv'
<1> USE DEF hostVars, queues, local
<1>1. toGuest' \in Seq(Unit) /\ toHost' \in Seq(Unit) /\ gtx' \in Seq(Unit)
  <2>1. G!Unit = Unit
    BY DEF G!Unit, Unit, G!Procs, Procs
  <2> QED
    BY <2>1 DEF GInv, G!Typed, G!TypeOK, G!TxBuffer, G!ChannelTypeOK
<1>2. H!TypeOK /\ H!AwaitsOnlyWhatItCanTake /\ H!QueuesBounded /\ H!FirstSession
  BY DEF HInv, H!HostInv
<1>3. H!TypeOK'
  <2>1. H!Unit = Unit
    BY DEF H!Unit, Unit, H!Procs, Procs
  <2> QED
    BY <1>1, <1>2, <2>1 DEF H!TypeOK, H!ChannelTypeOK, H!localToStdoutLength
<1>4. H!AwaitsOnlyWhatItCanTake' /\ H!QueuesBounded' /\ H!FirstSession'
  BY <1>2 DEF H!AwaitsOnlyWhatItCanTake, H!QueuesBounded, H!FirstSession, H!QueuesBelowMax,
     H!localToStdoutLength, H!localToStderrLength, H!Wait, H!Sync, H!Byte
<1>5. H!PayloadsBounded'
  <2>1. \A i \in 1 .. Len(toHost') : ToHost'[i] = toHost'[i] /\ i \in 1 .. Len(ToHost')
    BY <1>1, ConcatIs DEF ToHost
  <2> QED
    BY <2>1 DEF PipesInv, H!PayloadsBounded
<1> QED
  BY <1>3, <1>4, <1>5 DEF HInv, H!HostInv
-----------------------------------------------------------------------------
(* A step of the guest keeps what relates the ends.                        *)

(* The wait bytes it has not read are still wait bytes.                    *)
LEMMA WaitsRead ==
  ASSUME GInv, GuestNext, Waits(toGuest) PROVE Waits(toGuest')
<1>1. toGuest \in Seq(Unit)
  BY GuestTypes DEF GInv
<1>2. Len(<< >>) = 0
  BY EmptySeq
<1> QED
  BY <1>1, <1>2, GuestReads, WaitsKept DEF Drops, Waits

(* The application does not start while nothing but wait bytes come.       *)
LEMMA GuestKeepsHostFirst ==
  ASSUME GInv, HostFirst, GuestStepOf
  PROVE  HostFirst'
<1> USE DEF hostVars, queues, local
<1>1. GuestNext /\ UNCHANGED hostVars /\ toGuest \in Seq(Unit)
  BY GuestTypes DEF GuestStepOf, GInv
<1>2. ASSUME Fresh PROVE Waits(toGuest') /\ app' = "none"
  <2>1. Waits(toGuest) /\ app = "none"
    BY <1>2 DEF HostFirst
  <2>2. toGuest # << >> => Head(toGuest) = Wait
    BY <1>1, <2>1, WaitsOrderly
  <2>3. app' = "none"
    BY <1>1, <2>1, <2>2, AppStarts, BytesTyped DEF Drops
  <2> QED
    BY <1>1, <2>1, <2>3, WaitsRead
<1>3. toGuest = << >> => toGuest' = << >>
  BY <1>1, GuestReads DEF Drops
<1> QED
  BY <1>1, <1>2, <1>3 DEF HostFirst, Fresh, Wait, Sync, Byte

(* It does not go back to a phase in which the host has not answered.      *)
LEMMA GuestKeepsGuestFirst ==
  ASSUME GInv, GInv', GuestFirst, GuestStepOf, G!PhaseStep, G!Kinds
  PROVE  GuestFirst'
<1> USE DEF hostVars
<1>1. GuestNext /\ UNCHANGED hostVars /\ ToHost \in Seq(Unit) /\ G!Handshaking
  BY GuestTypes DEF GuestStepOf, GInv
<1>2. gstate' \in {"BOOT", "WAITING"} => Waits(toGuest') /\ gstate \in {"BOOT", "WAITING"}
  BY <1>1, WaitsRead DEF GuestFirst, G!PhaseStep
<1>3. ASSUME app' = "none"
      PROVE  /\ Bare(ToHost') /\ app = "none"
             /\ UNCHANGED << hostToStdin, appRead, inPipe, outPipe, errPipe, outWritten,
                             errWritten >>
  <2>1. app = "none"
    BY <1>1, <1>3, AppStarts
  <2>2. gstate # "RUNNING"
    BY <1>1, <2>1 DEF G!Handshaking
  <2>3. ToHost' = ToHost \/ \E u \in {Noise, Sync} : ToHost' = Append(ToHost, u)
    BY <1>1, <2>1, SentByGuest DEF GuestSends
  <2>4. Bare(ToHost')
    BY <1>1, <2>1, <2>3, BareKept, BytesTyped DEF GuestFirst
  <2> QED
    BY <1>1, <2>1, <2>2, <2>4, NothingMoves
<1> QED
  BY <1>1, <1>2, <1>3 DEF GuestFirst

-----------------------------------------------------------------------------
(* What is understood stays so.                                            *)

(* The next part of what the host is sending is the one the guest wants.   *)
LEMMA NextPart ==
  ASSUME HInv, StdinPacket, state = "RUNNING", tx # << >>
  PROVE  /\ Head(tx) \in Unit /\ Takes(StdinTail, Head(tx))
         /\ tx' = Tail(tx) => After(Head(tx)) = StdinTail'
<1>1. tx \in Seq(Unit) /\ Head(tx) \in Unit
  BY HostTypes, HeadTailProperties DEF HInv, H!HostInv
<1>2. CASE Len(tx) = 2 /\ tx = Packet("STDIN", tx[2].data)
  <2>1. PICK d : d = tx[2].data
    OBVIOUS
  <2>2. tx = << LengthUnit("STDIN"), BodyUnit("STDIN", d) >>
    BY <1>2, <2>1 DEF Packet, BodyUnit, LengthUnit
  <2>3. /\ Tail(<< LengthUnit("STDIN"), BodyUnit("STDIN", d) >>) = << BodyUnit("STDIN", d) >>
        /\ Head(<< LengthUnit("STDIN"), BodyUnit("STDIN", d) >>) = LengthUnit("STDIN")
    OBVIOUS
  <2>4. ASSUME tx' = Tail(tx) PROVE StdinTail' = "body"
    <3>1. tx' = << BodyUnit("STDIN", d) >>
      BY <2>2, <2>3, <2>4
    <3>2. tx' # << >> /\ Len(tx') = 1
      BY <3>1
    <3> QED
      BY <3>2 DEF StdinTail
  <2>5. Takes("length", LengthUnit("STDIN")) /\ After(LengthUnit("STDIN")) = "body"
    BY DEF Takes, After, LengthUnit, Wait, Byte
  <2>6. StdinTail = "length"
    BY <1>2 DEF StdinTail
  <2> QED
    BY <1>1, <2>2, <2>3, <2>4, <2>5, <2>6
<1>3. CASE Len(tx) = 1 /\ tx = << BodyUnit("STDIN", tx[1].data) >>
  <2>1. PICK d : d = tx[1].data
    OBVIOUS
  <2>2. tx = << BodyUnit("STDIN", d) >>
    BY <1>3, <2>1
  <2>3. /\ Tail(<< BodyUnit("STDIN", d) >>) = << >>
        /\ Head(<< BodyUnit("STDIN", d) >>) = BodyUnit("STDIN", d)
    OBVIOUS
  <2>4. tx' = Tail(tx) => StdinTail' = "length"
    BY <2>2, <2>3 DEF StdinTail
  <2>5. Takes("body", BodyUnit("STDIN", d)) /\ After(BodyUnit("STDIN", d)) = "length"
    BY DEF Takes, After, BodyUnit, Wait, Byte
  <2>6. StdinTail = "body"
    BY <1>3 DEF StdinTail
  <2> QED
    BY <1>1, <2>2, <2>3, <2>4, <2>5, <2>6
<1> QED
  BY <1>2, <1>3 DEF StdinPacket

(* While nothing but wait bytes is out, the guest wants a byte.            *)
LEMMA WantsByte ==
  ASSUME GInv, HostFirst, Fresh
  PROVE  /\ toGuest \in Seq(Unit) /\ Want = "byte" /\ Waits(toGuest)
         /\ Orderly("byte", toGuest) /\ Ends("byte", toGuest) = "byte"
<1>1. toGuest \in Seq(Unit) /\ Waits(toGuest) /\ gstate # "RUNNING"
  BY GuestTypes DEF GInv, HostFirst, G!Handshaking
<1> QED
  BY <1>1, WaitsOrderly DEF Want

(* What the host does leaves the guest able to take all that is on its way. *)
LEMMA HostKeepsUnderstood ==
  ASSUME HInv, GInv, HostFirst, StdinPacket, Understood, HostKinds, UNCHANGED guestVars
  PROVE  Understood'
<1> USE DEF guestVars, loopVars, HostData
<1>1. /\ toGuest \in Seq(Unit) /\ exited \in Seq(Nat)
      /\ state \in {"STOPPING", "FINISHED"} => exited # << >>
  BY HostTypes, HostAwaits DEF HInv, H!HostInv
<1>2. ASSUME exited = << >>, exited' = << >>,
             Orderly(Want, toGuest'), state' = "RUNNING" => Ends(Want, toGuest') = StdinTail'
      PROVE  Understood'
  BY <1>2 DEF Understood, Want
<1>3. ASSUME exited = << >>, exited' = << >>, UNCHANGED toGuest, state' # "RUNNING"
      PROVE  Understood'
  BY <1>3 DEF Understood, Want
<1>4. ASSUME UNCHANGED << exited, toGuest, state, tx >> PROVE Understood'
  BY <1>4 DEF Understood, Want, StdinTail
<1>5. CASE exited # << >>
  BY <1>1, <1>5, AppendProperties
     DEF HostKinds, Begins, Breaks, Refuses, Awaits, Syncs, Starts, Sends, TakesLength,
         TakesOutput, TakesExit, Gathers, Lags, Delivers, Rests, Understood, HostFirst, Fresh
<1>6. CASE exited = << >>
  <2>1. gstate # "OFF" /\ ~quit /\ Orderly(Want, toGuest)
    BY <1>6 DEF Understood
  <2>2. CASE Begins \/ Syncs \/ Lags
    BY <1>3, <1>6, <2>2 DEF Begins, Syncs, Lags
  <2>3. CASE Breaks
    BY <1>1, <1>3, <1>6, <2>3 DEF Breaks
  <2>4. CASE Refuses
    BY <1>1, <1>4, <1>6, <2>4 DEF Refuses
  <2>5. CASE TakesLength \/ Rests \/ \E u \in Unit : TakesOutput(u)
    BY <1>4, <2>5 DEF TakesLength, Rests, TakesOutput
  <2>6. CASE \E u \in Unit : TakesExit(u)
    <3>1. exited' # << >>
      <4>1. PICK x : exited' = Append(exited, x)
        BY <2>6 DEF TakesExit
      <4> QED
        BY <1>6, <4>1
    <3> QED
      BY <3>1 DEF Understood
  <2>7. CASE \E n \in 0 .. Len(localToStdout) - localToStdoutOffset : Delivers(n)
    BY <1>1, <1>4, <1>6, <2>7 DEF Delivers
  <2>8. CASE Awaits
    <3>1. Fresh /\ exited' = << >> /\ state' = "WAITING"
      BY <1>6, <2>8 DEF Awaits, Fresh
    <3>2. CASE UNCHANGED toGuest
      BY <1>3, <1>6, <3>1, <3>2
    <3>3. CASE toGuest' = Append(toGuest, Wait)
      <4>1. Takes("byte", Wait) /\ Wait \in Unit
        BY BytesTyped DEF Takes
      <4>2. Orderly("byte", toGuest')
        BY <3>1, <3>3, <4>1, WantsByte, OrderlyAppend
      <4> QED
        BY <1>2, <1>6, <3>1, <4>2, WantsByte
    <3> QED
      BY <2>8, <3>2, <3>3 DEF Awaits
  <2>9. CASE Starts
    <3>1. Fresh /\ exited' = << >> /\ state' = "RUNNING" /\ tx' = << >>
          /\ toGuest' = Append(toGuest, Sync)
      BY <1>6, <2>9 DEF Starts, Fresh
    <3>2. Takes("byte", Sync) /\ Sync \in Unit /\ After(Sync) = "length"
      BY BytesTyped DEF Takes, After, Sync, Byte
    <3>3. Orderly("byte", toGuest') /\ Ends("byte", toGuest') = "length"
      BY <3>1, <3>2, WantsByte, OrderlyAppend
    <3>4. StdinTail' = "length"
      BY <3>1 DEF StdinTail
    <3> QED
      BY <1>2, <1>6, <3>1, <3>3, <3>4, WantsByte
  <2>10. CASE Sends
    <3>1. /\ state = "RUNNING" /\ state' = "RUNNING" /\ tx # << >> /\ tx' = Tail(tx)
          /\ toGuest' = Append(toGuest, Head(tx)) /\ exited' = << >>
      BY <1>1, <1>6, <2>10 DEF Sends, Put
    <3>2. Ends(Want, toGuest) = StdinTail
      BY <1>6, <3>1 DEF Understood
    <3>3. Head(tx) \in Unit /\ Takes(StdinTail, Head(tx)) /\ After(Head(tx)) = StdinTail'
      BY <3>1, NextPart
    <3>4. Orderly(Want, toGuest') /\ Ends(Want, toGuest') = After(Head(tx))
      BY <1>1, <2>1, <3>1, <3>2, <3>3, OrderlyAppend
    <3> QED
      BY <1>2, <1>6, <3>1, <3>3, <3>4
  <2>11. CASE \E n \in Nat : Gathers(n)
    <3>1. PICK n \in Nat : Gathers(n)
      BY <2>11
    <3>2. /\ state = "RUNNING" /\ state' = "RUNNING" /\ tx = << >> /\ UNCHANGED toGuest
          /\ exited' = << >> /\ tx' = Packet("STDIN", Bytes(stdinRead + 1, stdinRead + n))
      BY <1>6, <3>1 DEF Gathers
    <3>3. tx' # << >> /\ Len(tx') = 2
      BY <3>2 DEF Packet
    <3>4. StdinTail = "length" /\ StdinTail' = "length"
      BY <3>2, <3>3 DEF StdinTail
    <3> QED
      BY <1>2, <1>6, <2>1, <3>2, <3>4 DEF Understood
  <2> QED
    BY <2>2, <2>3, <2>4, <2>5, <2>6, <2>7, <2>8, <2>9, <2>10, <2>11 DEF HostKinds
<1> QED
  BY <1>5, <1>6

(* Taking a unit, the guest comes to await the one behind it.              *)
LEMMA GuestKeepsUnderstood ==
  ASSUME RunFails = FALSE, HostHangs = FALSE, GInv, GuestFirst, Understood, GuestStepOf
  PROVE  Understood'
<1> USE DEF hostVars
<1>1. GuestNext /\ UNCHANGED hostVars /\ toGuest \in Seq(Unit)
  BY GuestTypes DEF GuestStepOf, GInv
<1>2. CASE exited # << >>
  BY <1>1, <1>2 DEF Understood
<1>3. CASE exited = << >>
  <2>1. /\ gstate # "OFF" /\ ~quit /\ Orderly(Want, toGuest)
        /\ state = "RUNNING" => Ends(Want, toGuest) = StdinTail
    BY <1>3 DEF Understood
  <2>2. StdinTail' = StdinTail /\ state' = state /\ exited' = << >>
    BY <1>1, <1>3 DEF StdinTail
  <2>3. ASSUME UNCHANGED << gstate, quit, toGuest >>, Want' = Want PROVE Understood'
    BY <2>1, <2>2, <2>3 DEF Understood
  <2>4. ASSUME Drops, Takes(Want, Head(toGuest)) =>
                        gstate' # "OFF" /\ ~quit' /\ Want' = After(Head(toGuest))
        PROVE  Understood'
    <3>1. /\ Takes(Want, Head(toGuest)) /\ Orderly(After(Head(toGuest)), Tail(toGuest))
          /\ Ends(After(Head(toGuest)), Tail(toGuest)) = Ends(Want, toGuest)
      BY <1>1, <2>1, <2>4, OrderlyTail DEF Drops
    <3> QED
      BY <2>1, <2>2, <2>4, <3>1 DEF Understood, Drops
  <2>5. CASE Echo
    <3>1. Drops /\ gstate = "BOOT" /\ gstate' = "BOOT" /\ quit' = quit
      BY <2>5 DEF Echo, Drops, guestVars, loopVars
    <3>2. Head(toGuest) = Wait
      BY <1>1, <3>1, WaitsOrderly DEF GuestFirst, Drops
    <3>3. Want' = "byte" /\ After(Wait) = "byte"
      BY <3>1 DEF Want, After
    <3> QED
      BY <2>1, <2>4, <3>1, <3>2, <3>3
  <2>6. CASE Boot
    <3>1. gstate = "BOOT" /\ gstate' = "WAITING" /\ quit' = quit /\ toGuest' = << >>
      BY <2>6 DEF Boot
    <3>2. state # "RUNNING"
      BY <3>1 DEF GuestFirst
    <3>3. Orderly(Want', toGuest')
      BY <3>1 DEF Orderly
    <3> QED
      BY <2>1, <2>2, <3>1, <3>2, <3>3 DEF Understood
  <2>7. CASE ReadHost
    <3>1. Drops
      BY <2>7 DEF ReadHost, Drops
    <3>2. PICK u : u = Head(toGuest)
      OBVIOUS
    <3>3. /\ \/ Polls /\ PollsHostIn
             \/ gstate = "RUNNING" /\ InRead
          /\ \/ ReadWait(u) \/ IgnoreWait(u) \/ ReadSync(u) \/ RunCommandFails(u)
             \/ ReadLength(u) \/ ReadStdin(u) \/ ReadStdinEOF(u) \/ ReadQuit(u)
             \/ ReadBad(u)
      BY <2>7, <3>2 DEF ReadHost
    <3>4. gstate = "WAITING" => u = Wait
      BY <1>1, <3>1, <3>2, WaitsOrderly DEF GuestFirst, Drops
    <3>5. /\ Wait # Sync /\ Wait.part = "byte" /\ Sync.part = "byte"
      BY BytesTyped
    <3>6. grx = "body" => gstate = "RUNNING"
      BY <3>3 DEF Polls, InRead
    <3>7. ASSUME Takes(Want, u) PROVE gstate' # "OFF" /\ ~quit' /\ Want' = After(u)
      <4>1. CASE ReadWait(u) \/ IgnoreWait(u)
        BY <2>1, <4>1 DEF ReadWait, IgnoreWait, Want, After, guestVars, loopVars
      <4>2. CASE ReadSync(u)
        BY <2>1, <3>5, <4>2 DEF ReadSync, Want, After
      <4>3. CASE ReadLength(u)
        BY <2>1, <3>5, <4>3 DEF ReadLength, Want, After
      <4>4. CASE ReadStdin(u) \/ ReadStdinEOF(u)
        BY <2>1, <3>5, <3>6, <4>4 DEF ReadStdin, ReadStdinEOF, Want, After
      <4>5. CASE ReadQuit(u)
        BY <3>6, <3>7, <4>5 DEF ReadQuit, Want, Takes
      <4>6. CASE ReadBad(u)
        BY <3>4, <3>6, <3>7, <4>6 DEF ReadBad, Want, Takes
      <4> QED
        BY <3>3, <4>1, <4>2, <4>3, <4>4, <4>5, <4>6 DEF RunCommandFails
    <3> QED
      BY <2>4, <3>1, <3>2, <3>7
  <2>8. CASE WriteStdin
    <3>1. UNCHANGED << gstate, quit, toGuest >> /\ grx # "body" /\ grx' # "body"
      BY <2>8 DEF WriteStdin, Polls, InRead
    <3> QED
      BY <2>3, <3>1 DEF Want
  <2>9. CASE Reap \/ WriteHost \/ ReadAppOut \/ ReadAppErr \/ MasterHangup \/ App
    <3>1. UNCHANGED << gstate, quit, grx, toGuest >>
      BY <2>9 DEF Reap, WriteHost, ReadAppOut, ReadAppErr, MasterHangup, App, AppRead, AppWriteOut,
         AppWriteErr, AppExits, OrphanExits, AppClose, AppForks, loopVars
    <3> QED
      BY <2>3, <3>1 DEF Want
  <2>10. ~HostFails /\ ~LeaveLoop
    BY <2>1 DEF HostFails, LeaveLoop
  <2> QED
    BY <1>1, <2>5, <2>6, <2>7, <2>8, <2>9, <2>10 DEF GuestNext, Loop
<1> QED
  BY <1>2, <1>3

-----------------------------------------------------------------------------
(* The input.                                                              *)

Flowing == /\ state = "RUNNING" /\ gstate \in {"SYNCING", "RUNNING"}
           /\ app = "none" \/ (app = "running" /\ holders["in"] # {})

Delivered == (appRead \o inPipe) \o hostToStdin

(* All of it.                                                              *)
LEMMA InputTyped ==
  ASSUME HInv, GInv
  PROVE  /\ appRead \in Seq(Nat) /\ inPipe \in Seq(Nat) /\ hostToStdin \in Seq(Nat)
         /\ appRead \o inPipe \in Seq(Nat) /\ Delivered \in Seq(Nat)
         /\ toGuest \in Seq(Unit) /\ tx \in Seq(Unit) /\ toGuest \o tx \in Seq(Unit)
         /\ DataOf("STDIN", toGuest \o tx) \in Seq(Nat) /\ stdinRead \in Nat
<1>1. /\ appRead \in Seq(Nat) /\ inPipe \in Seq(Nat) /\ hostToStdin \in Seq(Nat)
      /\ toGuest \in Seq(Unit) /\ tx \in Seq(Unit) /\ stdinRead \in Nat
  BY HostTypes, GuestTypes DEF HInv, H!HostInv, GInv
<1>2. appRead \o inPipe \in Seq(Nat)
  BY <1>1, ConcatProperties
<1>3. (appRead \o inPipe) \o hostToStdin \in Seq(Nat)
  BY <1>1, <1>2, ConcatProperties
<1>4. toGuest \o tx \in Seq(Unit)
  BY <1>1, ConcatProperties
<1>5. DataOf("STDIN", toGuest \o tx) \in Seq(Nat)
  BY <1>4, G!DataTyped, GuestBounds, DataOfConcat, EmptySeq
<1> QED
  BY <1>1, <1>2, <1>3, <1>4, <1>5 DEF Delivered

(* The host moves it along, and adds what it has read behind it.           *)
LEMMA HostKeepsInput ==
  ASSUME HInv, GInv, HostFirst, GuestFirst, InputInv, HostKinds, UNCHANGED guestVars
  PROVE  InputInv'
<1> USE DEF guestVars, loopVars, appVars, HostData, queues, local
<1>1. /\ Delivered \in Seq(Nat) /\ toGuest \in Seq(Unit) /\ tx \in Seq(Unit)
      /\ DataOf("STDIN", toGuest) \in Seq(Nat) /\ stdinRead \in Nat
  BY InputTyped, DataOfConcat
<1>2. Delivered' = Delivered
  BY DEF Delivered
<1>3. grx' # "none" => hostToStdin' = << >>
  BY DEF InputInv
<1>4. ASSUME Flowing'
      PROVE  Delivered \o DataOf("STDIN", toGuest' \o tx') = Bytes(1, stdinRead')
  <2>1. state' = "RUNNING" /\ (state = "RUNNING" => Flowing)
    BY <1>4 DEF Flowing
  <2>2. state = "RUNNING" => Delivered \o DataOf("STDIN", toGuest \o tx) = Bytes(1, stdinRead)
    BY <2>1 DEF InputInv, Flowing, Delivered
  <2>3. CASE UNCHANGED << state, tx, toGuest, stdinRead >>
    BY <2>1, <2>2, <2>3
  <2>4. CASE Starts
    <3>1. /\ Fresh /\ toGuest' = Append(toGuest, Sync) /\ tx' = << >> /\ stdinRead' = stdinRead
      BY <2>4 DEF Starts, Fresh
    <3>2. Waits(toGuest) /\ app = "none" /\ stdinRead = 0
      BY <3>1 DEF HostFirst
    <3>3. appRead = << >> /\ inPipe = << >> /\ hostToStdin = << >>
      BY <3>2 DEF GuestFirst
    <3>4. Delivered = << >>
      BY <3>3, EmptySeq, ConcatEmptySeq DEF Delivered
    <3>5. toGuest' \in Seq(Unit) /\ Bare(toGuest')
      BY <1>1, <3>1, <3>2, WaitsBare, BareKept, BytesTyped, AppendIs
    <3>6. toGuest' \o tx' = toGuest' /\ DataOf("STDIN", toGuest') = << >>
      BY <3>1, <3>5, ConcatEmptySeq, BareKept DEF Procs
    <3>7. << >> \o << >> = << >> /\ << >> \in Seq(Nat)
      BY EmptySeq, ConcatEmptySeq
    <3> QED
      BY <3>1, <3>2, <3>4, <3>6, <3>7, BytesEmpty
  <2>5. CASE Sends
    <3>1. /\ state = "RUNNING" /\ tx # << >> /\ toGuest' = Append(toGuest, Head(tx))
          /\ tx' = Tail(tx) /\ stdinRead' = stdinRead
      BY <2>1, <2>5 DEF Sends, Put
    <3>2. toGuest' \o tx' = toGuest \o tx
      BY <1>1, <3>1, MoveHead
    <3> QED
      BY <2>2, <3>1, <3>2
  <2>6. CASE \E n \in Nat : Gathers(n)
    <3>1. PICK n \in Nat : Gathers(n)
      BY <2>6
    <3> DEFINE d == Bytes(stdinRead + 1, stdinRead + n)
               f == DataOf("STDIN", toGuest)
    <3>2. /\ state = "RUNNING" /\ tx = << >> /\ toGuest' = toGuest
          /\ tx' = Packet("STDIN", d) /\ stdinRead' = stdinRead + n
      BY <3>1 DEF Gathers
    <3>3. /\ d \in Seq(Nat) /\ Bytes(1, stdinRead) \o d = Bytes(1, stdinRead + n)
      BY <1>1, BytesMore
    <3>4. DataOf("STDIN", toGuest' \o tx') = f \o d
      <4>1. Sendable("STDIN", d)
        BY <3>3 DEF Sendable, Procs
      <4>2. DataOf("STDIN", toGuest \o Packet("STDIN", d)) = DataOf("STDIN", toGuest) \o d
        BY ONLY <1>1, <4>1, DataOfPacket
      <4>3. toGuest' \o tx' = toGuest \o Packet("STDIN", d)
        BY ONLY <3>2
      <4> QED
        BY ONLY <4>2, <4>3
    <3>5. toGuest \o tx = toGuest
      BY <1>1, <3>2, ConcatEmptySeq
    <3> HIDE DEF d, f
    <3>6. Delivered \o f = Bytes(1, stdinRead)
      BY <2>2, <3>2, <3>5 DEF f
    <3>7. (Delivered \o f) \o d = Delivered \o (f \o d)
      <4>1. Delivered \in Seq(Nat) /\ f \in Seq(Nat) /\ d \in Seq(Nat)
        BY <1>1, <3>3 DEF f
      <4>2. Associates(Delivered, f, d)
        BY ONLY <4>1, DataAssociates
      <4> QED
        BY ONLY <4>2 DEF Associates
    <3> QED
      BY <3>2, <3>3, <3>4, <3>6, <3>7
  <2> QED
    BY <2>1, <2>3, <2>4, <2>5, <2>6
       DEF HostKinds, Begins, Breaks, Refuses, Awaits, Syncs, TakesLength, TakesOutput, TakesExit,
           Lags, Delivers, Rests
<1> QED
  BY <1>2, <1>3, <1>4 DEF InputInv, Flowing, Delivered

(* What the guest does with it.                                            *)
Carries(u) == u.part = "body" /\ u.proc = "STDIN"

InputStill ==
  /\ UNCHANGED << appRead, inPipe, hostToStdin >>
  /\ grx' = grx \/ grx' = "none" \/ grx = "length" \/ app = "none"
  /\ UNCHANGED toGuest \/ (Drops /\ Carried("STDIN", Head(toGuest)) = << >>)
InputTaken(u) ==
  /\ Drops /\ u = Head(toGuest) /\ Carries(u) /\ grx = "body"
  /\ hostToStdin' = u.data /\ grx' = "none" /\ UNCHANGED << appRead, inPipe >>
InputPiped(n) ==
  /\ inPipe' = inPipe \o SubSeq(hostToStdin, 1, n)
  /\ hostToStdin' = SubSeq(hostToStdin, n + 1, Len(hostToStdin))
  /\ grx' = IF n = Len(hostToStdin) THEN "length" ELSE grx
  /\ UNCHANGED << appRead, toGuest >>
InputRead == /\ appRead' = appRead \o inPipe /\ inPipe' = << >>
             /\ UNCHANGED << hostToStdin, grx, toGuest >>
InputLost == /\ hostToStdin' \in {hostToStdin, << >>} /\ UNCHANGED grx
             /\ gstate' \notin {"SYNCING", "RUNNING"} \/ (app' # "none" /\ holders'["in"] = {})

(* What a step of the guest does to the input once SYNC is out.            *)
LEMMA InputKinds ==
  ASSUME GInv, GuestNext, gstate \notin {"BOOT", "WAITING"}
  PROVE  \/ InputStill \/ InputRead \/ InputLost
         \/ \E u \in Unit : InputTaken(u)
         \/ \E n \in 1 .. Len(hostToStdin) : InputPiped(n)
<1> USE DEF guestVars, loopVars, appVars
<1>1. /\ toGuest \in Seq(Unit) /\ (gstate = "RUNNING" => app # "none")
      /\ (gstate = "SYNCING" => app = "none")
  BY GuestTypes DEF GInv, G!Handshaking
<1>2. CASE ReadHost
  <2>1. PICK u : u = Head(toGuest)
    OBVIOUS
  <2>2. /\ \/ Polls /\ PollsHostIn
           \/ gstate = "RUNNING" /\ InRead
        /\ \/ ReadWait(u) \/ IgnoreWait(u) \/ ReadSync(u) \/ RunCommandFails(u)
           \/ ReadLength(u) \/ ReadStdin(u) \/ ReadStdinEOF(u) \/ ReadQuit(u)
           \/ ReadBad(u)
        /\ Drops
    BY <1>2, <2>1 DEF ReadHost, Drops
  <2>3. Wait.part = "byte" /\ Sync.part = "byte" /\ u \in Unit
    BY <1>1, <2>1, <2>2, BytesTyped, HeadIs DEF Drops
  <2>4. CASE IgnoreWait(u)
    BY <2>1, <2>2, <2>3, <2>4 DEF IgnoreWait, InputStill, Carried
  <2>5. CASE ReadSync(u)
    BY <1>1, <2>1, <2>2, <2>3, <2>5 DEF ReadSync, InputStill, Carried
  <2>6. CASE ReadLength(u)
    BY <2>1, <2>2, <2>6 DEF ReadLength, InputStill, Carried
  <2>7. CASE ReadStdin(u)
    BY <2>1, <2>2, <2>3, <2>7 DEF ReadStdin, InputTaken, Carries
  <2>8. CASE ReadStdinEOF(u)
    BY <2>1, <2>2, <2>8 DEF ReadStdinEOF, InputStill, Carried
  <2>9. CASE ReadQuit(u)
    BY <2>1, <2>2, <2>9 DEF ReadQuit, InputStill, Carried
  <2>10. CASE ReadBad(u) \/ RunCommandFails(u)
    BY <2>10 DEF ReadBad, RunCommandFails, Leave, InputLost
  <2> QED
    BY <2>2, <2>4, <2>5, <2>6, <2>7, <2>8, <2>9, <2>10 DEF ReadWait
<1>3. CASE WriteStdin
  <2>1. CASE holders["in"] = {}
    BY <1>1, <1>3, <2>1 DEF WriteStdin, InputLost, PollsStdin
  <2>2. CASE holders["in"] # {}
    BY <1>3, <2>2 DEF WriteStdin, InputPiped
  <2> QED
    BY <2>1, <2>2
<1>4. CASE Reap \/ WriteHost \/ HostFails \/ ReadAppOut \/ ReadAppErr \/ MasterHangup \/ LeaveLoop
  BY <1>4 DEF Reap, WriteHost, HostFails, ReadAppOut, ReadAppErr, MasterHangup, LeaveLoop, Leave,
     InputStill
<1>5. CASE App
  BY <1>5 DEF App, AppRead, AppWriteOut, AppWriteErr, AppExits, OrphanExits, AppClose, AppForks,
     InputStill, InputRead
<1> QED
  BY <1>2, <1>3, <1>4, <1>5 DEF GuestNext, Loop, Echo, Boot

(* Input that is to reach the application was to reach it before.          *)
LEMMA StillFlowing ==
  ASSUME GInv, GuestFirst, GuestStepOf, Flowing'
  PROVE  Flowing
<1> USE DEF guestVars, loopVars, appVars, hostVars, Streams
<1>1. /\ holders \in [Streams -> SUBSET {"app", "orphan"}] /\ GuestNext
      /\ state = "RUNNING" /\ gstate \notin {"BOOT", "WAITING"}
      /\ gstate = "SYNCING" => app = "none"
      /\ gstate \in {"BOOT", "WAITING", "SYNCING", "RUNNING", "OFF"}
  BY GuestTypes DEF GInv, GuestStepOf, Flowing, GuestFirst, G!Handshaking
<1>2. gstate' \in {"SYNCING", "RUNNING"} => gstate # "OFF"
  <2>1. CASE ReadHost
    BY <2>1 DEF ReadHost, Polls
  <2>2. CASE Loop /\ ~ReadHost
    BY <2>2 DEF Loop, Reap, WriteHost, HostFails, WriteStdin, ReadAppOut, ReadAppErr,
       MasterHangup, LeaveLoop, Leave
  <2>3. CASE App
    BY <2>3 DEF App, AppRead, AppWriteOut, AppWriteErr, AppExits, OrphanExits, AppClose, AppForks
  <2> QED
    BY <1>1, <2>1, <2>2, <2>3 DEF GuestNext, Echo, Boot
<1>3. ASSUME app' = "running", holders'["in"] # {}
      PROVE  app = "none" \/ (app = "running" /\ holders["in"] # {})
  <2>1. CASE ReadHost
    BY <1>1, <1>3, <2>1 DEF ReadHost, ReadWait, IgnoreWait, ReadSync, RunCommandFails, ReadLength,
       ReadStdin, ReadStdinEOF, ReadQuit, ReadBad, Leave
  <2>2. CASE Loop /\ ~ReadHost
    BY <1>3, <2>2 DEF Loop, Reap, WriteHost, HostFails, WriteStdin, ReadAppOut, ReadAppErr,
       MasterHangup, LeaveLoop, Leave
  <2>3. CASE AppRead \/ AppWriteOut \/ AppWriteErr \/ AppExits
    BY <1>3, <2>3 DEF AppRead, AppWriteOut, AppWriteErr, AppExits
  <2>4. CASE OrphanExits \/ \E s \in Streams : AppClose(s)
    BY <1>1, <1>3, <2>4 DEF OrphanExits, AppClose, Writes
  <2>5. CASE \E keepsStdio \in BOOLEAN : AppForks(keepsStdio)
    BY <1>1, <1>3, <2>5 DEF AppForks
  <2> QED
    BY <1>1, <2>1, <2>2, <2>3, <2>4, <2>5 DEF GuestNext, App, Echo, Boot
<1>4. app' = "none" => app = "none"
  BY <1>1, AppStarts
<1> QED
  BY <1>1, <1>2, <1>3, <1>4 DEF Flowing

(* The guest keeps the input in one place.                                 *)
LEMMA GuestKeepsInput ==
  ASSUME HInv, GInv, HInv', GInv', GuestFirst, InputInv, GuestStepOf
  PROVE  InputInv'
<1> USE DEF hostVars, queues, local
<1>1. /\ appRead \in Seq(Nat) /\ inPipe \in Seq(Nat) /\ hostToStdin \in Seq(Nat)
      /\ appRead \o inPipe \in Seq(Nat) /\ Delivered \in Seq(Nat)
      /\ toGuest \in Seq(Unit) /\ tx \in Seq(Unit) /\ toGuest \o tx \in Seq(Unit)
      /\ UNCHANGED << tx, stdinRead, state >> /\ GuestNext
  BY InputTyped DEF GuestStepOf
<1>2. ASSUME gstate \in {"BOOT", "WAITING"}
      PROVE  InputInv'
  <2>1. app = "none" /\ gstate # "RUNNING" /\ state # "RUNNING"
    BY <1>2 DEF GInv, G!Handshaking, GuestFirst
  <2>2. hostToStdin = << >> /\ hostToStdin' = hostToStdin
    BY <1>1, <2>1, NothingMoves DEF GuestFirst
  <2> QED
    BY <1>1, <2>1, <2>2 DEF InputInv
<1>3. ASSUME gstate \notin {"BOOT", "WAITING"}
      PROVE  InputInv'
  <2>1. app = "none" => hostToStdin = << >>
    BY DEF GuestFirst
  <2>2. grx # "none" => hostToStdin = << >>
    BY DEF InputInv
  <2> DEFINE flow == DataOf("STDIN", toGuest \o tx)
  <2>3. Flowing' => Flowing /\ Delivered \o flow = Bytes(1, stdinRead)
    BY StillFlowing DEF InputInv, Flowing, Delivered
  <2>4. flow \in Seq(Nat)
    BY InputTyped
  <2>5. ASSUME grx' # "none" => hostToStdin' = << >>,
               Flowing' => Delivered' \o DataOf("STDIN", toGuest' \o tx) = Delivered \o flow
        PROVE  InputInv'
    BY <1>1, <2>3, <2>5 DEF InputInv, Flowing, Delivered
  <2>6. ASSUME Drops
        PROVE  /\ Head(toGuest) \in Unit /\ DataOf("STDIN", toGuest' \o tx) \in Seq(Nat)
               /\ flow = Carried("STDIN", Head(toGuest)) \o DataOf("STDIN", toGuest' \o tx)
    <3>1. toGuest # << >> /\ toGuest' = Tail(toGuest) /\ Head(toGuest) \in Unit
          /\ Tail(toGuest) \in Seq(Unit)
      BY <1>1, <2>6, HeadTailProperties DEF Drops
    <3>2. /\ DataOf("STDIN", toGuest) \in Seq(Nat) /\ DataOf("STDIN", tx) \in Seq(Nat)
          /\ DataOf("STDIN", toGuest \o tx) = DataOf("STDIN", toGuest) \o DataOf("STDIN", tx)
      BY <1>1, DataOfConcat
    <3>3. /\ DataOf("STDIN", Tail(toGuest)) \in Seq(Nat)
          /\ DataOf("STDIN", Tail(toGuest) \o tx)
               = DataOf("STDIN", Tail(toGuest)) \o DataOf("STDIN", tx)
      BY <1>1, <3>1, DataOfConcat
    <3>4. DataOf("STDIN", toGuest)
            = Carried("STDIN", Head(toGuest)) \o DataOf("STDIN", Tail(toGuest))
      BY <1>1, <3>1, DataOfHead
    <3>5. Carried("STDIN", Head(toGuest)) \in Seq(Nat)
      BY <3>1, CarriedTyped
    <3>6. (Carried("STDIN", Head(toGuest)) \o DataOf("STDIN", Tail(toGuest)))
             \o DataOf("STDIN", tx)
           = Carried("STDIN", Head(toGuest))
               \o (DataOf("STDIN", Tail(toGuest)) \o DataOf("STDIN", tx))
      <4>1. Associates(Carried("STDIN", Head(toGuest)), DataOf("STDIN", Tail(toGuest)),
                       DataOf("STDIN", tx))
        BY ONLY <3>2, <3>3, <3>5, DataAssociates
      <4> QED
        BY ONLY <4>1 DEF Associates
    <3>7. DataOf("STDIN", Tail(toGuest)) \o DataOf("STDIN", tx) \in Seq(Nat)
      BY <3>2, <3>3, ConcatProperties
    <3> QED
      BY <3>1, <3>2, <3>3, <3>4, <3>6, <3>7
  <2> HIDE DEF flow
  <2>7. CASE InputStill
    <3>1. Delivered' = Delivered /\ (grx' # "none" => hostToStdin' = << >>)
      BY <2>1, <2>2, <2>7 DEF InputStill, Delivered
    <3>2. DataOf("STDIN", toGuest' \o tx) = flow
      <4>1. CASE UNCHANGED toGuest
        BY <4>1 DEF flow
      <4>2. CASE Drops /\ Carried("STDIN", Head(toGuest)) = << >>
        BY <2>6, <4>2, ConcatEmptySeq
      <4> QED
        BY <2>7, <4>1, <4>2 DEF InputStill
    <3> QED
      BY <2>5, <3>1, <3>2
  <2>8. CASE InputRead
    <3>1. /\ appRead' = appRead \o inPipe /\ inPipe' = << >> /\ hostToStdin' = hostToStdin
          /\ grx' = grx /\ toGuest' = toGuest
      BY <2>8 DEF InputRead
    <3>2. appRead' \o << >> = appRead'
      BY <1>1, <3>1, ConcatEmptySeq
    <3>3. Delivered' = Delivered
      BY <3>1, <3>2 DEF Delivered
    <3> QED
      BY <2>2, <2>5, <3>1, <3>3 DEF flow
  <2>9. CASE InputLost
    <3>1. ~Flowing' /\ (grx' # "none" => hostToStdin' = << >>)
      BY <2>2, <2>9 DEF InputLost, Flowing
    <3> QED
      BY <2>5, <3>1
  <2>10. ASSUME NEW u \in Unit, InputTaken(u) PROVE InputInv'
    <3>1. /\ Drops /\ u = Head(toGuest) /\ hostToStdin = << >> /\ hostToStdin' = u.data
          /\ grx' = "none" /\ appRead' = appRead /\ inPipe' = inPipe
          /\ Carried("STDIN", u) = u.data
      BY <2>2, <2>10 DEF InputTaken, Carries, Carried
    <3>2. flow = u.data \o DataOf("STDIN", toGuest' \o tx)
          /\ DataOf("STDIN", toGuest' \o tx) \in Seq(Nat)
      BY <2>6, <3>1
    <3>3. Delivered = appRead \o inPipe
      BY <1>1, <3>1, ConcatEmptySeq DEF Delivered
    <3>4. u.data \in Seq(Nat)
      BY CarriedTyped, <3>1
    <3> DEFINE p == appRead \o inPipe
               d == u.data
               f == DataOf("STDIN", toGuest' \o tx)
    <3>5. p \in Seq(Nat) /\ d \in Seq(Nat) /\ f \in Seq(Nat)
      BY <1>1, <3>2, <3>4
    <3> HIDE DEF p, d, f
    <3>6. (p \o d) \o f = p \o (d \o f)
      <4>1. Associates(p, d, f)
        BY ONLY <3>5, DataAssociates
      <4> QED
        BY ONLY <4>1 DEF Associates
    <3>7. ((appRead \o inPipe) \o u.data) \o DataOf("STDIN", toGuest' \o tx)
            = (appRead \o inPipe) \o (u.data \o DataOf("STDIN", toGuest' \o tx))
      BY <3>6 DEF p, d, f
    <3>8. Delivered' = (appRead \o inPipe) \o u.data
      BY <3>1 DEF Delivered
    <3> QED
      BY <2>5, <3>1, <3>2, <3>3, <3>7, <3>8
  <2>11. ASSUME NEW n \in 1 .. Len(hostToStdin), InputPiped(n) PROVE InputInv'
    <3> DEFINE a == SubSeq(hostToStdin, 1, n)
               b == SubSeq(hostToStdin, n + 1, Len(hostToStdin))
    <3>1. /\ inPipe' = inPipe \o a /\ hostToStdin' = b /\ appRead' = appRead
          /\ grx' = (IF n = Len(hostToStdin) THEN "length" ELSE grx) /\ toGuest' = toGuest
      BY <2>11 DEF InputPiped
    <3>2. a \in Seq(Nat) /\ b \in Seq(Nat) /\ a \o b = hostToStdin
      BY <1>1, G!Cut, GuestBounds
    <3>3. hostToStdin # << >> /\ Len(hostToStdin) \in Nat
      <4>1. Len(hostToStdin) \in Nat /\ Len(<< >>) = 0
        BY <1>1, LenProperties, EmptySeq
      <4> QED
        BY <4>1
    <3>4. n = Len(hostToStdin) => b = << >>
      BY <3>3, SubSeqEmpty
    <3> HIDE DEF a, b
    <3>5. grx' # "none" => hostToStdin' = << >>
      BY <2>2, <3>1, <3>3, <3>4
    <3> DEFINE p == appRead \o inPipe
    <3>6. /\ appRead \in Seq(Nat) /\ inPipe \in Seq(Nat) /\ p \in Seq(Nat)
          /\ a \in Seq(Nat) /\ b \in Seq(Nat)
      BY <1>1, <3>2
    <3>7. (appRead \o inPipe) \o a = appRead \o (inPipe \o a)
      <4>1. Associates(appRead, inPipe, a)
        BY ONLY <3>6, DataAssociates
      <4> QED
        BY ONLY <4>1 DEF Associates
    <3> HIDE DEF p
    <3>8. (p \o a) \o b = p \o (a \o b)
      <4>1. Associates(p, a, b)
        BY ONLY <3>6, DataAssociates
      <4> QED
        BY ONLY <4>1 DEF Associates
    <3>9. ((appRead \o inPipe) \o a) \o b = (appRead \o inPipe) \o (a \o b)
      BY <3>8 DEF p
    <3>10. Delivered' = Delivered
      BY <3>1, <3>2, <3>7, <3>9 DEF Delivered
    <3> QED
      BY <2>5, <3>1, <3>5, <3>10 DEF flow
  <2> QED
    BY <1>1, <1>3, <2>7, <2>8, <2>9, <2>10, <2>11, InputKinds
<1> QED
  BY <1>2, <1>3

-----------------------------------------------------------------------------
(* The invariant of the session.                                           *)

SessionInv == /\ HInv /\ GInv /\ HostFirst /\ GuestFirst /\ StdinPacket
              /\ PipesInv /\ InputInv

(* A step of the session is one of the host's kinds, or the guest's.       *)
LEMMA SessionSteps ==
  ASSUME MaxAttach = 1, SessionInv, [Next]_vars
  PROVE  \/ HostKinds /\ UNCHANGED guestVars /\ HInv'
         \/ GuestStepOf
<1>1. HInv /\ HostFirst
  BY DEF SessionInv
<1>2. CASE HostStepOf
  BY <1>1, <1>2, KindsOfHost, HostKeepsHost DEF HostStepOf
<1>3. CASE UNCHANGED vars
  <2>1. Rests /\ UNCHANGED guestVars
    BY <1>3 DEF vars, hostVars, Rests, HostData, queues, local
  <2> QED
    BY <1>1, <1>3, <2>1, HostKeepsHost DEF HostKinds
<1>4. CASE GuestStepOf
  BY <1>4
<1> QED
  BY <1>2, <1>3, <1>4 DEF Next, HostStepOf, GuestStepOf

(* Both ends start as they do at an open console.                          *)
LEMMA SessionInit == ASSUME Init PROVE SessionInv /\ Understood
<1>1. HostInit /\ GuestInitial /\ toGuest = << >> /\ toHost = << >>
  BY DEF Init
<1>2. Len(<< >>) = 0 /\ PipeCap \in Nat
  BY EmptySeq
<1>3. HInv
  <2>1. H!Init
    BY <1>1 DEF HostInit, H!Init, H!HostInit, Sources, H!Sources
  <2>2. H!HostInv
    BY <2>1, H!HostInvInit, HostBounds
  <2>3. H!FirstSession
    BY <1>1 DEF HostInit, H!FirstSession, Sources, H!Sources
  <2> QED
    BY <2>2, <2>3 DEF HInv
<1>4. GInv
  <2>1. G!Init
    BY <1>1 DEF GuestInitial, G!Init, G!GuestInitial, Streams, G!Streams
  <2>2. G!GuestInv
    BY <2>1, G!InitInv, GuestBounds
  <2> QED
    BY <2>2 DEF G!GuestInv, GInv, G!Typed
<1>5. ToHost = << >>
  <2>1. << >> \o << >> = << >>
    BY EmptySeq, ConcatEmptySeq
  <2> QED
    BY <1>1, <2>1 DEF ToHost, GuestInitial
<1>6. HostFirst
  BY <1>1, <1>2 DEF HostInit, GuestInitial, HostFirst, Fresh, Waits
<1>7. GuestFirst
  BY <1>1, <1>2, <1>5 DEF HostInit, GuestInitial, GuestFirst, Waits, Bare
<1>8. StdinPacket
  BY <1>1 DEF HostInit, StdinPacket
<1>9. PipesInv
  BY <1>1, <1>2, <1>5 DEF GuestInitial, PipesInv
<1>10. InputInv
  BY <1>1 DEF HostInit, GuestInitial, InputInv
<1>11. Understood
  BY <1>1, <1>2 DEF HostInit, GuestInitial, Understood, Orderly
<1> QED
  BY <1>3, <1>4, <1>6, <1>7, <1>8, <1>9, <1>10, <1>11 DEF SessionInv

(* No packet grows on its way, and none leaves a pipe by the host's doing. *)
LEMMA HostKeepsPipes ==
  ASSUME GInv, PipesInv, HostKinds, UNCHANGED guestVars
  PROVE  PipesInv'
<1> USE DEF guestVars, loopVars, appVars
<1>1. ToHost \in Seq(Unit)
  BY GuestTypes DEF GInv
<1>2. CASE UNCHANGED toHost
  BY <1>2 DEF PipesInv, ToHost
<1>3. CASE Taken
  <2>1. ToHost # << >> /\ ToHost' = Tail(ToHost)
    BY <1>3, SentTail
  <2>2. \A i \in 1 .. Len(ToHost') : ToHost'[i] = ToHost[i + 1] /\ i + 1 \in 1 .. Len(ToHost)
    BY <1>1, <2>1, HeadIs
  <2> QED
    BY <2>2 DEF PipesInv
<1> QED
  BY <1>2, <1>3, HostChannels

(* Every step keeps the invariant of a session.                            *)
LEMMA SessionStep ==
  ASSUME MaxAttach = 1, SessionInv, [Next]_vars
  PROVE  SessionInv'
<1>1. /\ HInv /\ GInv /\ HostFirst /\ GuestFirst /\ StdinPacket /\ PipesInv /\ InputInv
  BY DEF SessionInv
<1>2. CASE HostKinds /\ UNCHANGED guestVars /\ HInv'
  <2>1. GInv'
    BY <1>1, <1>2, HostChannels, HostKeepsGuest
  <2>2. HostFirst' /\ GuestFirst' /\ StdinPacket'
    BY <1>1, <1>2, HostKeepsHostFirst, HostKeepsGuestFirst, HostKeepsStdinPacket
  <2>3. PipesInv' /\ InputInv'
    BY <1>1, <1>2, HostKeepsPipes, HostKeepsInput
  <2> QED
    BY <1>2, <2>1, <2>2, <2>3 DEF SessionInv
<1>3. CASE GuestStepOf
  <2>1. GInv' /\ G!Kinds /\ G!PhaseStep /\ UNCHANGED hostVars
    BY <1>1, <1>3, GuestKeepsGuest DEF GuestStepOf
  <2>2. PipesInv'
    BY <1>1, <1>3, <2>1, GuestKeepsPipes
  <2>3. HInv'
    BY <1>1, <2>1, <2>2, GuestKeepsHost
  <2>4. HostFirst' /\ GuestFirst'
    BY <1>1, <1>3, <2>1, GuestKeepsHostFirst, GuestKeepsGuestFirst
  <2>5. StdinPacket'
    BY <1>1, <2>1 DEF hostVars, StdinPacket
  <2>6. InputInv'
    BY <1>1, <1>3, <2>1, <2>3, GuestKeepsInput
  <2> QED
    BY <2>1, <2>2, <2>3, <2>4, <2>5, <2>6 DEF SessionInv
<1> QED
  BY <1>2, <1>3, SessionSteps

(* It holds throughout.                                                    *)
LEMMA SessionInvariant == ASSUME MaxAttach = 1 PROVE Spec => []SessionInv
<1>1. Init => SessionInv
  BY SessionInit
<1>2. SessionInv /\ [Next]_vars => SessionInv'
  BY SessionStep
<1> QED
  BY <1>1, <1>2, PTL DEF Spec

(* What the user types reaches the application once and in order: until it *)
(* is gone or has closed its stdin, each byte that do_console_rpc_stdin_read *)
(* has read is in one of the queues, pipes and devices between, whatever the *)
(* guest does with a tty and whichever step fails.                         *)
THEOREM InputReachesApplication ==
  ASSUME MaxAttach = 1 PROVE Spec => []InputInOnePlace
<1>1. SessionInv => InputInOnePlace
  BY DEF SessionInv, InputInv, InputInOnePlace
<1> QED
  BY <1>1, SessionInvariant, PTL

(* The two ends agree on where the handshake is.  The host is in SYNCING or *)
(* RUNNING only with a guest that is too, and until it has reported an exit *)
(* eventloop meets no byte it cannot interpret: no packet where it expects a *)
(* byte of the handshake, no wait byte where it expects a packet.          *)
THEOREM EndsAgree ==
  ASSUME MaxAttach = 1, RunFails = FALSE, HostHangs = FALSE
  PROVE  Spec => []HandshakeAgrees
<1> DEFINE Inv == SessionInv /\ Understood
<1>1. Init => Inv
  BY SessionInit
<1>2. Inv /\ [Next]_vars => Inv'
  <2> SUFFICES ASSUME SessionInv, Understood, [Next]_vars
               PROVE  SessionInv' /\ Understood'
    OBVIOUS
  <2>1. HInv /\ GInv /\ HostFirst /\ GuestFirst /\ StdinPacket
    BY DEF SessionInv
  <2>2. Understood'
    BY <2>1, SessionSteps, HostKeepsUnderstood, GuestKeepsUnderstood
  <2> QED
    BY <2>2, SessionStep
<1>3. Inv => HandshakeAgrees
  <2> SUFFICES ASSUME SessionInv, Understood PROVE HandshakeAgrees
    OBVIOUS
  <2>1. /\ HostFirst /\ GuestFirst /\ (gstate = "RUNNING" => app # "none")
        /\ gstate \in {"BOOT", "WAITING", "SYNCING", "RUNNING", "OFF"}
    BY GuestTypes DEF SessionInv, GInv, G!Handshaking
  <2>2. state \in {"WAITING", "SYNCING"} => app = "none" /\ exited = << >>
    BY <2>1 DEF HostFirst, Fresh
  <2>3. state = "RUNNING" => exited = << >>
    BY <2>1 DEF HostFirst
  <2>4. exited = << >> => gstate # "OFF"
    BY DEF Understood
  <2> QED
    BY <2>1, <2>2, <2>3, <2>4 DEF GuestFirst, HandshakeAgrees
<1> HIDE DEF Inv
<1> QED
  BY <1>1, <1>2, <1>3, PTL DEF Spec

-----------------------------------------------------------------------------
(* The output, on pipes.                                                   *)

Backlog == SubSeq(localToStdout, localToStdoutOffset + 1, localToStdoutLength)

(* A longer queue has a longer backlog.                                    *)
LEMMA LongerBacklog ==
  ASSUME NEW q \in Seq(Nat), NEW d \in Seq(Nat), NEW o \in 0 .. Len(q)
  PROVE  /\ SubSeq(q, o + 1, Len(q)) \in Seq(Nat)
         /\ SubSeq(q \o d, o + 1, Len(q \o d)) = SubSeq(q, o + 1, Len(q)) \o d
<1> DEFINE s == SubSeq(q, o + 1, Len(q))
           t == SubSeq(q \o d, o + 1, Len(q \o d))
<1>1. /\ Len(q) \in Nat /\ Len(d) \in Nat /\ q \o d \in Seq(Nat)
      /\ Len(q \o d) = Len(q) + Len(d)
      /\ \A i \in 1 .. Len(q) : (q \o d)[i] = q[i]
      /\ \A i \in 1 .. Len(d) : (q \o d)[Len(q) + i] = d[i]
  BY ConcatIs
<1>2. /\ s \in Seq(Nat)
      /\ Len(s) = IF o + 1 <= Len(q) THEN Len(q) - (o + 1) + 1 ELSE 0
      /\ \A i \in 1 .. Len(q) - (o + 1) + 1 : s[i] = q[(o + 1) + i - 1]
  <2>1. \A i \in o + 1 .. Len(q) : q[i] \in Nat
    BY <1>1, ElementOfSeq
  <2> QED
    BY <1>1, <2>1, SubSeqProperties
<1>3. /\ t \in Seq(Nat)
      /\ Len(t) = IF o + 1 <= Len(q \o d) THEN Len(q \o d) - (o + 1) + 1 ELSE 0
      /\ \A i \in 1 .. Len(q \o d) - (o + 1) + 1 : t[i] = (q \o d)[(o + 1) + i - 1]
  <2>1. \A i \in o + 1 .. Len(q \o d) : (q \o d)[i] \in Nat
    <3>1. \A i \in 1 .. Len(q \o d) : (q \o d)[i] \in Nat
      BY <1>1, ElementOfSeq
    <3> QED
      BY <1>1, <3>1
  <2>2. o + 1 \in Int /\ Len(q \o d) \in Int
    BY <1>1
  <2> QED
    BY ONLY <2>1, <2>2, SubSeqProperties
<1> HIDE DEF s, t
<1>4. Len(s) = Len(q) - o /\ Len(t) = (Len(q) - o) + Len(d)
  BY <1>1, <1>2, <1>3
<1>5. /\ s \o d \in Seq(Nat) /\ Len(s \o d) = Len(s) + Len(d)
      /\ \A i \in 1 .. Len(s) : (s \o d)[i] = s[i]
      /\ \A i \in 1 .. Len(d) : (s \o d)[Len(s) + i] = d[i]
  <2>1. s \in Seq(Nat) /\ d \in Seq(Nat)
    BY <1>2
  <2> QED
    BY ONLY <2>1, ConcatIs
<1>6. ASSUME NEW i \in 1 .. Len(t) PROVE t[i] = (s \o d)[i]
  <2>1. t[i] = (q \o d)[o + i]
    <3>1. i \in 1 .. Len(q \o d) - (o + 1) + 1 /\ (o + 1) + i - 1 = o + i
      BY <1>1, <1>4
    <3>2. t[i] = (q \o d)[(o + 1) + i - 1]
      BY <1>3, <3>1
    <3> QED
      BY <3>1, <3>2
  <2>2. CASE i <= Len(q) - o
    <3>1. o + i \in 1 .. Len(q) /\ i \in 1 .. Len(s)
      BY <1>1, <1>4, <2>2
    <3>2. s[i] = q[o + i]
      <4>1. i \in 1 .. Len(q) - (o + 1) + 1 /\ (o + 1) + i - 1 = o + i
        BY <1>1, <1>4, <3>1
      <4>2. s[i] = q[(o + 1) + i - 1]
        BY <1>2, <4>1
      <4> QED
        BY <4>1, <4>2
    <3>3. (q \o d)[o + i] = q[o + i]
      BY ONLY <1>1, <3>1
    <3>4. (s \o d)[i] = s[i]
      BY ONLY <1>5, <3>1
    <3> QED
      BY ONLY <2>1, <3>2, <3>3, <3>4
  <2>3. CASE ~(i <= Len(q) - o)
    <3>1. PICK j \in 1 .. Len(d) : j = i - (Len(q) - o)
      <4>1. /\ Len(q) \in Nat /\ Len(d) \in Nat /\ o \in 0 .. Len(q)
            /\ i \in 1 .. (Len(q) - o) + Len(d)
        BY <1>1, <1>4
      <4>2. i - (Len(q) - o) \in 1 .. Len(d)
        BY ONLY <2>3, <4>1
      <4> QED
        BY ONLY <4>2
    <3>2. o + i = Len(q) + j /\ i = Len(s) + j
      BY <1>1, <1>4, <3>1
    <3>3. (q \o d)[Len(q) + j] = d[j] /\ (s \o d)[Len(s) + j] = d[j]
      BY <1>1, <1>5
    <3> QED
      BY <2>1, <3>2, <3>3
  <2> QED
    BY <2>2, <2>3
<1>7. t = s \o d
  <2> DEFINE v == s \o d
  <2>1. t \in Seq(Nat) /\ v \in Seq(Nat) /\ Len(t) = Len(v)
    BY ONLY <1>3, <1>4, <1>5
  <2>2. \A i \in 1 .. Len(t) : t[i] = v[i]
    BY ONLY <1>6
  <2> HIDE DEF v
  <2>3. t = v
    BY ONLY <2>1, <2>2, SeqEqual
  <2> QED
    BY ONLY <2>3 DEF v
<1> QED
  BY <1>2, <1>7 DEF s, t

(* What leaves a queue is the first of its backlog.                        *)
LEMMA ShorterBacklog ==
  ASSUME NEW q \in Seq(Nat), NEW o \in 0 .. Len(q), NEW n \in 0 .. Len(q) - o
  PROVE  /\ SubSeq(q, o + 1, o + n) \in Seq(Nat)
         /\ SubSeq(q, (o + n) + 1, Len(q)) \in Seq(Nat)
         /\ SubSeq(q, o + 1, o + n) \o SubSeq(q, (o + n) + 1, Len(q)) = SubSeq(q, o + 1, Len(q))
<1>1. Len(q) \in Nat /\ \A i \in 1 .. Len(q) : q[i] \in Nat
  BY LenProperties, ElementOfSeq
<1>2. SubSeq(q, o + 1, o + n) \in Seq(Nat)
  BY <1>1, SubSeqProperties
<1>3. SubSeq(q, (o + n) + 1, Len(q)) \in Seq(Nat)
  BY <1>1, SubSeqProperties
<1>4. o + 1 \in 1 .. Len(q) + 1 /\ o + n \in (o + 1) - 1 .. Len(q) /\ Len(q) \in o + n .. Len(q)
  BY <1>1
<1> QED
  BY <1>2, <1>3, <1>4, ConcatAdjacentSubSeq

(* The types of all of it.                                                 *)
LEMMA OutputTyped ==
  ASSUME HInv, GInv
  PROVE  /\ stdoutWritten \in Seq(Nat) /\ localToStdout \in Seq(Nat) /\ localToStderr \in Seq(Nat)
         /\ localToStdoutOffset \in 0 .. Len(localToStdout) /\ Backlog \in Seq(Nat)
         /\ stdoutWritten \o Backlog \in Seq(Nat)
         /\ ToHost \in Seq(Unit) /\ toHost \in Seq(Unit) /\ gtx \in Seq(Unit)
         /\ DataOf("STDOUT", ToHost) \in Seq(Nat) /\ DataOf("STDERR", ToHost) \in Seq(Nat)
         /\ outPipe \in Seq(Nat) /\ errPipe \in Seq(Nat)
         /\ OutFlow \in Seq(Nat) /\ ErrFlow \in Seq(Nat)
         /\ outWritten \in Nat /\ errWritten \in Nat
<1>1. /\ stdoutWritten \in Seq(Nat) /\ localToStdout \in Seq(Nat) /\ localToStderr \in Seq(Nat)
      /\ localToStdoutOffset \in 0 .. Len(localToStdout)
      /\ ToHost \in Seq(Unit) /\ toHost \in Seq(Unit) /\ gtx \in Seq(Unit)
      /\ outPipe \in Seq(Nat) /\ errPipe \in Seq(Nat)
      /\ outWritten \in Nat /\ errWritten \in Nat
  BY HostTypes, GuestTypes DEF HInv, H!HostInv, GInv
<1>2. DataOf("STDOUT", ToHost) \in Seq(Nat) /\ DataOf("STDERR", ToHost) \in Seq(Nat)
  BY <1>1, DataOfConcat
<1>3. Backlog \in Seq(Nat)
  <2>1. << >> \in Seq(Nat)
    BY EmptySeq
  <2> QED
    BY <1>1, <2>1, LongerBacklog DEF Backlog, localToStdoutLength
<1>4. stdoutWritten \o Backlog \in Seq(Nat)
  BY ONLY <1>1, <1>3, ConcatProperties
<1>5. OutFlow \in Seq(Nat) /\ ErrFlow \in Seq(Nat)
  BY <1>1, <1>2, ConcatProperties DEF OutFlow, ErrFlow
<1> QED
  BY <1>1, <1>2, <1>3, <1>4, <1>5

-----------------------------------------------------------------------------
(* A stream flows: what is on its way stays, or the application adds the   *)
(* next byte behind it.                                                    *)
Flows(flow, next, written, later) ==
  \/ next = flow /\ later = written
  \/ next = Append(flow, written + 1) /\ later = written + 1

(* A packet behind an empty buffer carries its payload, once.              *)
LEMMA SentCarries ==
  ASSUME GInv, NEW p, NEW d, GuestSends(p, d), gtx = << >>
  PROVE  /\ DataOf("STDOUT", ToHost')
              = IF p = "STDOUT" THEN DataOf("STDOUT", ToHost) \o d ELSE DataOf("STDOUT", ToHost)
         /\ DataOf("STDERR", ToHost')
              = IF p = "STDERR" THEN DataOf("STDERR", ToHost) \o d ELSE DataOf("STDERR", ToHost)
<1>1. toHost \in Seq(Unit) /\ Sendable(p, d)
  BY GuestTypes DEF GInv, GuestSends
<1>2. ToHost = toHost
  <2>1. toHost \o << >> = toHost
    BY <1>1, ConcatEmptySeq
  <2> QED
    BY <2>1 DEF ToHost
<1>3. ToHost' = toHost \o Packet(p, d)
  BY DEF GuestSends
<1>4. DataOf("STDOUT", toHost \o Packet(p, d))
        = IF p = "STDOUT" THEN DataOf("STDOUT", toHost) \o d ELSE DataOf("STDOUT", toHost)
  BY ONLY <1>1, DataOfPacket
<1>5. DataOf("STDERR", toHost \o Packet(p, d))
        = IF p = "STDERR" THEN DataOf("STDERR", toHost) \o d ELSE DataOf("STDERR", toHost)
  BY ONLY <1>1, DataOfPacket
<1> QED
  BY <1>2, <1>3, <1>4, <1>5

(* Bytes that move from a pipe into a packet stay in the stream.           *)
LEMMA PipeToPacket ==
  ASSUME NEW f \in Seq(Nat), NEW q \in Seq(Nat), NEW n \in 1 .. Len(q)
  PROVE  (f \o SubSeq(q, 1, n)) \o SubSeq(q, n + 1, Len(q)) = f \o q
<1> DEFINE a == SubSeq(q, 1, n)
           b == SubSeq(q, n + 1, Len(q))
<1>1. a \in Seq(Nat) /\ b \in Seq(Nat) /\ a \o b = q
  BY G!Cut, GuestBounds
<1> HIDE DEF a, b
<1>2. (f \o a) \o b = f \o (a \o b)
  <2>1. Associates(f, a, b)
    BY <1>1, DataAssociates
  <2> QED
    BY ONLY <2>1 DEF Associates
<1> QED
  BY <1>1, <1>2 DEF a, b

(* The guest sends a part of stdout.                                       *)
LEMMA OutSent ==
  ASSUME GInv, GInv', NEW n \in 1 .. Len(outPipe), G!SendsOut(n)
  PROVE  UNCHANGED << OutFlow, ErrFlow, outWritten, errWritten >>
<1>1. /\ gtx = << >> /\ outPipe' = SubSeq(outPipe, n + 1, Len(outPipe))
      /\ UNCHANGED << errPipe, outWritten, errWritten >>
      /\ GuestSends("STDOUT", SubSeq(outPipe, 1, n))
  BY PacketSent DEF G!SendsOut
<1>2. /\ DataOf("STDOUT", ToHost') = DataOf("STDOUT", ToHost) \o SubSeq(outPipe, 1, n)
      /\ DataOf("STDERR", ToHost') = DataOf("STDERR", ToHost)
  BY <1>1, SentCarries
<1>3. /\ DataOf("STDOUT", ToHost) \in Seq(Nat) /\ DataOf("STDERR", ToHost) \in Seq(Nat)
      /\ outPipe \in Seq(Nat)
  <2>1. ToHost \in Seq(Unit) /\ outPipe \in Seq(Nat)
    BY GuestTypes DEF GInv
  <2> QED
    BY <2>1, DataOfConcat
<1>5. (DataOf("STDOUT", ToHost) \o SubSeq(outPipe, 1, n)) \o SubSeq(outPipe, n + 1, Len(outPipe))
        = DataOf("STDOUT", ToHost) \o outPipe
  BY <1>3, PipeToPacket
<1> QED
  BY <1>1, <1>2, <1>5 DEF OutFlow, ErrFlow

(* The guest sends a part of stderr.                                       *)
LEMMA ErrSent ==
  ASSUME GInv, GInv', NEW n \in 1 .. Len(errPipe), G!SendsErr(n)
  PROVE  UNCHANGED << OutFlow, ErrFlow, outWritten, errWritten >>
<1>1. /\ gtx = << >> /\ errPipe' = SubSeq(errPipe, n + 1, Len(errPipe))
      /\ UNCHANGED << outPipe, outWritten, errWritten >>
      /\ GuestSends("STDERR", SubSeq(errPipe, 1, n))
  BY PacketSent DEF G!SendsErr
<1>2. /\ DataOf("STDERR", ToHost') = DataOf("STDERR", ToHost) \o SubSeq(errPipe, 1, n)
      /\ DataOf("STDOUT", ToHost') = DataOf("STDOUT", ToHost)
  BY <1>1, SentCarries
<1>3. /\ DataOf("STDOUT", ToHost) \in Seq(Nat) /\ DataOf("STDERR", ToHost) \in Seq(Nat)
      /\ errPipe \in Seq(Nat)
  <2>1. ToHost \in Seq(Unit) /\ errPipe \in Seq(Nat)
    BY GuestTypes DEF GInv
  <2> QED
    BY <2>1, DataOfConcat
<1>5. (DataOf("STDERR", ToHost) \o SubSeq(errPipe, 1, n)) \o SubSeq(errPipe, n + 1, Len(errPipe))
        = DataOf("STDERR", ToHost) \o errPipe
  BY <1>3, PipeToPacket
<1> QED
  BY <1>1, <1>2, <1>5 DEF OutFlow, ErrFlow

(* What is written to a pipe comes behind what is on its way.              *)
LEMMA PipeGrows ==
  ASSUME NEW f \in Seq(Nat), NEW q \in Seq(Nat), NEW x \in Nat
  PROVE  f \o Append(q, x) = Append(f \o q, x)
BY ConcatAppend

(* Whatever else the guest sends carries no output.                        *)
LEMMA ElseSent ==
  ASSUME GInv, GInv', G!Kinds, GuestNext, ~wantTty,
         ~\E n \in 1 .. Len(outPipe) : G!SendsOut(n),
         ~\E n \in 1 .. Len(errPipe) : G!SendsErr(n),
         NEW proc \in {"STDOUT", "STDERR"}
  PROVE  DataOf(proc, ToHost') = DataOf(proc, ToHost)
<1>1. ToHost \in Seq(Unit)
  BY GuestTypes DEF GInv
<1>3. CASE ToHost' = ToHost
  BY <1>3
<1>4. ASSUME NEW u \in {Noise, Sync}, ToHost' = Append(ToHost, u)
      PROVE  DataOf(proc, ToHost') = DataOf(proc, ToHost)
  <2>1. u \in Unit /\ u.part = "byte"
    BY BytesTyped DEF Noise, Sync, Byte
  <2> QED
    BY <1>1, <1>4, <2>1, DataOfByte
<1>5. ASSUME NEW status \in Nat, G!SendsExit(status), GuestSends("EXIT", << status >>)
      PROVE  DataOf(proc, ToHost') = DataOf(proc, ToHost)
  <2>1. gtx = << >>
    BY <1>5 DEF G!SendsExit
  <2>2. DataOf(proc, ToHost') = DataOf(proc, ToHost)
    BY <1>5, <2>1, SentCarries
  <2> QED
    BY <2>2
<1> QED
  BY <1>3, <1>4, <1>5, SentByGuest

(* A step of the guest keeps both streams, or adds a byte to one of them.  *)
LEMMA GuestFlows ==
  ASSUME GInv, GInv', G!Kinds, GuestStepOf, ~wantTty
  PROVE  /\ Flows(OutFlow, OutFlow', outWritten, outWritten')
         /\ Flows(ErrFlow, ErrFlow', errWritten, errWritten')
<1>1. CASE \E n \in 1 .. Len(outPipe) : G!SendsOut(n)
  BY <1>1, OutSent DEF Flows
<1>2. CASE \E n \in 1 .. Len(errPipe) : G!SendsErr(n)
  BY <1>2, ErrSent DEF Flows
<1>3. CASE /\ ~\E n \in 1 .. Len(outPipe) : G!SendsOut(n)
           /\ ~\E n \in 1 .. Len(errPipe) : G!SendsErr(n)
  <2>1. /\ DataOf("STDOUT", ToHost') = DataOf("STDOUT", ToHost)
        /\ DataOf("STDERR", ToHost') = DataOf("STDERR", ToHost)
    BY <1>3, ElseSent DEF GuestStepOf
  <2>2. G!PipeStep
    <3>1. G!Typed /\ G!Typed' /\ G!Handshaking /\ G!Endings /\ [G!Next]_(G!vars)
      BY GuestIsOpen DEF GInv
    <3> QED
      BY <1>3, <3>1, G!Pipes, GuestBounds
  <2>3. /\ ToHost \in Seq(Unit) /\ outPipe \in Seq(Nat) /\ errPipe \in Seq(Nat)
        /\ outWritten + 1 \in Nat /\ errWritten + 1 \in Nat
    BY GuestTypes DEF GInv
  <2>4. DataOf("STDOUT", ToHost) \in Seq(Nat) /\ DataOf("STDERR", ToHost) \in Seq(Nat)
    BY <2>3, DataOfConcat
  <2>5. CASE UNCHANGED << outPipe, errPipe, outWritten, errWritten >>
    <3>1. outPipe' = outPipe /\ errPipe' = errPipe /\ outWritten' = outWritten /\ errWritten' = errWritten
      BY <2>5
    <3> QED
      BY ONLY <2>1, <3>1 DEF Flows, OutFlow, ErrFlow
  <2>6. CASE /\ outWritten' = outWritten + 1 /\ outPipe' = Append(outPipe, outWritten + 1)
             /\ UNCHANGED << errPipe, errWritten >>
    <3>1. DataOf("STDOUT", ToHost) \o Append(outPipe, outWritten + 1)
            = Append(DataOf("STDOUT", ToHost) \o outPipe, outWritten + 1)
      BY ONLY <2>3, <2>4, PipeGrows
    <3> QED
      BY ONLY <2>1, <2>6, <3>1 DEF Flows, OutFlow, ErrFlow
  <2>7. CASE /\ errWritten' = errWritten + 1 /\ errPipe' = Append(errPipe, errWritten + 1)
             /\ UNCHANGED << outPipe, outWritten >>
    <3>1. DataOf("STDERR", ToHost) \o Append(errPipe, errWritten + 1)
            = Append(DataOf("STDERR", ToHost) \o errPipe, errWritten + 1)
      BY ONLY <2>3, <2>4, PipeGrows
    <3> QED
      BY ONLY <2>1, <2>7, <3>1 DEF Flows, OutFlow, ErrFlow
  <2> QED
    BY <2>2, <2>5, <2>6, <2>7 DEF G!PipeStep
<1> QED
  BY <1>1, <1>2, <1>3

-----------------------------------------------------------------------------
Reached == stdoutWritten \o Backlog

(* What the host takes off the channel was the first of what it carries.   *)
LEMMA HostTakes ==
  ASSUME GInv, Taken, UNCHANGED guestVars, NEW proc
  PROVE  /\ Head(toHost) \in Unit /\ Carried(proc, Head(toHost)) \in Seq(Nat)
         /\ DataOf(proc, ToHost') \in Seq(Nat)
         /\ DataOf(proc, ToHost) = Carried(proc, Head(toHost)) \o DataOf(proc, ToHost')
<1>1. ToHost \in Seq(Unit) /\ ToHost # << >> /\ Head(toHost) = Head(ToHost) /\ ToHost' = Tail(ToHost)
  BY GuestTypes, SentTail DEF GInv, guestVars, loopVars
<1> DEFINE v == ToHost
<1>2. v \in Seq(Unit) /\ v # << >>
  BY <1>1
<1> HIDE DEF v
<1>3. Head(v) \in Unit /\ Tail(v) \in Seq(Unit)
  BY <1>2, HeadTailProperties
<1>4. Carried(proc, Head(v)) \in Seq(Nat)
  BY <1>3, CarriedTyped
<1>5. DataOf(proc, Tail(v)) \in Seq(Nat)
  BY <1>3, DataOfConcat
<1>6. DataOf(proc, v) = Carried(proc, Head(v)) \o DataOf(proc, Tail(v))
  BY ONLY <1>2, DataOfHead
<1> QED
  BY <1>1, <1>3, <1>4, <1>5, <1>6 DEF v

(* An empty payload leaves the streams as they are.                        *)
LEMMA FlowsStay ==
  ASSUME GInv, Taken, UNCHANGED guestVars,
         Carried("STDOUT", Head(toHost)) = << >>, Carried("STDERR", Head(toHost)) = << >>
  PROVE  OutFlow' = OutFlow /\ ErrFlow' = ErrFlow
<1>1. /\ DataOf("STDOUT", ToHost') \in Seq(Nat)
      /\ DataOf("STDOUT", ToHost) = << >> \o DataOf("STDOUT", ToHost')
  BY HostTakes
<1>2. /\ DataOf("STDERR", ToHost') \in Seq(Nat)
      /\ DataOf("STDERR", ToHost) = << >> \o DataOf("STDERR", ToHost')
  BY HostTakes
<1>3. /\ DataOf("STDOUT", ToHost) = DataOf("STDOUT", ToHost')
      /\ DataOf("STDERR", ToHost) = DataOf("STDERR", ToHost')
  BY <1>1, <1>2, ConcatEmptySeq
<1> QED
  BY <1>3 DEF OutFlow, ErrFlow, guestVars, appVars

(* A packet is queued behind what is queued already.                       *)
LEMMA HostQueues ==
  ASSUME HInv, GInv, NEW u \in Unit, TakesOutput(u), UNCHANGED guestVars
  PROVE  /\ Reached' \o OutFlow' = Reached \o OutFlow
         /\ localToStderr' \o ErrFlow' = localToStderr \o ErrFlow
<1> DEFINE c == IF u.proc = "STDOUT" THEN u.data ELSE << >>
           d == IF u.proc = "STDERR" THEN u.data ELSE << >>
           f == DataOf("STDOUT", ToHost')
           g == DataOf("STDERR", ToHost')
<1>1. /\ Taken /\ u = Head(toHost) /\ u.part = "body"
      /\ localToStdout' = localToStdout \o c /\ localToStderr' = localToStderr \o d
      /\ UNCHANGED << localToStdoutOffset, stdoutWritten, outPipe, errPipe >>
  BY DEF TakesOutput, local, guestVars, appVars
<1>2. Carried("STDOUT", u) = c /\ Carried("STDERR", u) = d
  BY <1>1 DEF Carried
<1>3. /\ c \in Seq(Nat) /\ f \in Seq(Nat) /\ DataOf("STDOUT", ToHost) = c \o f
  BY <1>1, <1>2, HostTakes
<1>4. /\ d \in Seq(Nat) /\ g \in Seq(Nat) /\ DataOf("STDERR", ToHost) = d \o g
  BY <1>1, <1>2, HostTakes
<1> HIDE DEF c, d, f, g
<1>5. /\ stdoutWritten \in Seq(Nat) /\ localToStdout \in Seq(Nat) /\ localToStderr \in Seq(Nat)
      /\ localToStdoutOffset \in 0 .. Len(localToStdout) /\ Backlog \in Seq(Nat)
      /\ Reached \in Seq(Nat) /\ outPipe \in Seq(Nat) /\ errPipe \in Seq(Nat)
  BY OutputTyped DEF Reached
<1>6. Reached' = Reached \o c
  <2>1. Backlog' = Backlog \o c
    <3>1. SubSeq(localToStdout \o c, localToStdoutOffset + 1, Len(localToStdout \o c))
            = SubSeq(localToStdout, localToStdoutOffset + 1, Len(localToStdout)) \o c
      BY <1>3, <1>5, LongerBacklog
    <3> QED
      BY <1>1, <3>1 DEF Backlog, localToStdoutLength
  <2>2. (stdoutWritten \o Backlog) \o c = stdoutWritten \o (Backlog \o c)
    <3>1. stdoutWritten \in Seq(Nat) /\ Backlog \in Seq(Nat) /\ c \in Seq(Nat)
      BY <1>3, <1>5
    <3>2. Associates(stdoutWritten, Backlog, c)
      BY ONLY <3>1, DataAssociates
    <3> QED
      BY ONLY <3>2 DEF Associates
  <2> QED
    BY <1>1, <2>1, <2>2 DEF Reached
<1>7. Reached \o ((c \o f) \o outPipe) = (Reached \o c) \o (f \o outPipe)
  <2>1. c \in Seq(Nat) /\ f \in Seq(Nat) /\ outPipe \in Seq(Nat) /\ Reached \in Seq(Nat)
    BY <1>3, <1>5
  <2>2. f \o outPipe \in Seq(Nat)
    BY ONLY <2>1, ConcatProperties
  <2>3. Associates(c, f, outPipe)
    BY ONLY <2>1, DataAssociates
  <2>4. Associates(Reached, c, f \o outPipe)
    BY ONLY <2>1, <2>2, DataAssociates
  <2> QED
    BY ONLY <2>3, <2>4 DEF Associates
<1>8. localToStderr \o ((d \o g) \o errPipe) = (localToStderr \o d) \o (g \o errPipe)
  <2>1. d \in Seq(Nat) /\ g \in Seq(Nat) /\ errPipe \in Seq(Nat) /\ localToStderr \in Seq(Nat)
    BY <1>4, <1>5
  <2>2. g \o errPipe \in Seq(Nat)
    BY ONLY <2>1, ConcatProperties
  <2>3. Associates(d, g, errPipe)
    BY ONLY <2>1, DataAssociates
  <2>4. Associates(localToStderr, d, g \o errPipe)
    BY ONLY <2>1, <2>2, DataAssociates
  <2> QED
    BY ONLY <2>3, <2>4 DEF Associates
<1>9. /\ OutFlow = (c \o f) \o outPipe /\ OutFlow' = f \o outPipe
      /\ ErrFlow = (d \o g) \o errPipe /\ ErrFlow' = g \o errPipe
  BY <1>1, <1>3, <1>4 DEF OutFlow, ErrFlow, f, g
<1> QED
  BY <1>1, <1>6, <1>7, <1>8, <1>9

(* What is written out was first in the queue.                             *)
LEMMA HostDelivers ==
  ASSUME HInv, GInv, NEW n \in 0 .. Len(localToStdout) - localToStdoutOffset, Delivers(n)
  PROVE  /\ Reached' = Reached /\ Backlog' \in Seq(Nat)
         /\ stdoutWritten' = stdoutWritten
              \o SubSeq(localToStdout, localToStdoutOffset + 1, localToStdoutOffset + n)
         /\ SubSeq(localToStdout, localToStdoutOffset + 1, localToStdoutOffset + n) \in Seq(Nat)
<1> DEFINE q == localToStdout
           o == localToStdoutOffset
           a == SubSeq(q, o + 1, o + n)
           b == SubSeq(q, (o + n) + 1, Len(q))
<1>1. stdoutWritten \in Seq(Nat) /\ q \in Seq(Nat) /\ o \in 0 .. Len(q)
  BY OutputTyped
<1>2. a \in Seq(Nat) /\ b \in Seq(Nat) /\ a \o b = Backlog
  BY <1>1, ShorterBacklog DEF Backlog, localToStdoutLength
<1>3. stdoutWritten' = stdoutWritten \o a
  BY DEF Delivers
<1>4. Backlog' = b
  <2>1. CASE o + n = Len(q) /\ localToStdout' = << >> /\ localToStdoutOffset' = 0
    <3>1. Len(q) \in Nat
      BY <1>1, LenProperties
    <3>2. b = << >>
      <4>1. b = SubSeq(q, Len(q) + 1, Len(q))
        BY <2>1
      <4> QED
        BY <1>1, <3>1, <4>1, SubSeqEmpty
    <3>3. SubSeq(<< >>, 0 + 1, Len(<< >>)) = << >>
      <4>1. Len(<< >>) = 0
        OBVIOUS
      <4> QED
        BY <4>1, SubSeqEmpty
    <3> QED
      BY <2>1, <3>2, <3>3 DEF Backlog, localToStdoutLength
  <2>2. CASE localToStdoutOffset' = o + n /\ UNCHANGED localToStdout
    BY <2>2 DEF Backlog, localToStdoutLength
  <2> QED
    BY <2>1, <2>2 DEF Delivers
<1>5. (stdoutWritten \o a) \o b = stdoutWritten \o (a \o b)
  <2>1. stdoutWritten \in Seq(Nat) /\ a \in Seq(Nat) /\ b \in Seq(Nat)
    BY <1>1, <1>2
  <2> HIDE DEF q, o, a, b
  <2> QED
    BY ONLY <2>1, DataAssociative
<1> QED
  BY <1>2, <1>3, <1>4, <1>5 DEF Reached

(* Before the session runs there is no output.                             *)
LEMMA NoOutput ==
  ASSUME HInv, GInv, HostFirst, GuestFirst, state = "SYNCING"
  PROVE  /\ Reached \o OutFlow = Bytes(1, outWritten)
         /\ localToStderr \o ErrFlow = Bytes(1, errWritten)
<1>1. /\ app = "none" /\ stdoutWritten = << >>
      /\ localToStdout = << >> /\ localToStderr = << >> /\ localToStdoutOffset \in 0 .. Len(localToStdout)
  BY HostAwaits, OutputTyped DEF HostFirst, Fresh
<1>2. /\ Bare(ToHost) /\ outWritten = 0 /\ errWritten = 0 /\ outPipe = << >> /\ errPipe = << >>
  BY <1>1 DEF GuestFirst
<1>3. DataOf("STDOUT", ToHost) = << >> /\ DataOf("STDERR", ToHost) = << >>
  BY <1>2, OutputTyped, BareKept DEF Procs
<1>4. << >> \o << >> = << >> /\ Len(<< >>) = 0 /\ SubSeq(<< >>, 0 + 1, 0) = << >>
  BY SubSeqEmpty
<1>5. Backlog = << >>
  <2>1. localToStdoutOffset = 0
    BY <1>1, <1>4
  <2> QED
    BY <1>1, <1>4, <2>1 DEF Backlog, localToStdoutLength
<1>6. Bytes(1, 0) = << >>
  BY BytesEmpty
<1> QED
  BY <1>1, <1>2, <1>3, <1>4, <1>5, <1>6 DEF Reached, OutFlow, ErrFlow

(* A step of the host keeps the output in one place.                       *)
LEMMA HostKeepsOutput ==
  ASSUME TermFails = FALSE, HInv, GInv, HostFirst, GuestFirst, OutputInv, HostKinds,
         UNCHANGED guestVars
  PROVE  OutputInv'
<1> SUFFICES ASSUME ~wantTty, Connected'
             PROVE  /\ Reached' \o OutFlow' = Bytes(1, outWritten)
                    /\ localToStderr' \o ErrFlow' = Bytes(1, errWritten)
  BY DEF OutputInv, guestVars, loopVars, appVars, Reached, Backlog
<1>1. Connected => /\ Reached \o OutFlow = Bytes(1, outWritten)
                   /\ localToStderr \o ErrFlow = Bytes(1, errWritten)
  BY DEF OutputInv, Reached, Backlog
<1>2. ASSUME UNCHANGED << queues, local, toHost >>
      PROVE  UNCHANGED << Reached, OutFlow, localToStderr, ErrFlow >>
  BY <1>2 DEF queues, local, guestVars, loopVars, appVars, Reached, Backlog, localToStdoutLength,
     OutFlow, ErrFlow, ToHost
<1>3. CASE Starts
  BY <1>2, <1>3, NoOutput DEF Starts, HostData
<1>4. CASE Sends
  BY <1>1, <1>2, <1>4 DEF Sends, HostData, Connected
<1>5. CASE TakesLength
  <2>1. Taken /\ Carried("STDOUT", Head(toHost)) = << >> /\ Carried("STDERR", Head(toHost)) = << >>
    BY <1>5 DEF TakesLength, Carried
  <2>2. OutFlow' = OutFlow /\ ErrFlow' = ErrFlow
    BY <2>1, FlowsStay
  <2>3. Connected /\ UNCHANGED << Reached, localToStderr >>
    BY <1>5 DEF TakesLength, Connected, HostData, queues, local, Reached, Backlog,
       localToStdoutLength
  <2> QED
    BY <1>1, <2>2, <2>3
<1>6. ASSUME NEW u \in Unit, TakesOutput(u)
      PROVE  /\ Reached' \o OutFlow' = Bytes(1, outWritten)
             /\ localToStderr' \o ErrFlow' = Bytes(1, errWritten)
  <2>1. Connected
    BY <1>6 DEF TakesOutput, Connected
  <2> QED
    BY <1>1, <1>6, <2>1, HostQueues
<1>7. ASSUME NEW u \in Unit, TakesExit(u)
      PROVE  /\ Reached' \o OutFlow' = Bytes(1, outWritten)
             /\ localToStderr' \o ErrFlow' = Bytes(1, errWritten)
  <2>1. Taken /\ Carried("STDOUT", Head(toHost)) = << >> /\ Carried("STDERR", Head(toHost)) = << >>
    BY <1>7 DEF TakesExit, Carried
  <2>2. OutFlow' = OutFlow /\ ErrFlow' = ErrFlow
    BY <2>1, FlowsStay
  <2>3. Connected /\ UNCHANGED << Reached, localToStderr >>
    BY <1>7 DEF TakesExit, Connected, queues, local, Reached, Backlog, localToStdoutLength
  <2> QED
    BY <1>1, <2>2, <2>3
<1>8. ASSUME NEW n \in Nat, Gathers(n)
      PROVE  /\ Reached' \o OutFlow' = Bytes(1, outWritten)
             /\ localToStderr' \o ErrFlow' = Bytes(1, errWritten)
  <2>1. Connected /\ UNCHANGED << Reached, localToStderr, OutFlow, ErrFlow >>
    BY <1>8 DEF Gathers, Connected, queues, Reached, Backlog, localToStdoutLength,
       OutFlow, ErrFlow, ToHost, guestVars, loopVars, appVars
  <2> QED
    BY <1>1, <2>1
<1>9. ASSUME NEW n \in 0 .. Len(localToStdout) - localToStdoutOffset, Delivers(n)
      PROVE  /\ Reached' \o OutFlow' = Bytes(1, outWritten)
             /\ localToStderr' \o ErrFlow' = Bytes(1, errWritten)
  <2>1. Connected /\ UNCHANGED << localToStderr, OutFlow, ErrFlow >>
    BY <1>9 DEF Delivers, Connected, OutFlow, ErrFlow, ToHost, guestVars, loopVars, appVars
  <2> QED
    BY <1>1, <1>9, <2>1, HostDelivers
<1>10. CASE Rests
  BY <1>1, <1>2, <1>10 DEF Rests, HostData, Connected
<1> QED
  BY <1>3, <1>4, <1>5, <1>6, <1>7, <1>8, <1>9, <1>10
     DEF HostKinds, Begins, Breaks, Refuses, Awaits, Syncs, Lags, Connected

(* A step of the guest does.                                               *)
LEMMA GuestKeepsOutput ==
  ASSUME HInv, GInv, GInv', G!Kinds, G!PhaseStep, OutputInv, GuestStepOf
  PROVE  OutputInv'
<1> SUFFICES ASSUME ~wantTty', Connected'
             PROVE  /\ Reached' \o OutFlow' = Bytes(1, outWritten')
                    /\ localToStderr' \o ErrFlow' = Bytes(1, errWritten')
  BY DEF OutputInv, Reached, Backlog
<1>1. ~wantTty /\ Connected /\ Reached' = Reached /\ localToStderr' = localToStderr
  BY DEF G!PhaseStep, GuestStepOf, hostVars, queues, local, Connected, Reached, Backlog,
     localToStdoutLength
<1>2. /\ Reached \o OutFlow = Bytes(1, outWritten)
      /\ localToStderr \o ErrFlow = Bytes(1, errWritten)
  BY <1>1 DEF OutputInv, Reached, Backlog
<1>3. /\ Flows(OutFlow, OutFlow', outWritten, outWritten')
      /\ Flows(ErrFlow, ErrFlow', errWritten, errWritten')
  BY <1>1, GuestFlows
<1>4. /\ Reached \in Seq(Nat) /\ localToStderr \in Seq(Nat)
      /\ OutFlow \in Seq(Nat) /\ ErrFlow \in Seq(Nat)
      /\ outWritten \in Nat /\ errWritten \in Nat
  BY OutputTyped DEF Reached
<1>5. ASSUME NEW r \in Seq(Nat), NEW f \in Seq(Nat), NEW n \in Nat, r \o f = Bytes(1, n)
      PROVE  r \o Append(f, n + 1) = Bytes(1, n + 1)
  <2>1. r \o Append(f, n + 1) = Append(r \o f, n + 1)
    BY ConcatAppend
  <2> QED
    BY <1>5, <2>1, BytesGrow
<1>6. Reached \o OutFlow' = Bytes(1, outWritten')
  <2>1. CASE OutFlow' = OutFlow /\ outWritten' = outWritten
    BY <1>2, <2>1
  <2>2. CASE OutFlow' = Append(OutFlow, outWritten + 1) /\ outWritten' = outWritten + 1
    <3>1. Reached \o Append(OutFlow, outWritten + 1) = Bytes(1, outWritten + 1)
      BY <1>2, <1>4, <1>5
    <3> QED
      BY <2>2, <3>1
  <2> QED
    BY <1>3, <2>1, <2>2 DEF Flows
<1>7. localToStderr \o ErrFlow' = Bytes(1, errWritten')
  <2>1. CASE ErrFlow' = ErrFlow /\ errWritten' = errWritten
    BY <1>2, <2>1
  <2>2. CASE ErrFlow' = Append(ErrFlow, errWritten + 1) /\ errWritten' = errWritten + 1
    <3>1. localToStderr \o Append(ErrFlow, errWritten + 1) = Bytes(1, errWritten + 1)
      BY <1>2, <1>4, <1>5
    <3> QED
      BY <2>2, <3>1
  <2> QED
    BY <1>3, <2>1, <2>2 DEF Flows
<1> QED
  BY <1>1, <1>6, <1>7

-----------------------------------------------------------------------------
(* The application has pipes.                                              *)
OnPipes == SessionInv /\ OutputInv /\ ~wantTty

(* It begins so,                                                           *)
LEMMA OnPipesInit == ASSUME WantTtys = {FALSE}, Init PROVE OnPipes
<1>1. ~wantTty
  BY DEF Init, GuestInitial
<1>2. ~Connected
  BY DEF Init, HostInit, Connected
<1> QED
  BY <1>1, <1>2, SessionInit DEF OnPipes, OutputInv

(* and goes on so.                                                         *)
LEMMA OnPipesStep ==
  ASSUME MaxAttach = 1, TermFails = FALSE, OnPipes, [Next]_vars
  PROVE  OnPipes'
<1>1. HInv /\ GInv /\ HostFirst /\ GuestFirst /\ OutputInv /\ SessionInv /\ ~wantTty
  BY DEF OnPipes, SessionInv
<1>2. SessionInv' /\ HInv' /\ GInv'
  BY <1>1, SessionStep DEF SessionInv
<1>3. CASE HostKinds /\ UNCHANGED guestVars
  <2>1. OutputInv'
    BY <1>1, <1>3, HostKeepsOutput
  <2> QED
    BY <1>1, <1>2, <1>3, <2>1 DEF OnPipes, guestVars, loopVars
<1>4. CASE GuestStepOf
  <2>1. G!Kinds /\ G!PhaseStep
    BY <1>1, <1>4, GuestKeepsGuest
  <2>2. OutputInv'
    BY <1>1, <1>2, <1>4, <2>1, GuestKeepsOutput
  <2> QED
    BY <1>1, <1>2, <2>1, <2>2 DEF OnPipes, G!PhaseStep
<1> QED
  BY <1>1, <1>3, <1>4, SessionSteps

(* What the application writes to its stdout reaches the user once and in  *)
(* order: while the console is attached and the guest runs, each byte is in *)
(* the pipe, in a packet that eventloop sends or the device holds, in the  *)
(* queue of do_console_rpc_stdout_write, or written.                       *)
THEOREM OutputReachesUser ==
  ASSUME MaxAttach = 1, WantTtys = {FALSE}, TermFails = FALSE
  PROVE  Spec => []OutputInOnePlace
<1>1. Init => OnPipes
  BY OnPipesInit
<1>2. OnPipes /\ [Next]_vars => OnPipes'
  BY OnPipesStep
<1>3. OnPipes => OutputInOnePlace
  <2> SUFFICES ASSUME OnPipes, Connected
               PROVE  (Reached \o DataOf("STDOUT", ToHost)) \o outPipe = Bytes(1, outWritten)
    BY DEF OutputInOnePlace, Reached, Backlog, ToHost
  <2>1. Reached \o OutFlow = Bytes(1, outWritten)
    BY DEF OnPipes, OutputInv, Reached, Backlog
  <2>2. Reached \in Seq(Nat) /\ DataOf("STDOUT", ToHost) \in Seq(Nat) /\ outPipe \in Seq(Nat)
    BY OutputTyped DEF OnPipes, SessionInv, Reached
  <2>3. (Reached \o DataOf("STDOUT", ToHost)) \o outPipe
          = Reached \o (DataOf("STDOUT", ToHost) \o outPipe)
    BY ONLY <2>2, DataAssociative
  <2> QED
    BY <2>1, <2>3 DEF OutFlow
<1> QED
  BY <1>1, <1>2, <1>3, PTL DEF Spec

-----------------------------------------------------------------------------
(* The exit.                                                               *)

(* No background process, no status but the application's.                 *)
Childless ==
  /\ orphan = "none" /\ zombies \subseteq {"app"}
  /\ appQuit => exitstatus = appStatus
  /\ app = "none" => ~appQuit

(* What the guest puts down as the exit of the application is its own      *)
(* status, when no other process can leave one.                            *)
LEMMA ExitIsOwn ==
  ASSUME GInv, ~wantTty, Childless, GuestNext, gtx = << >>,
         NEW status, gtx' = Packet("EXIT", << status >>)
  PROVE  status = appStatus /\ appStatus' = appStatus
<1> USE DEF guestVars, loopVars, appVars
<1>1. /\ zombies \subseteq {"app"} /\ (appQuit => exitstatus = appStatus)
  BY DEF Childless
<1>2. ASSUME NEW st, gtx' = ExitPacket(st) PROVE status = st
  <2>1. Packet("EXIT", << status >>)[2].data = << status >>
        /\ Packet("EXIT", << st >>)[2].data = << st >>
    BY DEF Packet
  <2>2. << status >> = << st >>
    BY <1>2, <2>1 DEF ExitPacket
  <2> QED
    BY <2>2
<1>3. gtx' # << >>
  BY DEF Packet
<1>4. \A proc, pipe, rest : ReadsChunk(proc, pipe, rest) => proc = "EXIT"
  <2>1. ASSUME NEW proc, NEW pipe, NEW rest, ReadsChunk(proc, pipe, rest)
        PROVE  proc = "EXIT"
    <3>1. PICK d : gtx' = Packet(proc, d)
      BY <2>1 DEF ReadsChunk
    <3>2. Packet(proc, d)[2].proc = proc /\ Packet("EXIT", << status >>)[2].proc = "EXIT"
      BY DEF Packet
    <3> QED
      BY <3>1, <3>2
  <2> QED
    BY <2>1
<1>5. CASE Echo \/ Boot
  BY <1>3, <1>5 DEF Echo, Boot
<1>6. CASE Reap
  BY <1>1, <1>2, <1>3, <1>6 DEF Reap
<1>7. CASE ReadHost
  <2>1. gtx' = gtx \/ gtx' = << Sync >>
    BY <1>7 DEF ReadHost, ReadWait, IgnoreWait, ReadSync, RunCommandFails, ReadLength, ReadStdin,
       ReadStdinEOF, ReadQuit, ReadBad, Leave
  <2>2. Len(<< Sync >>) = 1 /\ Len(Packet("EXIT", << status >>)) = 2
    BY DEF Packet
  <2>3. gtx' # << Sync >>
    BY <2>2
  <2> QED
    BY <1>3, <2>1, <2>3
<1>8. CASE WriteHost \/ HostFails \/ WriteStdin \/ LeaveLoop
  BY <1>3, <1>8 DEF WriteHost, PollsHostOut, HostFails, WriteStdin, LeaveLoop, Leave
<1>9. CASE ReadAppOut
  <2>1. ~ReadsChunk("STDOUT", outPipe, outPipe')
    BY <1>4
  <2>2. gtx' = ExitPacket(exitstatus) /\ appQuit /\ appStatus' = appStatus
    BY <1>3, <1>9, <2>1 DEF ReadAppOut
  <2> QED
    BY <1>1, <1>2, <2>2
<1>10. CASE ReadAppErr
  <2>1. ~ReadsChunk("STDERR", errPipe, errPipe')
    BY <1>4
  <2>2. gtx' = ExitPacket(exitstatus) /\ appQuit /\ appStatus' = appStatus
    BY <1>3, <1>10, <2>1 DEF ReadAppErr
  <2> QED
    BY <1>1, <1>2, <2>2
<1>11. CASE App
  BY <1>3, <1>11 DEF App, AppRead, AppWriteOut, AppWriteErr, AppExits, OrphanExits, AppClose, AppForks
<1> QED
  BY <1>5, <1>6, <1>7, <1>8, <1>9, <1>10, <1>11 DEF GuestNext, Loop, MasterHangup

(* The application on its own: it writes a byte, ends, or does neither.    *)
Wrote(n, m) ==
  /\ app = "running" /\ app' = "running" /\ appStatus' = appStatus
  /\ outWritten' = n /\ errWritten' = m

AppEnds ==
  /\ app = "running" /\ app' = "exited" /\ appStatus' \in Statuses
  /\ UNCHANGED << outWritten, errWritten >>

AppRests ==
  /\ (app' = "exited") <=> (app = "exited")
  /\ UNCHANGED << appStatus, outWritten, errWritten >>

(* A step of the guest lets the application write, end, or neither.        *)
LEMMA AppKinds ==
  ASSUME GInv, GuestNext
  PROVE  \/ Wrote(outWritten + 1, errWritten) \/ Wrote(outWritten, errWritten + 1)
         \/ AppEnds \/ AppRests
<1> USE DEF guestVars, loopVars, appVars
<1>1. CASE Echo \/ Boot
  BY <1>1 DEF Echo, Boot, AppRests
<1>2. CASE ReadHost
  <2>1. gstate = "SYNCING" => app = "none"
    BY DEF GInv, G!Handshaking
  <2> QED
    BY <1>2, <2>1 DEF ReadHost, ReadWait, IgnoreWait, ReadSync, RunCommandFails, ReadLength, ReadStdin,
       ReadStdinEOF, ReadQuit, ReadBad, Leave, RunCommand, AppRests
<1>3. CASE Loop /\ ~ReadHost
  BY <1>3 DEF Loop, Reap, WriteHost, HostFails, WriteStdin, ReadAppOut, ReadAppErr,
     MasterHangup, LeaveLoop, Leave, AppRests
<1>4. CASE App
  BY <1>4 DEF App, AppRead, AppWriteOut, AppWriteErr, AppExits, OrphanExits, AppClose, AppForks,
     Writes, AppRests, AppEnds, Wrote
<1> QED
  BY <1>1, <1>2, <1>3, <1>4 DEF GuestNext

(* It stays so.                                                            *)
LEMMA ChildlessStep ==
  ASSUME GInv, GInv', Childless, ~HasOrphan, GuestNext
  PROVE  Childless'
<1> USE DEF guestVars, loopVars, appVars
<1>1. /\ (appQuit => app = "exited") /\ (appQuit' => app' = "exited")
      /\ ("app" \in zombies => app = "exited" /\ ~appQuit)
      /\ appQuit \in BOOLEAN /\ appQuit' \in BOOLEAN
  BY DEF GInv, G!Endings, G!Typed, G!TypeOK
<1>2. CASE Echo \/ Boot
  BY <1>1, <1>2 DEF Echo, Boot, Childless
<1>3. CASE Reap
  BY <1>1, <1>3 DEF Reap, Childless
<1>4. CASE Loop /\ ~Reap
  <2>1. UNCHANGED << orphan, zombies, appQuit, exitstatus, appStatus >>
        /\ (app' = app \/ app' = "running")
    <3>1. CASE ReadHost
      BY <3>1 DEF ReadHost, ReadWait, IgnoreWait, ReadSync, RunCommandFails, ReadLength,
         ReadStdin, ReadStdinEOF, ReadQuit, ReadBad, Leave, RunCommand
    <3>2. CASE ~ReadHost
      BY <1>4, <3>2 DEF Loop, WriteHost, HostFails, WriteStdin, ReadAppOut, ReadAppErr,
         MasterHangup, LeaveLoop, Leave
    <3> QED
      BY <3>1, <3>2
  <2> QED
    BY <1>1, <2>1 DEF Childless
<1>6. CASE AppExits
  BY <1>1, <1>6 DEF AppExits, Childless
<1>7. CASE App /\ ~AppExits
  <2>1. UNCHANGED << orphan, zombies, appQuit, exitstatus, appStatus, app >>
    BY <1>7 DEF App, AppRead, AppWriteOut, AppWriteErr, OrphanExits, AppClose, AppForks, Childless
  <2> QED
    BY <1>1, <2>1 DEF Childless
<1> QED
  BY <1>2, <1>3, <1>4, <1>6, <1>7 DEF GuestNext

-----------------------------------------------------------------------------
(* The exit status on its way.                                             *)
Truthful(units, status) ==
  \A i \in 1 .. Len(units) :
    units[i].proc = "EXIT" /\ units[i].part = "body" => units[i].data = << status >>

(* What has been told of the end of the application, and of the session.   *)
Told ==
  /\ Childless
  /\ exited # << >> => appQuit /\ OutputEnded /\ ToHost = << >> /\ exited = << appStatus >>
  /\ Truthful(ToHost, appStatus)
  /\ closed # << >> => state = "INACTIVE"

(* A byte says nothing of an exit.                                         *)
LEMMA TruthfulByte ==
  ASSUME NEW u \in Seq(Unit), NEW x \in Unit, x.part = "byte", NEW st, Truthful(u, st)
  PROVE  Truthful(Append(u, x), st)
<1>1. /\ Len(u) \in Nat /\ Len(Append(u, x)) = Len(u) + 1
      /\ \A i \in 1 .. Len(u) : Append(u, x)[i] = u[i]
      /\ Append(u, x)[Len(u) + 1] = x
  BY AppendIs
<1>2. ASSUME NEW i \in 1 .. Len(Append(u, x)), Append(u, x)[i].part = "body"
      PROVE  i \in 1 .. Len(u)
  BY <1>1, <1>2
<1> QED
  BY <1>1, <1>2 DEF Truthful

(* Nor does a packet of another kind, and one of this kind says the truth. *)
LEMMA TruthfulPacket ==
  ASSUME NEW u \in Seq(Unit), NEW proc, NEW d, Sendable(proc, d), NEW st, Truthful(u, st),
         proc = "EXIT" => d = << st >>
  PROVE  Truthful(u \o Packet(proc, d), st)
<1> DEFINE w == Packet(proc, d)
           v == u \o w
<1>1. /\ w \in Seq(Unit) /\ Len(w) = 2 /\ w[1].part = "length"
      /\ w[2].proc = proc /\ w[2].data = d
  BY PacketTyped DEF Packet
<1> HIDE DEF w
<1>2. /\ Len(u) \in Nat /\ Len(v) = Len(u) + Len(w)
      /\ \A i \in 1 .. Len(u) : v[i] = u[i]
      /\ \A i \in 1 .. Len(w) : v[Len(u) + i] = w[i]
  <2>1. w \in Seq(Unit)
    BY <1>1
  <2> QED
    BY <2>1, ConcatIs
<1> HIDE DEF v
<1>3. v[Len(u) + 1] = w[1] /\ v[Len(u) + 2] = w[2]
  BY <1>1, <1>2
<1>4. ASSUME NEW i \in 1 .. Len(v), v[i].proc = "EXIT", v[i].part = "body"
      PROVE  v[i].data = << st >>
  <2>1. CASE i \in 1 .. Len(u)
    BY <1>2, <1>4, <2>1 DEF Truthful
  <2>2. CASE i = Len(u) + 1
    BY <1>1, <1>3, <1>4, <2>2
  <2>3. CASE i = Len(u) + 2
    BY <1>1, <1>3, <1>4, <2>3
  <2> QED
    BY <1>1, <1>2, <2>1, <2>2, <2>3
<1>5. Truthful(v, st)
  BY <1>4 DEF Truthful
<1> QED
  BY <1>5 DEF v, w

(* Once the exit is told, the guest sends no more.                         *)
LEMMA NothingAfterExit ==
  ASSUME GInv, GInv', G!Kinds, G!PhaseStep, GuestNext, ~wantTty, appQuit, OutputEnded
  PROVE  appQuit' /\ OutputEnded' /\ ToHost' = ToHost
<1>1. appQuit' /\ OutputEnded' /\ app' = "exited"
  BY DEF G!PhaseStep, OutputEnded, G!OutputEnded, GInv, G!Endings
<1>2. ToHost' = ToHost
  BY <1>1, SentByGuest DEF G!SendsOut, G!SendsErr, G!SendsExit, OutputEnded, G!OutputEnded
<1> QED
  BY <1>1, <1>2

(* What is said of the exit stays true.                                    *)
LEMMA GuestStaysTruthful ==
  ASSUME GInv, GInv', G!Kinds, GuestNext, ~wantTty, Childless, Truthful(ToHost, appStatus)
  PROVE  Truthful(ToHost', appStatus')
<1>1. ToHost \in Seq(Unit) /\ G!Sent = ToHost
  BY GuestTypes DEF GInv
<1>2. Truthful(ToHost, appStatus')
  <2>1. CASE appStatus' = appStatus
    BY <2>1
  <2>2. CASE app = "running"
    <3>1. ~appQuit
      BY <2>2 DEF GInv, G!Endings
    <3>2. \A i \in 1 .. Len(ToHost) : ToHost[i].proc # "EXIT"
      BY <1>1, <3>1 DEF GInv, G!ExitEnds, G!ExitSent
    <3> QED
      BY <3>2 DEF Truthful
  <2> QED
    BY <2>1, <2>2, AppKinds DEF Wrote, AppEnds, AppRests
<1>3. CASE ToHost' = ToHost
  BY <1>2, <1>3
<1>4. ASSUME NEW u \in {Noise, Sync}, ToHost' = Append(ToHost, u)
      PROVE  Truthful(ToHost', appStatus')
  <2>1. u \in Unit /\ u.part = "byte"
    BY BytesTyped DEF Noise, Sync, Byte
  <2> QED
    BY <1>1, <1>2, <1>4, <2>1, TruthfulByte
<1>5. ASSUME NEW p, NEW d, GuestSends(p, d), gtx = << >>, p = "EXIT" => d = << appStatus' >>
      PROVE  Truthful(ToHost', appStatus')
  <2>1. Sendable(p, d) /\ ToHost' = toHost \o Packet(p, d)
    BY <1>5 DEF GuestSends
  <2>2. ToHost = toHost
    <3>1. toHost \in Seq(Unit)
      BY GuestTypes DEF GInv
    <3> QED
      BY <1>5, <3>1, ConcatEmptySeq DEF ToHost
  <2>3. Truthful(ToHost \o Packet(p, d), appStatus')
    BY <1>1, <1>2, <1>5, <2>1, TruthfulPacket
  <2> QED
    BY <2>1, <2>2, <2>3
<1>6. CASE \E n \in 1 .. Len(outPipe) :
             G!SendsOut(n) /\ GuestSends("STDOUT", SubSeq(outPipe, 1, n))
  BY <1>5, <1>6 DEF G!SendsOut
<1>7. CASE \E n \in 1 .. Len(errPipe) :
             G!SendsErr(n) /\ GuestSends("STDERR", SubSeq(errPipe, 1, n))
  BY <1>5, <1>7 DEF G!SendsErr
<1>8. ASSUME NEW status \in Nat, G!SendsExit(status), GuestSends("EXIT", << status >>)
      PROVE  Truthful(ToHost', appStatus')
  <2>1. gtx = << >> /\ gtx' = Packet("EXIT", << status >>)
    BY <1>8 DEF G!SendsExit, G!Replies, G!Packet, Packet
  <2>2. status = appStatus /\ appStatus' = appStatus
    BY <2>1, ExitIsOwn
  <2> QED
    BY <1>5, <1>8, <2>1, <2>2
<1> QED
  BY <1>3, <1>4, <1>6, <1>7, <1>8, SentByGuest

(* A step of the guest keeps what has been told.                           *)
LEMMA GuestKeepsTold ==
  ASSUME HasOrphan = FALSE, GInv, GInv', G!Kinds, G!PhaseStep, GuestStepOf, ~wantTty, Told
  PROVE  Told'
<1>1. GuestNext /\ UNCHANGED << state, exited, closed >>
  BY DEF GuestStepOf, hostVars
<1>2. Childless'
  BY <1>1, ChildlessStep DEF Told
<1>3. Truthful(ToHost', appStatus')
  BY <1>1, GuestStaysTruthful DEF Told
<1>4. ASSUME exited # << >>
      PROVE  appQuit' /\ OutputEnded' /\ ToHost' = << >> /\ exited = << appStatus' >>
  <2>1. appQuit /\ OutputEnded /\ ToHost = << >> /\ exited = << appStatus >>
    BY <1>4 DEF Told
  <2>2. app = "exited"
    BY <2>1 DEF GInv, G!Endings
  <2>3. appStatus' = appStatus
    BY <1>1, <2>2, AppKinds DEF Wrote, AppEnds, AppRests
  <2> QED
    BY <1>1, <2>1, <2>3, NothingAfterExit
<1> QED
  BY <1>1, <1>2, <1>3, <1>4 DEF Told, Truthful

(* A step of the host does.                                                *)
LEMMA HostKeepsTold ==
  ASSUME TermFails = FALSE, HInv, GInv, HostFirst, ~wantTty, Told, HostKinds, UNCHANGED guestVars
  PROVE  Told'
<1> USE DEF guestVars, loopVars, appVars, HostData
<1>1. Childless' /\ (OutputEnded' <=> OutputEnded)
  BY DEF Told, Childless, OutputEnded
<1>2. toHost \in Seq(Unit) /\ gtx \in Seq(Unit) /\ ToHost \in Seq(Unit) /\ G!Sent = ToHost
      /\ state \in States
  BY GuestTypes, HostAwaits DEF GInv
<1>3. Truthful(ToHost', appStatus')
  <2>1. CASE UNCHANGED toHost
    BY <2>1 DEF Told, ToHost
  <2>2. CASE Taken
    <3>1. ToHost # << >> /\ ToHost' = Tail(ToHost)
      BY <2>2, SentTail
    <3>2. \A i \in 1 .. Len(ToHost') : ToHost'[i] = ToHost[i + 1] /\ i + 1 \in 1 .. Len(ToHost)
      BY <1>2, <3>1, HeadIs
    <3>3. Truthful(ToHost, appStatus)
      BY DEF Told
    <3> QED
      BY <3>2, <3>3 DEF Truthful
  <2> QED
    BY <2>1, <2>2, HostChannels
<1>4. ASSUME exited # << >> PROVE ToHost' = ToHost
  <2>1. ToHost = << >>
    BY <1>4 DEF Told
  <2>2. ~Taken
    BY <2>1, SentTail
  <2>3. UNCHANGED toHost
    BY <2>2, HostChannels
  <2> QED
    BY <2>3 DEF ToHost
<1>5. ASSUME NEW u \in Unit, TakesExit(u)
      PROVE  appQuit /\ OutputEnded /\ ToHost' = << >> /\ exited' = << appStatus >>
  <2>1. /\ Taken /\ u = Head(ToHost) /\ u.part = "body" /\ u.proc = "EXIT" /\ exited = << >>
        /\ exited' = Append(exited, Head(u.data)) /\ ToHost # << >> /\ ToHost' = Tail(ToHost)
    BY <1>5, SentTail DEF TakesExit, HostFirst
  <2>2. /\ Len(ToHost) \in Nat \ {0} /\ u = ToHost[1] /\ Len(ToHost') = Len(ToHost) - 1
        /\ ToHost' \in Seq(Unit)
    BY <1>2, <2>1, HeadIs
  <2>3. 1 \in 1 .. Len(ToHost) /\ ToHost[1].proc = "EXIT" /\ ToHost[1].part = "body"
    BY <2>1, <2>2
  <2>4. appQuit /\ OutputEnded /\ 1 = Len(ToHost)
    BY <1>2, <2>3 DEF GInv, G!ExitEnds, G!ExitSent, OutputEnded, G!OutputEnded
  <2>5. ToHost' = << >>
    <3>1. Len(ToHost) = 1
      BY <2>4
    <3>2. Len(ToHost') = Len(ToHost) - 1 /\ ToHost' \in Seq(Unit)
      BY <2>2
    <3>3. Len(ToHost') = 0
      BY ONLY <3>1, <3>2
    <3> QED
      BY <3>2, <3>3, EmptySeq
  <2>6. u.data = << appStatus >>
    BY <2>2, <2>3 DEF Told, Truthful
  <2>7. Head(<< appStatus >>) = appStatus /\ Append(<< >>, appStatus) = << appStatus >>
    OBVIOUS
  <2> QED
    BY <2>1, <2>4, <2>5, <2>6, <2>7
<1>6. exited' = exited \/ exited' = << >> \/ \E u \in Unit : TakesExit(u)
  BY DEF HostKinds, Begins, Breaks, Refuses, Awaits, Syncs, Starts, Sends, TakesLength,
         TakesOutput, Gathers, Lags, Delivers, Rests
<1>7. exited' # << >> => appQuit' /\ OutputEnded' /\ ToHost' = << >> /\ exited' = << appStatus' >>
  BY <1>1, <1>4, <1>5, <1>6 DEF Told
<1>8. closed' # << >> => state' = "INACTIVE"
  BY <1>2 DEF Told, States, HostKinds, Begins, Breaks, Refuses, Awaits, Syncs, Starts, Sends,
         TakesLength, TakesOutput, TakesExit, Gathers, Lags, Delivers, Rests
<1> QED
  BY <1>1, <1>3, <1>7, <1>8 DEF Told

-----------------------------------------------------------------------------
(* What the session promises, in terms of the abstract console.            *)

Produced  == [s \in {"out", "err"} |-> IF s = "out" THEN outWritten ELSE errWritten]
Arrived   == [s \in {"out", "err"} |-> IF s = "out" THEN stdoutWritten ELSE stderrWritten]
Ended     == IF app = "exited" THEN << appStatus >> ELSE << >>
Session   == IF closed # << >> THEN closed[1]
             ELSE IF state = "INACTIVE" /\ attaches > 0 THEN "error" ELSE "open"

Quiet == UNCHANGED << Produced, Arrived, Ended, exited, Session >>

(* A step that changes none of these is a stutter.                         *)
LEMMA QuietStutters == ASSUME Quiet PROVE [IO!Next]_(IO!ioVars)
BY DEF Quiet, Produced, Arrived, Ended, Session, IO!ioVars

(* The states the promise is about.                                        *)
Kept == OnPipes /\ Told

(* What has arrived is what was written first.                             *)
LEMMA FirstBytes ==
  ASSUME NEW a \in Seq(Nat), NEW b \in Seq(Nat), NEW n \in Nat, a \o b = Bytes(1, n)
  PROVE  Len(a) \in 0 .. n /\ a = IO!Upto(Len(a))
<1>1. /\ Len(a) \in Nat /\ Len(b) \in Nat /\ Len(a \o b) = Len(a) + Len(b)
      /\ \A i \in 1 .. Len(a) : (a \o b)[i] = a[i]
  BY ConcatIs
<1>2. Len(Bytes(1, n)) = n /\ \A i \in 1 .. n : Bytes(1, n)[i] = i
  BY DEF Bytes
<1>3. Len(a) \in 0 .. n
  BY <1>1, <1>2
<1> DEFINE u == IO!Upto(Len(a))
<1>4. u \in Seq(Nat) /\ Len(u) = Len(a) /\ \A i \in 1 .. Len(a) : u[i] = i
  BY <1>1 DEF IO!Upto
<1>5. ASSUME NEW i \in 1 .. Len(a) PROVE a[i] = i
  <2>1. i \in 1 .. n
    BY <1>1, <1>3
  <2>2. a[i] = (a \o b)[i]
    BY ONLY <1>1, i \in 1 .. Len(a)
  <2>3. (a \o b)[i] = Bytes(1, n)[i]
    OBVIOUS
  <2> QED
    BY ONLY <1>2, <2>1, <2>2, <2>3
<1> HIDE DEF u
<1>6. a = u
  BY <1>4, <1>5, SeqEqual
<1> QED
  BY <1>3, <1>6 DEF u

(* While the console is attached nobody has been told that it is closed.   *)
LEMMA OpenSession ==
  ASSUME Told, state # "INACTIVE" PROVE closed = << >> /\ Session = "open"
BY DEF Told, Session

(* The application ends, or writes.                                        *)
LEMMA GuestPromise ==
  ASSUME Kept, GuestStepOf
  PROVE  [IO!Next]_(IO!ioVars)
<1>1. /\ GInv /\ GuestNext
      /\ UNCHANGED << stdoutWritten, stderrWritten, exited, closed, state, attaches >>
  BY DEF Kept, OnPipes, SessionInv, GuestStepOf, hostVars, local
<1>2. CASE AppRests
  <2>1. Quiet
    BY <1>1, <1>2 DEF AppRests, Quiet, Produced, Arrived, Ended, Session
  <2> QED
    BY <2>1, QuietStutters
<1>3. CASE Wrote(outWritten + 1, errWritten)
  <2>1. IO!Produce("out")
    BY <1>1, <1>3 DEF Wrote, IO!Produce
  <2> QED
    BY <2>1 DEF IO!Next
<1>4. CASE Wrote(outWritten, errWritten + 1)
  <2>1. IO!Produce("err")
    BY <1>1, <1>4 DEF Wrote, IO!Produce
  <2> QED
    BY <2>1 DEF IO!Next
<1>5. CASE AppEnds
  <2>1. IO!End
    BY <1>1, <1>5 DEF AppEnds, IO!End
  <2> QED
    BY <2>1 DEF IO!Next
<1> QED
  BY <1>1, <1>2, <1>3, <1>4, <1>5, AppKinds

(* The console breaks, or it ends with everything delivered.               *)
LEMMA BreaksPromise ==
  ASSUME Tty = FALSE, Kept, Breaks, UNCHANGED guestVars
  PROVE  [IO!Next]_(IO!ioVars)
<1> USE DEF guestVars, loopVars, appVars
<1>1. /\ UNCHANGED << outWritten, errWritten, app, appStatus, exited, attaches >>
      /\ UNCHANGED << stdoutWritten, stderrWritten >>
      /\ attaches # 0 /\ attaches \in Nat /\ state' = "INACTIVE"
      /\ closed \in Seq({"clean", "error"})
  <2>1. attaches \in Nat /\ closed \in Seq({"clean", "error"})
    BY HostTypes, HostAwaits DEF Kept, OnPipes, SessionInv
  <2> QED
    BY <2>1 DEF Breaks, local
<1>2. attaches > 0
  BY <1>1
<1>3. ASSUME state # "INACTIVE", closed' = << >> \/ closed' = << "error" >>
      PROVE  [IO!Next]_(IO!ioVars)
  <2>1. closed = << >>
    BY <1>3, OpenSession DEF Kept
  <2>2. IO!Break
    BY <1>1, <1>2, <1>3, <2>1 DEF IO!Break
  <2> QED
    BY <2>2 DEF IO!Next
<1>4. ASSUME state = "FINISHED", closed' = << "clean" >>
      PROVE  [IO!Next]_(IO!ioVars)
  <2>1. closed = << >> /\ exited # << >> /\ localToStdout = << >> /\ localToStderr = << >>
    BY <1>4, OpenSession, HostAwaits DEF Kept, OnPipes, SessionInv
  <2>2. ToHost = << >> /\ outPipe = << >> /\ errPipe = << >>
    BY <2>1 DEF Kept, Told, OnPipes, SessionInv, GInv, G!Endings, OutputEnded
  <2>3. OutFlow = << >> /\ ErrFlow = << >>
    <3>1. << >> \o << >> = << >>
      OBVIOUS
    <3> QED
      BY <2>2, <3>1, DataOfEmpty DEF OutFlow, ErrFlow
  <2>4. /\ stdoutWritten \in Seq(Nat) /\ Backlog = << >>
        /\ outWritten \in Nat /\ errWritten \in Nat /\ stderrWritten = << >>
    <3>1. HInv /\ GInv
      BY DEF Kept, OnPipes, SessionInv
    <3>2. localToStdoutOffset = 0
      <4>1. localToStdoutOffset \in 0 .. Len(<< >>) /\ Len(<< >>) = 0
        BY <2>1, <3>1, OutputTyped
      <4> QED
        BY <4>1
    <3>3. SubSeq(<< >>, 0 + 1, 0) = << >> /\ Len(<< >>) = 0
      BY SubSeqEmpty
    <3> QED
      BY <2>1, <3>1, <3>2, <3>3, OutputTyped
         DEF Backlog, localToStdoutLength, Kept, OnPipes, SessionInv, HostFirst
  <2>5. (stdoutWritten \o Backlog) \o OutFlow = Bytes(1, outWritten)
        /\ localToStderr \o ErrFlow = Bytes(1, errWritten)
    BY <1>4 DEF Kept, OnPipes, OutputInv, Connected, Backlog
  <2>6. stdoutWritten = Bytes(1, outWritten)
    <3>1. stdoutWritten \o << >> = stdoutWritten
      BY <2>4, ConcatEmptySeq
    <3> QED
      BY <2>3, <2>4, <2>5, <3>1
  <2>7. << >> = Bytes(1, errWritten)
    <3>1. << >> \o << >> = << >>
      OBVIOUS
    <3> QED
      BY <2>1, <2>3, <2>5, <3>1
  <2>8. Len(Bytes(1, outWritten)) = outWritten /\ Len(Bytes(1, errWritten)) = errWritten
    BY <2>4 DEF Bytes
  <2>9. Len(stdoutWritten) = outWritten /\ Len(stderrWritten) = errWritten
    BY <2>4, <2>6, <2>7, <2>8
  <2>10. IO!AllDelivered
    BY <2>9 DEF IO!AllDelivered
  <2>11. IO!Finish
    BY <1>1, <1>4, <2>1, <2>10 DEF IO!Finish
  <2> QED
    BY <2>11 DEF IO!Next
<1>5. CASE state = "INACTIVE"
  <2>1. closed' = Append(closed, "error")
    BY <1>5 DEF Breaks
  <2>2. Session' = Session
    <3>1. CASE closed = << >>
      <4>1. Append(<< >>, "error") = << "error" >> /\ << "error" >>[1] = "error"
            /\ << "error" >> # << >>
        OBVIOUS
      <4> QED
        BY <1>2, <1>5, <2>1, <3>1, <4>1 DEF Session
    <3>2. CASE closed # << >>
      <4>1. Len(closed) \in Nat \ {0}
        BY <1>1, <3>2, EmptySeq, LenProperties
      <4>2. /\ Len(Append(closed, "error")) = Len(closed) + 1
            /\ Append(closed, "error")[1] = closed[1]
        BY <1>1, <4>1, AppendProperties
      <4>3. Append(closed, "error") # << >>
        BY <4>1, <4>2
      <4> QED
        BY <2>1, <3>2, <4>2, <4>3 DEF Session
    <3> QED
      BY <3>1, <3>2
  <2>3. Quiet
    BY <1>1, <2>2 DEF Quiet, Produced, Arrived, Ended
  <2> QED
    BY <2>3, QuietStutters
<1>6. CASE state # "INACTIVE"
  <2>1. closed = << >>
    BY <1>6, OpenSession DEF Kept
  <2>2. \/ closed' = << >> \/ closed' = Append(<< >>, "error")
        \/ state = "FINISHED" /\ closed' = Append(<< >>, "clean")
    BY <2>1 DEF Breaks
  <2>3. Append(<< >>, "error") = << "error" >> /\ Append(<< >>, "clean") = << "clean" >>
    OBVIOUS
  <2> QED
    BY <1>3, <1>4, <1>6, <2>2, <2>3
<1> QED
  BY <1>5, <1>6

(* The exit is reported.                                                   *)
LEMMA ExitPromise ==
  ASSUME Kept, Kept', NEW u \in Unit, TakesExit(u), UNCHANGED guestVars
  PROVE  [IO!Next]_(IO!ioVars)
<1>1. /\ state = "RUNNING" /\ exited = << >> /\ closed = << >>
      /\ exited' = Append(<< >>, Head(u.data)) /\ state' \in {"STOPPING", "FINISHED"}
      /\ closed' = << >> /\ UNCHANGED << stdoutWritten, stderrWritten >>
  BY OpenSession DEF TakesExit, Kept, OnPipes, SessionInv, HostFirst, local
<1>2. exited' # << >>
  BY <1>1
<1>3. exited' = << appStatus >> /\ app = "exited"
  BY <1>2 DEF Kept, Told, OnPipes, SessionInv, GInv, G!Endings, guestVars, loopVars, appVars
<1>4. UNCHANGED << outWritten, errWritten, app, appStatus >>
  BY DEF guestVars, appVars
<1>5. IO!Report
  BY <1>1, <1>3, <1>4 DEF IO!Report
<1> QED
  BY <1>5 DEF IO!Next

(* Output is delivered.                                                    *)
LEMMA DeliveryPromise ==
  ASSUME Kept, Kept', NEW n \in 0 .. Len(localToStdout) - localToStdoutOffset, Delivers(n),
         UNCHANGED guestVars
  PROVE  [IO!Next]_(IO!ioVars)
<1>1. /\ closed = << >> /\ closed' = << >> /\ state # "INACTIVE" /\ state' # "INACTIVE"
      /\ UNCHANGED << stderrWritten, exited, attaches >>
      /\ Connected'
      /\ UNCHANGED << outWritten, errWritten, app, appStatus >>
  BY OpenSession DEF Delivers, Kept, guestVars, appVars, Connected
<1> DEFINE a == SubSeq(localToStdout, localToStdoutOffset + 1, localToStdoutOffset + n)
<1>2. stdoutWritten \in Seq(Nat) /\ outWritten \in Nat /\ OutFlow \in Seq(Nat)
  BY OutputTyped DEF Kept, OnPipes, SessionInv
<1>3. Backlog' \in Seq(Nat) /\ a \in Seq(Nat) /\ stdoutWritten' = stdoutWritten \o a
  BY HostDelivers DEF Kept, OnPipes, SessionInv
<1> HIDE DEF a
<1>4. Len(stdoutWritten') \in 0 .. outWritten /\ stdoutWritten' = IO!Upto(Len(stdoutWritten'))
  <2> DEFINE w == stdoutWritten'
             r == Backlog' \o OutFlow
  <2>1. w \in Seq(Nat) /\ Backlog' \in Seq(Nat) /\ OutFlow \in Seq(Nat)
    <3>1. stdoutWritten \o a \in Seq(Nat)
      BY <1>2, <1>3, ConcatProperties
    <3> QED
      BY <1>2, <1>3, <3>1
  <2>2. (w \o Backlog') \o OutFlow = Bytes(1, outWritten)
    <3>1. OutFlow' = OutFlow
      BY DEF OutFlow, ToHost, Delivers, guestVars, loopVars, appVars
    <3> QED
      BY <1>1, <3>1 DEF Kept, OnPipes, OutputInv, Backlog
  <2> HIDE DEF w
  <2>3. (w \o Backlog') \o OutFlow = w \o r
    BY ONLY <2>1, DataAssociative
  <2>4. r \in Seq(Nat)
    BY ONLY <2>1, ConcatProperties
  <2> HIDE DEF r
  <2>5. Len(w) \in 0 .. outWritten /\ w = IO!Upto(Len(w))
    BY <1>2, <2>1, <2>2, <2>3, <2>4, FirstBytes
  <2> QED
    BY <2>5 DEF w
<1>5. CASE a = << >>
  <2>1. stdoutWritten' = stdoutWritten
    BY <1>2, <1>3, <1>5, ConcatEmptySeq
  <2>2. Quiet
    BY <1>1, <2>1 DEF Quiet, Produced, Arrived, Ended, Session
  <2> QED
    BY <2>2, QuietStutters
<1>6. CASE a # << >>
  <2>1. Len(a) \in Nat \ {0} /\ Len(stdoutWritten) \in Nat
        /\ Len(stdoutWritten') = Len(stdoutWritten) + Len(a)
    BY <1>2, <1>3, <1>6, EmptySeq, LenProperties, ConcatIs
  <2>2. PICK m \in Len(stdoutWritten) + 1 .. outWritten : stdoutWritten' = IO!Upto(m)
    BY <1>4, <2>1
  <2>3. IO!Deliver("out")
    BY <1>1, <2>2 DEF IO!Deliver
  <2> QED
    BY <2>3 DEF IO!Next
<1> QED
  BY <1>5, <1>6

(* Every step of the session is one the promise allows.                    *)
LEMMA StepPromise ==
  ASSUME MaxAttach = 1, Tty = FALSE, Kept, Kept', [Next]_vars
  PROVE  [IO!Next]_(IO!ioVars)
<1>1. SessionInv /\ HostFirst /\ Told
  BY DEF Kept, OnPipes, SessionInv
<1>2. CASE GuestStepOf
  BY <1>2, GuestPromise
<1>3. CASE HostKinds /\ UNCHANGED guestVars
  <2> USE DEF guestVars, loopVars, appVars
  <2>1. ASSUME UNCHANGED << stdoutWritten, stderrWritten, exited, Session >>
        PROVE  [IO!Next]_(IO!ioVars)
    <3>1. Quiet
      BY <1>3, <2>1 DEF Quiet, Produced, Arrived, Ended
    <3> QED
      BY <3>1, QuietStutters
  <2>2. CASE Begins
    <3>1. exited = << >> /\ closed = << >> /\ attaches = 0
      BY <1>1, <2>2 DEF Begins, HostFirst, Fresh
    <3>2. Session = "open" /\ Session' = "open"
      BY <2>2, <3>1 DEF Begins, Session
    <3> QED
      BY <2>1, <2>2, <3>1, <3>2 DEF Begins, local
  <2>3. CASE Breaks
    BY <1>3, <2>3, BreaksPromise
  <2>4. ASSUME NEW u \in Unit, TakesExit(u) PROVE [IO!Next]_(IO!ioVars)
    BY <1>3, <2>4, ExitPromise
  <2>5. ASSUME NEW n \in 0 .. Len(localToStdout) - localToStdoutOffset, Delivers(n)
        PROVE  [IO!Next]_(IO!ioVars)
    BY <1>3, <2>5, DeliveryPromise
  <2>6. CASE Lags \/ Rests
    BY <2>1, <2>6 DEF Lags, Rests, HostData, local, Session
  <2>7. ASSUME state # "INACTIVE", state' # "INACTIVE",
               UNCHANGED << stdoutWritten, stderrWritten, exited >>
        PROVE  [IO!Next]_(IO!ioVars)
    <3>1. closed = << >> /\ closed' = << >>
      BY <2>7 DEF Kept, Told
    <3> QED
      BY <2>1, <2>7, <3>1 DEF Session
  <2> QED
    BY <1>3, <2>2, <2>3, <2>4, <2>5, <2>6, <2>7
       DEF HostKinds, Refuses, Awaits, Syncs, Starts, Sends, TakesLength, TakesOutput, Gathers,
           HostData, local
<1> QED
  BY <1>1, <1>2, <1>3, SessionSteps

(* A session begins as the promise does.                                   *)
LEMMA InitPromise == ASSUME WantTtys = {FALSE}, Init PROVE Kept /\ IO!Init
<1>1. OnPipes /\ HostInit /\ GuestInitial /\ toHost = << >>
  BY OnPipesInit DEF Init
<1>2. ToHost = << >>
  <2>1. << >> \o << >> = << >>
    OBVIOUS
  <2> QED
    BY <1>1, <2>1 DEF ToHost, GuestInitial
<1>3. Len(<< >>) = 0
  OBVIOUS
<1>4. Told
  BY <1>1, <1>2, <1>3 DEF Told, Childless, Truthful, HostInit, GuestInitial
<1>5. IO!Init
  BY <1>1 DEF HostInit, GuestInitial, IO!Init
<1> QED
  BY <1>1, <1>4, <1>5 DEF Kept

(* The two ends together implement the console of SandboxIO: output arrives *)
(* in order, the exit status is that of the application and is told once,  *)
(* and the console of GVirSandboxConsoleRpc is closed without an error only *)
(* when the status is told and all output is written.                      *)
THEOREM PromiseIsKept ==
  ASSUME MaxAttach = 1, Tty = FALSE, WantTtys = {FALSE}, HasOrphan = FALSE
  PROVE  Spec => KeepsPromise
<1>1. Init => Kept /\ IO!Init
  BY InitPromise
<1>2. TermFails = FALSE
  BY DEF HostAssumption
<1>3. Kept /\ [Next]_vars => Kept'
  <2> SUFFICES ASSUME Kept, [Next]_vars PROVE Kept'
    OBVIOUS
  <2>1. OnPipes'
    BY <1>2, OnPipesStep DEF Kept
  <2>2. HInv /\ GInv /\ HostFirst /\ ~wantTty /\ Told /\ SessionInv /\ GInv'
    BY <2>1 DEF Kept, OnPipes, SessionInv
  <2>3. CASE HostKinds /\ UNCHANGED guestVars
    BY <1>2, <2>1, <2>2, <2>3, HostKeepsTold DEF Kept
  <2>4. CASE GuestStepOf
    BY <2>1, <2>2, <2>4, GuestKeepsGuest, GuestKeepsTold DEF Kept
  <2> QED
    BY <2>2, <2>3, <2>4, SessionSteps
<1>4. Kept /\ Kept' /\ [Next]_vars => [IO!Next]_(IO!ioVars)
  BY StepPromise
<1> QED
  BY <1>1, <1>3, <1>4, PTL DEF Spec, KeepsPromise, IO!Spec
=============================================================================
