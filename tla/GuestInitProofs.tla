-------------------------- MODULE GuestInitProofs --------------------------
(***************************************************************************)
(* Theorems about the loop of the guest, for every host, every application *)
(* and every bound on what they write and send.                            *)
(***************************************************************************)
EXTENDS GuestInitOpen, RpcTrafficProofs, FiniteSetTheorems

USE CapAssumption, GuestAssumption, PeerAssumption

(* What has left the guest: Sent is that and the rest of a packet.          *)
Out == seen \o toHost

(* What is said at which point of the handshake, and when the application   *)
(* has been started.                                                       *)
Handshaking ==
  /\ gstate \in {"BOOT", "WAITING"} =>
       gtx = << >> /\ \A i \in 1 .. Len(Out) : Out[i] = Noise
  /\ gstate \in {"BOOT", "WAITING", "SYNCING"} => app = "none"
  /\ gstate = "RUNNING" => app # "none"
  /\ app = "none" => ~appOutEOF /\ ~appErrEOF /\ outWritten = 0

(* How the three ends of the application relate.  On pipes, nobody writes   *)
(* to a stream whose end was seen, and while only the exit is missing       *)
(* nothing is being sent that the report of it could replace.               *)
Endings ==
  /\ "app" \in zombies => app = "exited" /\ ~appQuit
  /\ appQuit => app = "exited"
  /\ ~wantTty => /\ appOutEOF => outPipe = << >> /\ holders["out"] = {}
                 /\ appErrEOF => errPipe = << >> /\ holders["err"] = {}
                 /\ OutputEnded /\ ~appQuit => gtx = << >>

(* What tx is: SYNC, a packet, or the second half of one.                   *)
Sends(proc, data) == proc \in {"STDOUT", "STDERR", "EXIT"} /\ Sendable(proc, data)

Sending ==
  \/ gtx = << >>
  \/ gtx = << Sync >>
  \/ \E proc, data : Sends(proc, data) /\ gtx = Packet(proc, data)
  \/ \E proc, data : Sends(proc, data) /\ gtx = << BodyUnit(proc, data) >>

(* Packets are whole, but for those whose rest EXIT replaced on a tty.      *)
Framed == CutOnlyByExit(Sent) /\ (CutsShort(Sent) => wantTty /\ appQuit)

(* SYNC is sent once; on pipes, nothing but the noise of the boot is sent   *)
(* before it.                                                              *)
SyncedOnce ==
  /\ \A i, j \in 1 .. Len(Sent) : Sent[i] = Sync /\ Sent[j] = Sync => i = j
  /\ ~wantTty =>
       /\ gstate \in {"SYNCING", "RUNNING"} \/ app # "none" =>
            \E i \in 1 .. Len(Sent) : Sent[i] = Sync
       /\ \A i \in 1 .. Len(Sent) :
            Sent[i].part # "byte" => \E j \in 1 .. Len(Sent) : Sent[j] = Sync /\ j < i

(* On pipes, EXIT is what is sent last, after all three ends.               *)
ExitEnds ==
  ~wantTty /\ ExitSent =>
    /\ appQuit /\ OutputEnded
    /\ \A i \in 1 .. Len(Sent) :
         Sent[i].proc = "EXIT" /\ Sent[i].part = "body" <=> i = Len(Sent)

(* Where the output is.  On pipes it is sent or still in its pipe, in every *)
(* state; on a tty as long as the loop has neither closed the master nor    *)
(* seen its end.                                                           *)
OutputKept ==
  /\ ~wantTty => /\ DataOf("STDOUT", Sent) \o outPipe = Bytes(1, outWritten)
                 /\ DataOf("STDERR", Sent) \o errPipe = Bytes(1, errWritten)
  /\ wantTty => /\ IsPrefix(DataOf("STDOUT", Sent), Bytes(1, outWritten))
                /\ appin /\ ~appOutEOF =>
                     DataOf("STDOUT", Sent) \o outPipe = Bytes(1, outWritten)
                /\ ~appin => outPipe = << >>

GuestInv == /\ TypeOK /\ wantTty \in BOOLEAN /\ Handshaking /\ Endings
            /\ Sending /\ Framed /\ SyncedOnce /\ ExitEnds /\ OutputKept
-----------------------------------------------------------------------------
(* The types.                                                              *)

Typed == TypeOK /\ wantTty \in BOOLEAN

Peerless == UNCHANGED << peerSent, seen >>

(* The guest starts with empty buffers and pipes.                          *)
LEMMA InitTyped == ASSUME Init PROVE Typed
<1>1. /\ << >> \in Seq(Nat) /\ << >> \in Seq(Unit)
      /\ 0 \in 0 .. PeerMax /\ 0 \in 0 .. OutTotal /\ 0 \in 0 .. ErrTotal
  OBVIOUS
<1>2. holders \in [Streams -> SUBSET {"app", "orphan"}]
  BY DEF Init, GuestInitial
<1>3. wantTty \in BOOLEAN /\ zombies \subseteq {"app", "orphan"}
  BY DEF Init, GuestInitial
<1> QED
  BY <1>1, <1>2, <1>3 DEF Init, GuestInitial, Typed, TypeOK, RxBuffer, TxBuffer, ChannelTypeOK

(* The first bytes of a pipe, and those that stay in it.                    *)
LEMMA Cut ==
  ASSUME NEW s \in Seq(Nat), NEW n \in 1 .. Len(s)
  PROVE  /\ SubSeq(s, 1, n) \in Seq(Nat) /\ SubSeq(s, 1, n) # << >>
         /\ SubSeq(s, n + 1, Len(s)) \in Seq(Nat)
         /\ SubSeq(s, 1, n) \o SubSeq(s, n + 1, Len(s)) = s
<1> DEFINE a == SubSeq(s, 1, n)
           b == SubSeq(s, n + 1, Len(s))
<1>1. /\ a \in Seq(Nat) /\ Len(a) = n /\ \A i \in 1 .. n : a[i] = s[i]
  OBVIOUS
<1>2. /\ b \in Seq(Nat) /\ Len(b) = Len(s) - n
      /\ \A i \in 1 .. Len(s) - n : b[i] = s[n + i]
  OBVIOUS
<1>3. a # << >>
  BY <1>1
<1> HIDE DEF a, b
<1>4. a \in Seq(Nat) /\ b \in Seq(Nat)
  BY <1>1, <1>2
<1>5. /\ a \o b \in Seq(Nat) /\ Len(a \o b) = Len(a) + Len(b)
      /\ \A i \in 1 .. Len(a) : (a \o b)[i] = a[i]
      /\ \A i \in 1 .. Len(b) : (a \o b)[Len(a) + i] = b[i]
  BY <1>4, ConcatIs
<1>6. Len(a \o b) = Len(s)
  BY <1>1, <1>2, <1>5
<1>7. ASSUME NEW i \in 1 .. Len(s) PROVE (a \o b)[i] = s[i]
  <2>1. CASE i <= n
    BY <1>1, <1>5, <2>1
  <2>2. CASE ~(i <= n)
    <3> DEFINE k == i - n
    <3>1. k \in 1 .. Len(b) /\ k \in 1 .. Len(s) - n /\ i = Len(a) + k /\ i = n + k
      BY <1>1, <1>2, <2>2
    <3> HIDE DEF k
    <3>2. (a \o b)[Len(a) + k] = b[k]
      BY ONLY <1>5, <3>1
    <3>3. b[k] = s[n + k]
      BY ONLY <1>2, <3>1
    <3> QED
      BY ONLY <3>1, <3>2, <3>3
  <2> QED
    BY <2>1, <2>2
<1>8. a \o b = s
  BY <1>5, <1>6, <1>7, SeqEqual
<1> QED
  BY <1>1, <1>2, <1>3, <1>8 DEF a, b

(* The sync byte fits the transmit buffer.                                 *)
LEMMA SyncTyped == << Sync >> \in TxBuffer
BY BytesTyped DEF TxBuffer

(* What a read of a pipe returned can be sent.                             *)
LEMMA ChunkTyped ==
  ASSUME NEW proc \in {"STDOUT", "STDERR"}, NEW pipe \in Seq(Nat), NEW n \in 1 .. Len(pipe)
  PROVE  Sends(proc, SubSeq(pipe, 1, n))
BY Cut DEF Sends, Sendable, Procs

(* An exit status can be sent.                                             *)
LEMMA ExitTyped ==
  ASSUME NEW status \in Nat
  PROVE  /\ Sends("EXIT", << status >>)
         /\ ExitPacket(status) = Packet("EXIT", << status >>)
         /\ ExitPacket(status) \in TxBuffer
<1>1. Sends("EXIT", << status >>)
  BY DEF Sends, Sendable, Procs
<1>2. ExitPacket(status) = Packet("EXIT", << status >>)
  BY DEF ExitPacket
<1> QED
  BY <1>1, <1>2, PacketTyped DEF Sends, TxBuffer

(* What can be sent fits the transmit buffer.                              *)
LEMMA SendsTyped ==
  ASSUME NEW proc, NEW data, Sends(proc, data)
  PROVE  Packet(proc, data) \in TxBuffer
BY PacketTyped DEF Sends, TxBuffer

(* Starting up keeps types.                                                *)
LEMMA BootTyped == ASSUME Typed, Boot, Peerless PROVE Typed'
<1>1. /\ gstate' \in {"BOOT", "WAITING", "SYNCING", "RUNNING", "OFF"} /\ grx' \in RxBuffer
      /\ toGuest' \in Seq(Unit) /\ toHost' \in Seq(Unit)
  BY DEF Typed, TypeOK, Boot, RxBuffer, ChannelTypeOK
<1>2. UNCHANGED << wantTty, gtx, quit, hostToStdin, appin, appOutEOF, appErrEOF, appQuit,
                   exitstatus, appVars, peerSent, seen >>
  BY DEF Boot, Peerless
<1> QED
  BY ONLY <1>1, <1>2, Typed DEF Typed, TypeOK, appVars, ChannelTypeOK

(* The echo of the console keeps types.                                    *)
LEMMA EchoTyped == ASSUME Typed, Echo, Peerless PROVE Typed'
BY BytesTyped DEF Typed, TypeOK, Echo, guestVars, loopVars, appVars, Peerless, ChannelTypeOK

(* Ending the loop keeps types.                                            *)
LEMMA LeaveTyped ==
  ASSUME Typed, Leave, toGuest' \in Seq(Unit), toHost' \in Seq(Unit), Peerless PROVE Typed'
BY DEF Typed, TypeOK, Leave, appVars, Peerless, ChannelTypeOK

(* Collecting children keeps types.                                        *)
LEMMA ReapTyped == ASSUME Typed, Reap, Peerless PROVE Typed'
<1>1. exitstatus' \in Nat /\ appQuit' \in BOOLEAN /\ zombies' \subseteq {"app", "orphan"}
      /\ sigchld' \in BOOLEAN
  BY DEF Typed, TypeOK, Reap
<1>2. gtx' \in TxBuffer
  <2>1. ExitPacket(appStatus) \in TxBuffer
    BY ExitTyped DEF Typed, TypeOK
  <2> QED
    BY <2>1 DEF Typed, TypeOK, Reap
<1> QED
  BY <1>1, <1>2 DEF Typed, TypeOK, Reap, Peerless, ChannelTypeOK

(* What arrives is a unit and carries bytes.                               *)
LEMMA HeadTyped ==
  ASSUME Typed, toGuest # << >>
  PROVE  /\ Head(toGuest) \in Unit /\ Tail(toGuest) \in Seq(Unit)
         /\ Head(toGuest).data \in Seq(Nat)
<1>1. Head(toGuest) \in Unit /\ Tail(toGuest) \in Seq(Unit)
  BY DEF Typed, TypeOK, ChannelTypeOK
<1> QED
  BY <1>1 DEF Unit

(* Reading the console keeps types.                                        *)
LEMMA ReadHostTyped == ASSUME Typed, ReadHost, Peerless PROVE Typed'
<1> DEFINE u == Head(toGuest)
<1>1. u.data \in Seq(Nat) /\ toGuest' \in Seq(Unit) /\ toHost' = toHost
  BY HeadTyped DEF ReadHost
<1>2. toHost' \in Seq(Unit)
  BY <1>1 DEF Typed, TypeOK, ChannelTypeOK
<1>3. CASE ReadWait(u)
  BY <1>1, <1>2, <1>3, SyncTyped DEF Typed, TypeOK, ReadWait, appVars, Peerless, ChannelTypeOK
<1>4. CASE IgnoreWait(u)
  BY <1>1, <1>2, <1>4 DEF Typed, TypeOK, IgnoreWait, guestVars, loopVars, appVars, Peerless, ChannelTypeOK
<1>5. CASE ReadSync(u)
  BY <1>1, <1>2, <1>5 DEF Typed, TypeOK, ReadSync, RunCommand, Peerless, ChannelTypeOK, RxBuffer
<1>6. CASE RunCommandFails(u) \/ ReadBad(u)
  <2>1. Leave
    BY <1>6 DEF RunCommandFails, ReadBad
  <2> QED
    BY <1>1, <1>2, <2>1, LeaveTyped
<1>7. CASE ReadLength(u)
  BY <1>1, <1>2, <1>7 DEF Typed, TypeOK, ReadLength, appVars, Peerless, ChannelTypeOK, RxBuffer
<1>8. CASE ReadStdin(u)
  BY <1>1, <1>2, <1>8 DEF Typed, TypeOK, ReadStdin, appVars, Peerless, ChannelTypeOK, RxBuffer
<1>9. CASE ReadStdinEOF(u)
  BY <1>1, <1>2, <1>9 DEF Typed, TypeOK, ReadStdinEOF, Peerless, ChannelTypeOK, RxBuffer
<1>10. CASE ReadQuit(u)
  BY <1>1, <1>2, <1>10 DEF Typed, TypeOK, ReadQuit, appVars, Peerless, ChannelTypeOK, RxBuffer
<1> QED
  BY <1>3, <1>4, <1>5, <1>6, <1>7, <1>8, <1>9, <1>10 DEF ReadHost

(* Writing the console keeps types.                                        *)
LEMMA WriteHostTyped == ASSUME Typed, WriteHost, Peerless PROVE Typed'
<1>1. Head(gtx) \in Unit /\ Tail(gtx) \in Seq(Unit)
  BY DEF Typed, TypeOK, WriteHost, PollsHostOut, TxBuffer
<1>2. toHost' \in Seq(Unit) /\ gtx' \in TxBuffer
  BY <1>1 DEF Typed, TypeOK, WriteHost, TxBuffer, ChannelTypeOK
<1> QED
  BY <1>2 DEF Typed, TypeOK, WriteHost, appVars, Peerless, ChannelTypeOK

(* Writing the application's stdin keeps types.                            *)
LEMMA WriteStdinTyped == ASSUME Typed, WriteStdin, Peerless PROVE Typed'
<1>1. hostToStdin' \in Seq(Nat) /\ grx' \in RxBuffer /\ inPipe' \in Seq(Nat)
  <2>1. CASE holders["in"] = {}
    BY <2>1 DEF Typed, TypeOK, WriteStdin
  <2>2. CASE holders["in"] # {}
    <3>1. PICK n \in 1 .. Len(hostToStdin) :
            /\ inPipe' = inPipe \o SubSeq(hostToStdin, 1, n)
            /\ hostToStdin' = SubSeq(hostToStdin, n + 1, Len(hostToStdin))
            /\ grx' = IF n = Len(hostToStdin) THEN "length" ELSE grx
      BY <2>2 DEF WriteStdin
    <3>2. hostToStdin \in Seq(Nat) /\ inPipe \in Seq(Nat) /\ grx \in RxBuffer
      BY DEF Typed, TypeOK
    <3>3. SubSeq(hostToStdin, 1, n) \in Seq(Nat) /\ hostToStdin' \in Seq(Nat)
      BY <3>1, <3>2, Cut
    <3> QED
      BY <3>1, <3>2, <3>3, ConcatProperties DEF RxBuffer
  <2> QED
    BY <2>1, <2>2
<1> QED
  BY <1>1 DEF Typed, TypeOK, WriteStdin, Peerless, ChannelTypeOK

(* Reading the application's stdout keeps types.                           *)
LEMMA ReadAppOutTyped == ASSUME Typed, ReadAppOut, Peerless PROVE Typed'
<1>1. /\ outPipe' \in Seq(Nat) /\ gtx' \in TxBuffer
      /\ appOutEOF' \in BOOLEAN /\ appErrEOF' \in BOOLEAN
  <2>1. CASE /\ ReadsChunk("STDOUT", outPipe, outPipe')
             /\ UNCHANGED << appOutEOF, appErrEOF >>
    <3>1. PICK n \in 1 .. Len(outPipe) :
            /\ gtx' = Packet("STDOUT", SubSeq(outPipe, 1, n))
            /\ outPipe' = SubSeq(outPipe, n + 1, Len(outPipe))
      BY <2>1 DEF ReadsChunk
    <3>2. outPipe \in Seq(Nat)
      BY DEF Typed, TypeOK
    <3>3. Sends("STDOUT", SubSeq(outPipe, 1, n))
      BY <3>2, ChunkTyped
    <3>4. outPipe' \in Seq(Nat) /\ gtx' \in TxBuffer
      BY <3>1, <3>2, <3>3, Cut, SendsTyped
    <3> QED
      BY <2>1, <3>4 DEF Typed, TypeOK
  <2>2. CASE /\ appOutEOF' = TRUE
             /\ appErrEOF' = IF wantTty /\ appin THEN TRUE ELSE appErrEOF
             /\ gtx' = IF appErrEOF' /\ appQuit THEN ExitPacket(exitstatus) ELSE gtx
             /\ UNCHANGED outPipe
    <3>1. ExitPacket(exitstatus) \in TxBuffer
      BY ExitTyped DEF Typed, TypeOK
    <3> QED
      BY <2>2, <3>1 DEF Typed, TypeOK
  <2> QED
    BY <2>1, <2>2 DEF ReadAppOut
<1>2. UNCHANGED << wantTty, gstate, grx, quit, hostToStdin, appin, appQuit, exitstatus,
                   app, orphan, appStatus, orphanStatus, holders, inPipe,
                   errPipe, appRead, outWritten, errWritten, zombies, sigchld, writing,
                   toGuest, toHost >>
  BY DEF ReadAppOut
<1> QED
  BY ONLY <1>1, <1>2, Typed, Peerless DEF Typed, TypeOK, Peerless, ChannelTypeOK
(* Reading the application's stderr keeps types.                           *)
LEMMA ReadAppErrTyped == ASSUME Typed, ReadAppErr, Peerless PROVE Typed'
<1>1. errPipe' \in Seq(Nat) /\ gtx' \in TxBuffer /\ appErrEOF' \in BOOLEAN
  <2>1. CASE ReadsChunk("STDERR", errPipe, errPipe') /\ UNCHANGED appErrEOF
    <3>1. PICK n \in 1 .. Len(errPipe) :
            /\ gtx' = Packet("STDERR", SubSeq(errPipe, 1, n))
            /\ errPipe' = SubSeq(errPipe, n + 1, Len(errPipe))
      BY <2>1 DEF ReadsChunk
    <3>2. errPipe \in Seq(Nat)
      BY DEF Typed, TypeOK
    <3>3. Sends("STDERR", SubSeq(errPipe, 1, n))
      BY <3>2, ChunkTyped
    <3>4. errPipe' \in Seq(Nat) /\ gtx' \in TxBuffer
      BY <3>1, <3>2, <3>3, Cut, SendsTyped
    <3> QED
      BY <2>1, <3>4 DEF Typed, TypeOK
  <2>2. CASE /\ appErrEOF' = TRUE
             /\ gtx' = IF appOutEOF /\ appQuit THEN ExitPacket(exitstatus) ELSE gtx
             /\ UNCHANGED errPipe
    <3>1. ExitPacket(exitstatus) \in TxBuffer
      BY ExitTyped DEF Typed, TypeOK
    <3> QED
      BY <2>2, <3>1 DEF Typed, TypeOK
  <2> QED
    BY <2>1, <2>2 DEF ReadAppErr
<1> QED
  BY <1>1 DEF Typed, TypeOK, ReadAppErr, Peerless, ChannelTypeOK

(* A hangup of the terminal keeps types.                                   *)
LEMMA MasterHangupTyped == ASSUME Typed, MasterHangup, Peerless PROVE Typed'
<1>1. outPipe' \in Seq(Nat) /\ gtx' \in TxBuffer
  <2>1. CASE ReadsChunk("STDOUT", outPipe, outPipe')
    <3>1. PICK n \in 1 .. Len(outPipe) :
            /\ gtx' = Packet("STDOUT", SubSeq(outPipe, 1, n))
            /\ outPipe' = SubSeq(outPipe, n + 1, Len(outPipe))
      BY <2>1 DEF ReadsChunk
    <3>2. outPipe \in Seq(Nat)
      BY DEF Typed, TypeOK
    <3>3. Sends("STDOUT", SubSeq(outPipe, 1, n))
      BY <3>2, ChunkTyped
    <3> QED
      BY <3>1, <3>2, <3>3, Cut, SendsTyped
  <2>2. CASE /\ gtx' = IF appQuit THEN ExitPacket(exitstatus) ELSE gtx
             /\ UNCHANGED outPipe
    <3>1. ExitPacket(exitstatus) \in TxBuffer
      BY ExitTyped DEF Typed, TypeOK
    <3> QED
      BY <2>2, <3>1 DEF Typed, TypeOK
  <2> QED
    BY <2>1, <2>2 DEF MasterHangup
<1> QED
  BY <1>1 DEF Typed, TypeOK, MasterHangup, Peerless, ChannelTypeOK

(* Every step of the loop keeps types.                                     *)
LEMMA LoopTyped == ASSUME Typed, Loop, Peerless PROVE Typed'
<1>1. CASE HostFails \/ LeaveLoop
  <2>1. Leave /\ toGuest' = toGuest /\ toHost' = toHost
    BY <1>1 DEF HostFails, LeaveLoop
  <2>2. toGuest' \in Seq(Unit) /\ toHost' \in Seq(Unit)
    BY <2>1 DEF Typed, TypeOK, ChannelTypeOK
  <2> QED
    BY <2>1, <2>2, LeaveTyped
<1> QED
  BY <1>1, ReapTyped, ReadHostTyped, WriteHostTyped, WriteStdinTyped, ReadAppOutTyped,
     ReadAppErrTyped, MasterHangupTyped DEF Loop

(* What the application and its offspring do leaves the loop and the        *)
(* channel alone.                                                          *)
LEMMA AppAlone ==
  ASSUME App PROVE UNCHANGED << loopVars, toGuest, toHost >>
BY DEF App, AppRead, AppWriteOut, AppWriteErr, AppExits, OrphanExits, AppClose, AppForks

(* Whoever ends lets go of the pipes; nobody new takes hold of one.        *)
LEMMA HoldersTyped ==
  ASSUME Typed, App PROVE holders' \in [Streams -> SUBSET {"app", "orphan"}]
<1>1. holders \in [Streams -> SUBSET {"app", "orphan"}]
  BY DEF Typed, TypeOK
<1>2. CASE AppRead \/ AppWriteOut \/ AppWriteErr
  BY <1>1, <1>2 DEF AppRead, AppWriteOut, AppWriteErr
<1>3. CASE AppExits
  BY <1>1, <1>3 DEF AppExits
<1>4. CASE OrphanExits
  BY <1>1, <1>4 DEF OrphanExits
<1>5. ASSUME NEW s \in Streams, AppClose(s)
      PROVE  holders' \in [Streams -> SUBSET {"app", "orphan"}]
  BY <1>1, <1>5 DEF AppClose
<1>6. ASSUME NEW keepsStdio \in BOOLEAN, AppForks(keepsStdio)
      PROVE  holders' \in [Streams -> SUBSET {"app", "orphan"}]
  <2>1. CASE keepsStdio
    BY <1>1, <1>6, <2>1 DEF AppForks
  <2>2. CASE ~keepsStdio
    BY <1>1, <1>6, <2>2 DEF AppForks
  <2> QED
    BY <2>1, <2>2
<1> QED
  BY <1>2, <1>3, <1>4, <1>5, <1>6 DEF App

(* What the application does keeps types.                                  *)
LEMMA AppTyped == ASSUME Typed, App, Peerless PROVE Typed'
<1>1. UNCHANGED << loopVars, toGuest, toHost >>
      /\ holders' \in [Streams -> SUBSET {"app", "orphan"}]
  BY AppAlone, HoldersTyped
<1>2. CASE AppRead
  BY <1>1, <1>2, ConcatProperties DEF Typed, TypeOK, AppRead, Peerless, ChannelTypeOK, loopVars
<1>3. CASE AppWriteOut
  <2>1. outWritten + 1 \in 0 .. OutTotal /\ outWritten + 1 \in Nat
    BY <1>3 DEF Typed, TypeOK, AppWriteOut
  <2>2. outPipe' \in Seq(Nat)
    BY <1>3, <2>1 DEF Typed, TypeOK, AppWriteOut
  <2> QED
    BY <1>1, <1>3, <2>1, <2>2 DEF Typed, TypeOK, AppWriteOut, Peerless, ChannelTypeOK, loopVars
<1>4. CASE AppWriteErr
  <2>1. errWritten + 1 \in 0 .. ErrTotal /\ errWritten + 1 \in Nat
    BY <1>4 DEF Typed, TypeOK, AppWriteErr
  <2>2. errPipe' \in Seq(Nat)
    BY <1>4, <2>1 DEF Typed, TypeOK, AppWriteErr
  <2> QED
    BY <1>1, <1>4, <2>1, <2>2 DEF Typed, TypeOK, AppWriteErr, Peerless, ChannelTypeOK, loopVars
<1>5. CASE AppExits
  <2>1. /\ app' \in {"none", "running", "exited"} /\ {sigchld, writing}' \subseteq BOOLEAN
        /\ appStatus' \in Nat /\ zombies' \subseteq {"app", "orphan"}
    BY <1>5 DEF Typed, TypeOK, AppExits, Interrupt
  <2>2. UNCHANGED << orphan, orphanStatus, inPipe, outPipe, errPipe, appRead, outWritten,
                     errWritten >>
    BY <1>5 DEF AppExits
  <2> QED
    BY <1>1, <2>1, <2>2 DEF Typed, TypeOK, Peerless, ChannelTypeOK, loopVars
<1>6. CASE OrphanExits
  <2>1. /\ orphan' \in {"none", "running", "exited"} /\ {sigchld, writing}' \subseteq BOOLEAN
        /\ orphanStatus' \in Nat /\ zombies' \subseteq {"app", "orphan"}
    BY <1>6 DEF Typed, TypeOK, OrphanExits, Interrupt
  <2>2. UNCHANGED << app, appStatus, inPipe, outPipe, errPipe, appRead, outWritten, errWritten >>
    BY <1>6 DEF OrphanExits
  <2> QED
    BY <1>1, <2>1, <2>2 DEF Typed, TypeOK, Peerless, ChannelTypeOK, loopVars
<1>7. ASSUME NEW s \in Streams, AppClose(s) PROVE Typed'
  BY <1>1, <1>7 DEF Typed, TypeOK, AppClose, Peerless, ChannelTypeOK, loopVars
<1>8. ASSUME NEW keepsStdio \in BOOLEAN, AppForks(keepsStdio) PROVE Typed'
  BY <1>1, <1>8 DEF Typed, TypeOK, AppForks, Peerless, ChannelTypeOK, loopVars
<1> QED
  BY <1>2, <1>3, <1>4, <1>5, <1>6, <1>7, <1>8 DEF App

(* What the host end does keeps types.                                     *)
LEMMA PeerTyped == ASSUME Typed, PeerSend \/ PeerReceive PROVE Typed'
<1>1. CASE PeerSend
  <2>1. peerSent \in Nat /\ peerSent' \in 0 .. PeerMax
    BY <1>1 DEF Typed, TypeOK, PeerSend
  <2>2. ASSUME NEW m \in Messages PROVE m \in Seq(Unit)
    <3>1. /\ Sendable("QUIT", << >>) /\ Sendable("EXIT", << 0 >>)
          /\ Sendable("STDIN", << >>) /\ Sendable("STDIN", << peerSent >>)
          /\ Sendable("STDIN", << peerSent, peerSent + 1 >>)
      BY <2>1 DEF Sendable, Procs
    <3>2. /\ Packet("QUIT", << >>) \in Seq(Unit) /\ Packet("EXIT", << 0 >>) \in Seq(Unit)
          /\ Packet("STDIN", << >>) \in Seq(Unit)
          /\ Packet("STDIN", << peerSent >>) \in Seq(Unit)
          /\ Packet("STDIN", << peerSent, peerSent + 1 >>) \in Seq(Unit)
      BY <3>1, PacketTyped
    <3>3. /\ << Wait >> \in Seq(Unit) /\ << Sync >> \in Seq(Unit)
          /\ << Noise >> \in Seq(Unit)
      BY BytesTyped
    <3> QED
      BY <3>2, <3>3 DEF Messages
  <2>3. toGuest' \in Seq(Unit)
    BY <1>1, <2>2, ConcatProperties DEF Typed, TypeOK, ChannelTypeOK, PeerSend
  <2> QED
    BY <1>1, <2>1, <2>3 DEF Typed, TypeOK, PeerSend, guestVars, loopVars, appVars, ChannelTypeOK
<1>2. CASE PeerReceive
  <2>1. Head(toHost) \in Unit /\ Tail(toHost) \in Seq(Unit)
    BY <1>2 DEF Typed, TypeOK, ChannelTypeOK, PeerReceive
  <2> QED
    BY <1>2, <2>1 DEF Typed, TypeOK, PeerReceive, guestVars, loopVars, appVars, ChannelTypeOK
<1> QED
  BY <1>1, <1>2

(* Every step keeps types.                                                 *)
LEMMA NextTyped == ASSUME Typed, [Next]_vars PROVE Typed'
<1>1. CASE GuestNext /\ Peerless
  BY <1>1, BootTyped, EchoTyped, LoopTyped, AppTyped DEF GuestNext
<1>2. CASE UNCHANGED vars
  BY <1>2 DEF Typed, TypeOK, vars, guestVars, loopVars, appVars, ChannelTypeOK
<1> QED
  BY <1>1, <1>2, PeerTyped DEF Next, Peerless

(* Every variable keeps its type.  No unit that leaves the guest is          *)
(* anything but a handshake byte or a half of a packet, whatever the host   *)
(* sends.                                                                  *)
THEOREM TypeCorrect == Spec => []TypeOK
<1>1. Init => Typed
  BY InitTyped
<1>2. Typed /\ [Next]_vars => Typed'
  BY NextTyped
<1>3. Typed => TypeOK
  BY DEF Typed
<1> QED
  BY <1>1, <1>2, <1>3, PTL DEF Spec
-----------------------------------------------------------------------------
(* What a step may do to what is sent.                                      *)

Still   == Out' = Out /\ gtx' = gtx
Echoes  == gstate = "BOOT" /\ Out' = Append(Out, Noise) /\ gtx' = gtx
Passes  == gtx # << >> /\ Out' = Append(Out, Head(gtx)) /\ gtx' = Tail(gtx)
Answers == /\ gstate = "WAITING" /\ gstate' = "SYNCING"
           /\ Out' = Out /\ gtx' = << Sync >>

Replies(proc, data) ==
  /\ app # "none" /\ Out' = Out
  /\ Sends(proc, data) /\ gtx' = Packet(proc, data)

SendsOut(n) ==
  /\ Replies("STDOUT", SubSeq(outPipe, 1, n))
  /\ gtx = << >> /\ ~appOutEOF
  /\ outPipe' = SubSeq(outPipe, n + 1, Len(outPipe))
  /\ UNCHANGED << errPipe, outWritten, errWritten, appin >>

SendsErr(n) ==
  /\ Replies("STDERR", SubSeq(errPipe, 1, n))
  /\ gtx = << >> /\ ~appErrEOF /\ ~wantTty
  /\ errPipe' = SubSeq(errPipe, n + 1, Len(errPipe))
  /\ UNCHANGED << outPipe, outWritten, errWritten, appin >>

SendsExit(status) ==
  /\ Replies("EXIT", << status >>)
  /\ appQuit' /\ OutputEnded'
  /\ ~wantTty => gtx = << >> /\ ~(appQuit /\ OutputEnded)
  /\ UNCHANGED << outPipe, errPipe, outWritten, errWritten, appin >>

Kinds ==
  \/ Still \/ Echoes \/ Passes \/ Answers
  \/ \E n \in 1 .. Len(outPipe) : SendsOut(n)
  \/ \E n \in 1 .. Len(errPipe) : SendsErr(n)
  \/ \E status \in Nat : SendsExit(status)

(* All that was sent is what left the guest and what waits to leave.       *)
LEMMA SentTyped ==
  ASSUME Typed
  PROVE  /\ Out \in Seq(Unit) /\ gtx \in Seq(Unit) /\ Sent \in Seq(Unit)
         /\ Sent = Out \o gtx
<1>1. seen \in Seq(Unit) /\ toHost \in Seq(Unit) /\ gtx \in Seq(Unit)
  BY DEF Typed, TypeOK, ChannelTypeOK, TxBuffer
<1>2. Out \in Seq(Unit)
  BY <1>1, ConcatProperties DEF Out
<1>3. Sent = Out \o gtx
  BY DEF Sent, Out
<1> QED
  BY <1>1, <1>2, <1>3, ConcatProperties

(* Nothing leaves the guest while neither the channel nor the host moves.  *)
LEMMA StaysOut ==
  ASSUME UNCHANGED << toHost, seen >> PROVE Out' = Out
BY DEF Out

(* The echo puts a byte on the channel that the guest did not send.        *)
LEMMA EchoKind == ASSUME Typed, Echo, Peerless PROVE Echoes
<1>1. seen \o Append(toHost, Noise) = Append(seen \o toHost, Noise)
  <2>1. seen \in Seq(Unit) /\ toHost \in Seq(Unit) /\ Noise \in Unit
    BY BytesTyped DEF Typed, TypeOK, ChannelTypeOK
  <2> QED
    BY <2>1, ConcatAppend
<1>2. Out' = seen \o Append(toHost, Noise)
  BY DEF Out, Echo, Peerless
<1>3. gstate = "BOOT" /\ gtx' = gtx
  BY DEF Echo, guestVars, loopVars
<1> QED
  BY <1>1, <1>2, <1>3 DEF Echoes, Out

(* Writing the console passes on the head of the buffer.                   *)
LEMMA WriteKind == ASSUME Typed, WriteHost, Peerless PROVE Passes
<1> DEFINE u == Head(gtx)
<1>1. gtx # << >> /\ u \in Unit /\ gtx' = Tail(gtx) /\ toHost' = Append(toHost, u)
  BY DEF Typed, TypeOK, WriteHost, PollsHostOut, TxBuffer
<1> HIDE DEF u
<1>2. seen \o Append(toHost, u) = Append(seen \o toHost, u)
  <2>1. seen \in Seq(Unit) /\ toHost \in Seq(Unit) /\ u \in Unit
    BY <1>1 DEF Typed, TypeOK, ChannelTypeOK
  <2> QED
    BY <2>1, ConcatAppend
<1>3. Out' = seen \o Append(toHost, u)
  BY <1>1 DEF Out, Peerless
<1> QED
  BY <1>1, <1>2, <1>3 DEF Passes, Out, u

(* What the host end does sends nothing of the guest's.                    *)
LEMMA PeerKind == ASSUME Typed, PeerSend \/ PeerReceive PROVE Still
<1>1. gtx' = gtx
  BY DEF PeerSend, PeerReceive, guestVars, loopVars
<1>2. CASE PeerSend
  BY <1>1, <1>2, StaysOut DEF PeerSend, Still
<1>3. CASE PeerReceive
  <2>1. Append(seen, Head(toHost)) \o Tail(toHost) = seen \o toHost
    <3>1. seen \in Seq(Unit) /\ toHost \in Seq(Unit) /\ toHost # << >>
      BY <1>3 DEF Typed, TypeOK, ChannelTypeOK, PeerReceive
    <3> QED
      BY ONLY <3>1, MoveHead
  <2> QED
    BY <1>1, <1>3, <2>1 DEF PeerReceive, Still, Out
<1> QED
  BY <1>2, <1>3

(* Reading the console sends nothing or answers the handshake.             *)
LEMMA ReadHostKind == ASSUME Typed, ReadHost, Peerless PROVE Still \/ Answers
<1> DEFINE u == Head(toGuest)
<1>1. Out' = Out
  BY StaysOut DEF ReadHost, Peerless
<1>2. CASE ReadWait(u)
  BY <1>1, <1>2 DEF ReadWait, Answers
<1>3. CASE ~ReadWait(u)
  <2>1. gtx' = gtx
    BY <1>3 DEF ReadHost, IgnoreWait, ReadSync, RunCommandFails, ReadLength,
                ReadStdin, ReadStdinEOF, ReadQuit, ReadBad, Leave, guestVars, loopVars
  <2> QED
    BY <1>1, <2>1 DEF Still
<1> QED
  BY <1>2, <1>3

(* Collecting children sends nothing or the exit status.                   *)
LEMMA ReapKind ==
  ASSUME Typed, Endings, Reap, Peerless
  PROVE  Still \/ \E status \in Nat : SendsExit(status)
<1>1. Out' = Out
  BY StaysOut DEF Reap, Peerless
<1>2. CASE "app" \in zombies /\ OutputEnded
  <2>1. appStatus \in Nat
    BY DEF Typed, TypeOK
  <2>2. gtx' = Packet("EXIT", << appStatus >>) /\ Sends("EXIT", << appStatus >>)
    BY <1>2, <2>1, ExitTyped DEF Reap
  <2>3. app # "none" /\ ~appQuit
    BY <1>2 DEF Endings, Reap
  <2>4. appQuit' /\ OutputEnded'
    BY <1>2 DEF Reap, OutputEnded
  <2>5. ~wantTty => gtx = << >>
    BY <1>2, <2>3 DEF Endings
  <2>6. UNCHANGED << outPipe, errPipe, outWritten, errWritten, appin >>
    BY DEF Reap
  <2>7. SendsExit(appStatus)
    BY <1>1, <2>2, <2>3, <2>4, <2>5, <2>6 DEF SendsExit, Replies
  <2> QED
    BY <2>1, <2>7
<1>3. CASE ~("app" \in zombies /\ OutputEnded)
  BY <1>1, <1>3 DEF Still, Reap
<1> QED
  BY <1>2, <1>3

(* Reading stdout sends what was read, the exit status or nothing.         *)
LEMMA ReadAppOutKind ==
  ASSUME Typed, Handshaking, ReadAppOut, Peerless
  PROVE  \/ Still
         \/ \E n \in 1 .. Len(outPipe) : SendsOut(n) /\ UNCHANGED << appOutEOF, appErrEOF >>
         \/ \E status \in Nat : SendsExit(status)
<1>1. /\ Out' = Out /\ gtx = << >> /\ ~appOutEOF /\ app # "none"
      /\ UNCHANGED << errPipe, outWritten, errWritten, appin, appQuit >>
  BY StaysOut DEF ReadAppOut, Peerless, PollsOut, Polls, Handshaking
<1>2. CASE ReadsChunk("STDOUT", outPipe, outPipe') /\ UNCHANGED << appOutEOF, appErrEOF >>
  <2>1. PICK n \in 1 .. Len(outPipe) :
          /\ gtx' = Packet("STDOUT", SubSeq(outPipe, 1, n))
          /\ outPipe' = SubSeq(outPipe, n + 1, Len(outPipe))
    BY <1>2 DEF ReadsChunk
  <2>2. Sends("STDOUT", SubSeq(outPipe, 1, n))
    BY ChunkTyped DEF Typed, TypeOK
  <2> QED
    BY <1>1, <1>2, <2>1, <2>2 DEF SendsOut, Replies
<1>3. CASE /\ appOutEOF' = TRUE
           /\ gtx' = IF appErrEOF' /\ appQuit THEN ExitPacket(exitstatus) ELSE gtx
           /\ UNCHANGED outPipe
  <2>1. CASE appErrEOF' /\ appQuit
    <3>1. exitstatus \in Nat
      BY DEF Typed, TypeOK
    <3>2. gtx' = Packet("EXIT", << exitstatus >>) /\ Sends("EXIT", << exitstatus >>)
      BY <1>3, <2>1, <3>1, ExitTyped
    <3>3. appQuit' /\ OutputEnded' /\ ~OutputEnded
      BY <1>1, <1>3, <2>1 DEF OutputEnded
    <3>4. SendsExit(exitstatus)
      BY <1>1, <1>3, <3>2, <3>3 DEF SendsExit, Replies
    <3> QED
      BY <3>1, <3>4
  <2>2. CASE ~(appErrEOF' /\ appQuit)
    BY <1>1, <1>3, <2>2 DEF Still
  <2> QED
    BY <2>1, <2>2
<1> QED
  BY <1>2, <1>3 DEF ReadAppOut

(* Reading stderr sends what was read, the exit status or nothing.         *)
LEMMA ReadAppErrKind ==
  ASSUME Typed, Handshaking, ReadAppErr, Peerless
  PROVE  \/ Still
         \/ \E n \in 1 .. Len(errPipe) : SendsErr(n) /\ UNCHANGED << appOutEOF, appErrEOF >>
         \/ \E status \in Nat : SendsExit(status)
<1>1. /\ Out' = Out /\ gtx = << >> /\ ~appErrEOF /\ app # "none" /\ ~wantTty
      /\ UNCHANGED << outPipe, outWritten, errWritten, appin, appQuit, appOutEOF >>
  BY StaysOut DEF ReadAppErr, Peerless, PollsErr, Polls, Handshaking
<1>2. CASE ReadsChunk("STDERR", errPipe, errPipe') /\ UNCHANGED appErrEOF
  <2>1. PICK n \in 1 .. Len(errPipe) :
          /\ gtx' = Packet("STDERR", SubSeq(errPipe, 1, n))
          /\ errPipe' = SubSeq(errPipe, n + 1, Len(errPipe))
    BY <1>2 DEF ReadsChunk
  <2>2. Sends("STDERR", SubSeq(errPipe, 1, n))
    BY ChunkTyped DEF Typed, TypeOK
  <2> QED
    BY <1>1, <1>2, <2>1, <2>2 DEF SendsErr, Replies
<1>3. CASE /\ appErrEOF' = TRUE
           /\ gtx' = IF appOutEOF /\ appQuit THEN ExitPacket(exitstatus) ELSE gtx
           /\ UNCHANGED errPipe
  <2>1. CASE appOutEOF /\ appQuit
    <3>1. exitstatus \in Nat
      BY DEF Typed, TypeOK
    <3>2. gtx' = Packet("EXIT", << exitstatus >>) /\ Sends("EXIT", << exitstatus >>)
      BY <1>3, <2>1, <3>1, ExitTyped
    <3>3. appQuit' /\ OutputEnded' /\ ~OutputEnded
      BY <1>1, <1>3, <2>1 DEF OutputEnded
    <3>4. SendsExit(exitstatus)
      BY <1>1, <1>3, <3>2, <3>3 DEF SendsExit, Replies
    <3> QED
      BY <3>1, <3>4
  <2>2. CASE ~(appOutEOF /\ appQuit)
    BY <1>1, <1>3, <2>2 DEF Still
  <2> QED
    BY <2>1, <2>2
<1> QED
  BY <1>2, <1>3 DEF ReadAppErr

(* A hangup sends what was left to read, the exit status or nothing.       *)
LEMMA MasterHangupKind ==
  ASSUME Typed, Handshaking, MasterHangup, Peerless
  PROVE  \/ Still
         \/ \E n \in 1 .. Len(outPipe) : SendsOut(n)
         \/ \E status \in Nat : SendsExit(status)
<1>1. /\ Out' = Out /\ app # "none" /\ wantTty
      /\ UNCHANGED << errPipe, outWritten, errWritten, appin, appQuit >>
      /\ OutputEnded'
  BY StaysOut DEF MasterHangup, Peerless, PollsStdin, Polls, Handshaking, OutputEnded
<1>2. CASE PollsOut /\ ReadsChunk("STDOUT", outPipe, outPipe')
  <2>1. PICK n \in 1 .. Len(outPipe) :
          /\ gtx' = Packet("STDOUT", SubSeq(outPipe, 1, n))
          /\ outPipe' = SubSeq(outPipe, n + 1, Len(outPipe))
    BY <1>2 DEF ReadsChunk
  <2>2. Sends("STDOUT", SubSeq(outPipe, 1, n))
    BY ChunkTyped DEF Typed, TypeOK
  <2>3. gtx = << >> /\ ~appOutEOF
    BY <1>2 DEF PollsOut
  <2> QED
    BY <1>1, <2>1, <2>2, <2>3 DEF SendsOut, Replies
<1>3. CASE /\ gtx' = IF appQuit THEN ExitPacket(exitstatus) ELSE gtx
           /\ UNCHANGED outPipe
  <2>1. CASE appQuit
    <3>1. exitstatus \in Nat
      BY DEF Typed, TypeOK
    <3>2. gtx' = Packet("EXIT", << exitstatus >>) /\ Sends("EXIT", << exitstatus >>)
      BY <1>3, <2>1, <3>1, ExitTyped
    <3>4. SendsExit(exitstatus)
      BY <1>1, <1>3, <2>1, <3>2 DEF SendsExit, Replies
    <3> QED
      BY <3>1, <3>4
  <2>2. CASE ~appQuit
    BY <1>1, <1>3, <2>2 DEF Still
  <2> QED
    BY <2>1, <2>2
<1> QED
  BY <1>2, <1>3 DEF MasterHangup

(* The other steps send nothing.                                           *)
LEMMA QuietKind ==
  ASSUME \/ Peerless /\ (Boot \/ HostFails \/ WriteStdin \/ LeaveLoop \/ App)
         \/ UNCHANGED vars
  PROVE  Still
<1>1. CASE Peerless /\ (Boot \/ HostFails \/ WriteStdin \/ LeaveLoop)
  BY <1>1, StaysOut DEF Peerless, Boot, HostFails, WriteStdin, LeaveLoop, Leave, Still
<1>2. CASE Peerless /\ App
  BY <1>2, AppAlone, StaysOut DEF Peerless, loopVars, Still
<1>3. CASE UNCHANGED vars
  BY <1>3, StaysOut DEF vars, guestVars, loopVars, Still
<1> QED
  BY <1>1, <1>2, <1>3

(* Every step does one of these things to what is sent.                    *)
LEMMA StepKinds == ASSUME Typed, Handshaking, Endings, [Next]_vars PROVE Kinds
<1>1. CASE Peerless /\ Loop
  <2>1. CASE Reap
    BY <1>1, <2>1, ReapKind DEF Kinds
  <2>2. CASE ReadHost \/ WriteHost
    BY <1>1, <2>2, ReadHostKind, WriteKind DEF Kinds
  <2>3. CASE ReadAppOut
    BY <1>1, <2>3, ReadAppOutKind DEF Kinds
  <2>4. CASE ReadAppErr
    BY <1>1, <2>4, ReadAppErrKind DEF Kinds
  <2>5. CASE MasterHangup
    BY <1>1, <2>5, MasterHangupKind DEF Kinds
  <2>6. CASE HostFails \/ WriteStdin \/ LeaveLoop
    BY <1>1, <2>6, QuietKind DEF Kinds
  <2> QED
    BY <1>1, <2>1, <2>2, <2>3, <2>4, <2>5, <2>6 DEF Loop
<1>2. CASE PeerSend \/ PeerReceive
  BY <1>2, PeerKind DEF Kinds
<1>3. CASE Peerless /\ Echo
  BY <1>3, EchoKind DEF Kinds
<1>4. CASE (Peerless /\ (Boot \/ App)) \/ UNCHANGED vars
  BY <1>4, QuietKind DEF Kinds
<1> QED
  BY <1>1, <1>2, <1>3, <1>4 DEF Next, GuestNext, Peerless
-----------------------------------------------------------------------------
(* The phases of the loop, and the ends of the application.                 *)

Begun == gstate \in {"SYNCING", "RUNNING"} \/ app # "none"

PhaseStep ==
  /\ gstate' \in {"BOOT", "WAITING"} => gstate \in {"BOOT", "WAITING"}
  /\ gstate' \in {"BOOT", "WAITING", "SYNCING"} => app' = "none"
  /\ gstate' = "RUNNING" => app' # "none"
  /\ app' = "none" => ~appOutEOF' /\ ~appErrEOF' /\ outWritten' = 0
  /\ Begun' => Begun \/ Answers
  /\ (appQuit => appQuit') /\ (OutputEnded => OutputEnded')
  /\ (appOutEOF => appOutEOF') /\ wantTty' = wantTty

(* Reading the console moves between the phases as PhaseStep says.         *)
LEMMA PhasesReadHost ==
  ASSUME Typed, Handshaking, ReadHost, Peerless PROVE PhaseStep
<1> DEFINE u == Head(toGuest)
<1>1. UNCHANGED << appQuit, appOutEOF, appErrEOF, outWritten, wantTty >>
  BY DEF ReadHost, ReadWait, IgnoreWait, ReadSync, RunCommandFails, ReadLength, ReadStdin,
         ReadStdinEOF, ReadQuit, ReadBad, Leave, guestVars, loopVars, appVars
<1>2. OutputEnded' = OutputEnded
  BY <1>1 DEF OutputEnded
<1>3. CASE ReadWait(u)
  <2>1. Out' = Out
    BY StaysOut DEF ReadHost, Peerless
  <2> QED
    BY <1>1, <1>2, <1>3, <2>1 DEF PhaseStep, ReadWait, Handshaking, appVars, Answers
<1>4. CASE ReadSync(u)
  BY <1>1, <1>2, <1>4 DEF PhaseStep, ReadSync, RunCommand, Handshaking, Begun
<1>5. CASE RunCommandFails(u) \/ ReadBad(u)
  BY <1>1, <1>2, <1>5 DEF PhaseStep, RunCommandFails, ReadBad, Leave, Handshaking, Begun, appVars
<1>6. CASE IgnoreWait(u) \/ ReadLength(u) \/ ReadStdin(u) \/ ReadStdinEOF(u) \/ ReadQuit(u)
  <2>1. gstate' = gstate /\ app' = app
    BY <1>6 DEF IgnoreWait, ReadLength, ReadStdin, ReadStdinEOF, ReadQuit, guestVars, loopVars, appVars
  <2> QED
    BY <1>1, <1>2, <2>1 DEF PhaseStep, Handshaking, Begun
<1> QED
  BY <1>3, <1>4, <1>5, <1>6 DEF ReadHost

(* So does every step of the loop.                                         *)
LEMMA PhasesLoop ==
  ASSUME Typed, Handshaking, Loop, Peerless PROVE PhaseStep
<1>1. CASE Reap
  BY <1>1 DEF Reap, PhaseStep, Handshaking, Begun, OutputEnded
<1>2. CASE WriteHost
  BY <1>2 DEF WriteHost, appVars, PhaseStep, Handshaking, Begun, OutputEnded
<1>3. CASE HostFails \/ LeaveLoop
  BY <1>3 DEF HostFails, LeaveLoop, Leave, appVars, PhaseStep, Handshaking, Begun, OutputEnded
<1>4. CASE WriteStdin
  BY <1>4 DEF WriteStdin, PhaseStep, Handshaking, Begun, OutputEnded
<1>5. CASE ReadAppOut
  <2>1. gstate = "RUNNING" /\ ~appOutEOF /\ UNCHANGED << gstate, app, appQuit, outWritten, wantTty >>
    BY <1>5 DEF ReadAppOut, PollsOut
  <2> QED
    BY <2>1 DEF PhaseStep, Handshaking, Begun, OutputEnded
<1>6. CASE ReadAppErr
  <2>1. /\ gstate = "RUNNING" /\ ~appErrEOF
        /\ UNCHANGED << gstate, app, appQuit, appOutEOF, outWritten, wantTty >>
    BY <1>6 DEF ReadAppErr, PollsErr
  <2> QED
    BY <2>1 DEF PhaseStep, Handshaking, Begun, OutputEnded
<1>7. CASE MasterHangup
  <2>1. /\ gstate = "RUNNING" /\ UNCHANGED << gstate, app, appQuit, outWritten, wantTty >>
        /\ appOutEOF' /\ appErrEOF'
    BY <1>7 DEF MasterHangup, PollsStdin
  <2> QED
    BY <2>1 DEF PhaseStep, Handshaking, Begun, OutputEnded
<1> QED
  BY <1>1, <1>2, <1>3, <1>4, <1>5, <1>6, <1>7, PhasesReadHost DEF Loop

(* What the application does moves between no phases.                      *)
LEMMA PhasesApp ==
  ASSUME Typed, Handshaking, App, Peerless PROVE PhaseStep
<1>1. UNCHANGED << gstate, appQuit, appOutEOF, appErrEOF, wantTty >>
  BY AppAlone DEF loopVars
<1>2. OutputEnded' = OutputEnded
  BY <1>1 DEF OutputEnded
<1>3. app = "none" => app' = "none" /\ outWritten' = outWritten
  BY DEF App, AppRead, AppWriteOut, AppWriteErr, AppExits, OrphanExits, AppClose, AppForks, Writes
<1>4. app # "none" => app' # "none"
  BY DEF App, AppRead, AppWriteOut, AppWriteErr, AppExits, OrphanExits, AppClose, AppForks
<1> QED
  BY <1>1, <1>2, <1>3, <1>4 DEF PhaseStep, Handshaking, Begun

(* So does every step.                                                     *)
LEMMA Phases == ASSUME Typed, Handshaking, [Next]_vars PROVE PhaseStep
<1>1. CASE PeerSend \/ PeerReceive \/ UNCHANGED vars \/ (Peerless /\ Echo)
  <2>1. UNCHANGED << gstate, app, appQuit, appOutEOF, appErrEOF, outWritten, wantTty >>
    BY <1>1 DEF PeerSend, PeerReceive, Echo, vars, guestVars, loopVars, appVars
  <2> QED
    BY <2>1 DEF PhaseStep, Handshaking, Begun, OutputEnded
<1>2. CASE Peerless /\ Boot
  BY <1>2 DEF Boot, appVars, PhaseStep, Handshaking, Begun, OutputEnded
<1> QED
  BY <1>1, <1>2, PhasesLoop, PhasesApp DEF Next, GuestNext, Peerless

(* Every step keeps the facts about the handshake.                         *)
LEMMA HandshakingStep ==
  ASSUME Typed, Handshaking, Endings, [Next]_vars PROVE Handshaking'
<1>1. PhaseStep /\ Kinds
  BY Phases, StepKinds
<1>2. ASSUME gstate' \in {"BOOT", "WAITING"}
      PROVE  gtx' = << >> /\ \A i \in 1 .. Len(Out') : Out'[i] = Noise
  <2>1. gstate \in {"BOOT", "WAITING"}
    BY <1>1, <1>2 DEF PhaseStep
  <2>2. app = "none" /\ gtx = << >> /\ \A i \in 1 .. Len(Out) : Out[i] = Noise
    BY <2>1 DEF Handshaking
  <2>3. Still \/ Echoes
    BY <1>1, <1>2, <2>2 DEF Kinds, Passes, Answers, SendsOut, SendsErr, SendsExit, Replies
  <2>4. CASE Still
    BY <2>2, <2>4 DEF Still
  <2>5. CASE Echoes
    <3>1. /\ Len(Out) \in Nat /\ Len(Append(Out, Noise)) = Len(Out) + 1
          /\ \A i \in 1 .. Len(Out) : Append(Out, Noise)[i] = Out[i]
          /\ Append(Out, Noise)[Len(Out) + 1] = Noise
      BY AppendIs, SentTyped, BytesTyped
    <3>2. Out' = Append(Out, Noise) /\ gtx' = gtx
      BY <2>5 DEF Echoes
    <3>3. ASSUME NEW i \in 1 .. Len(Out) + 1 PROVE Append(Out, Noise)[i] = Noise
      <4>1. CASE i = Len(Out) + 1
        BY <3>1, <4>1
      <4>2. CASE i # Len(Out) + 1
        <5>1. i \in 1 .. Len(Out)
          BY <3>1, <4>2
        <5> QED
          BY <2>2, <3>1, <5>1
      <4> QED
        BY <4>1, <4>2
    <3> QED
      BY <2>2, <3>1, <3>2, <3>3
  <2> QED
    BY <2>3, <2>4, <2>5
<1> QED
  BY <1>1, <1>2 DEF Handshaking, PhaseStep

(* Reading the console keeps the facts about the ends of streams.          *)
LEMMA EndingsReadHost ==
  ASSUME Typed, Handshaking, Endings, ReadHost, Peerless PROVE Endings'
<1> DEFINE u == Head(toGuest)
<1>1. UNCHANGED << appQuit, appOutEOF, appErrEOF, wantTty, zombies, errPipe >>
  BY DEF ReadHost, ReadWait, IgnoreWait, ReadSync, RunCommandFails, ReadLength, ReadStdin,
         ReadStdinEOF, ReadQuit, ReadBad, Leave, guestVars, loopVars, appVars
<1>2. OutputEnded' = OutputEnded
  BY <1>1 DEF OutputEnded
<1>3. CASE ReadWait(u)
  <2>1. ~OutputEnded /\ UNCHANGED << app, outPipe, holders >>
    BY <1>3 DEF ReadWait, Handshaking, OutputEnded, appVars
  <2> QED
    BY <1>1, <1>2, <2>1 DEF Endings
<1>4. CASE ReadSync(u)
  <2>1. ~appOutEOF /\ ~appErrEOF /\ app = "none" /\ app' = "running" /\ gtx' = gtx
    BY <1>4 DEF ReadSync, RunCommand, Handshaking
  <2> QED
    BY <1>1, <1>2, <2>1 DEF Endings
<1>5. CASE ~ReadWait(u) /\ ~ReadSync(u)
  <2>1. UNCHANGED << gtx, app, holders >> /\ (outPipe' = outPipe \/ outPipe' = << >>)
    BY <1>5 DEF ReadHost, IgnoreWait, RunCommandFails, ReadLength, ReadStdin,
                ReadStdinEOF, ReadQuit, ReadBad, Leave, guestVars, loopVars, appVars
  <2> QED
    BY <1>1, <1>2, <2>1 DEF Endings
<1> QED
  BY <1>3, <1>4, <1>5

(* What the application does keeps them.                                   *)
LEMMA EndingsApp ==
  ASSUME Typed, Endings, App, Peerless PROVE Endings'
<1>1. UNCHANGED << gtx, appQuit, appOutEOF, appErrEOF, wantTty >>
  BY AppAlone DEF loopVars
<1>2. OutputEnded' = OutputEnded
  BY <1>1 DEF OutputEnded
<1>3. holders \in [Streams -> SUBSET {"app", "orphan"}] /\ "out" \in Streams /\ "err" \in Streams
  BY DEF Typed, TypeOK, Streams
<1>4. CASE AppRead
  BY <1>1, <1>2, <1>4 DEF Endings, AppRead
<1>5. CASE AppWriteOut
  BY <1>1, <1>2, <1>5 DEF Endings, AppWriteOut, Writes
<1>6. CASE AppWriteErr
  BY <1>1, <1>2, <1>6 DEF Endings, AppWriteErr, Writes
<1>7. CASE AppExits
  <2>1. holders["out"] = {} => holders'["out"] = {}
    BY <1>3, <1>7 DEF AppExits
  <2>2. holders["err"] = {} => holders'["err"] = {}
    BY <1>3, <1>7 DEF AppExits
  <2> QED
    BY <1>1, <1>2, <1>7, <2>1, <2>2 DEF Endings, AppExits
<1>8. CASE OrphanExits
  <2>1. holders["out"] = {} => holders'["out"] = {}
    BY <1>3, <1>8 DEF OrphanExits
  <2>2. holders["err"] = {} => holders'["err"] = {}
    BY <1>3, <1>8 DEF OrphanExits
  <2>3. "app" \in zombies' => "app" \in zombies
    BY <1>8 DEF OrphanExits
  <2>4. UNCHANGED << app, outPipe, errPipe >>
    BY <1>8 DEF OrphanExits
  <2> QED
    BY <1>1, <1>2, <2>1, <2>2, <2>3, <2>4 DEF Endings
<1>9. ASSUME NEW s \in Streams, AppClose(s) PROVE Endings'
  <2>1. holders["out"] = {} => holders'["out"] = {}
    BY <1>3, <1>9 DEF AppClose
  <2>2. holders["err"] = {} => holders'["err"] = {}
    BY <1>3, <1>9 DEF AppClose
  <2> QED
    BY <1>1, <1>2, <1>9, <2>1, <2>2 DEF Endings, AppClose
<1>10. ASSUME NEW keepsStdio \in BOOLEAN, AppForks(keepsStdio) PROVE Endings'
  <2>1. holders["out"] = {} => holders'["out"] = {}
    BY <1>3, <1>10 DEF AppForks
  <2>2. holders["err"] = {} => holders'["err"] = {}
    BY <1>3, <1>10 DEF AppForks
  <2> QED
    BY <1>1, <1>2, <1>10, <2>1, <2>2 DEF Endings, AppForks
<1> QED
  BY <1>4, <1>5, <1>6, <1>7, <1>8, <1>9, <1>10 DEF App

(* Every step of the loop keeps them.                                      *)
LEMMA EndingsLoop ==
  ASSUME Typed, Handshaking, Endings, Loop, Peerless PROVE Endings'
<1>1. CASE Reap
  BY <1>1 DEF Reap, Endings, OutputEnded
<1>2. CASE WriteHost
  <2>1. gtx # << >>
    BY <1>2 DEF WriteHost, PollsHostOut
  <2> QED
    BY <1>2, <2>1 DEF WriteHost, appVars, Endings, OutputEnded
<1>3. CASE HostFails \/ LeaveLoop
  BY <1>3 DEF HostFails, LeaveLoop, Leave, appVars, Endings, OutputEnded
<1>4. CASE WriteStdin
  BY <1>4 DEF WriteStdin, Endings, OutputEnded
<1>5. CASE ReadAppOut
  <2>1. /\ gtx = << >> /\ ~appOutEOF
        /\ UNCHANGED << zombies, app, appQuit, wantTty, holders, errPipe >>
    BY <1>5 DEF ReadAppOut, PollsOut
  <2>2. CASE ReadsChunk("STDOUT", outPipe, outPipe') /\ UNCHANGED << appOutEOF, appErrEOF >>
    BY <2>1, <2>2 DEF Endings, OutputEnded
  <2>3. CASE /\ outPipe = << >>
             /\ holders["out"] = {} \/ (wantTty /\ ~appin)
             /\ appOutEOF' = TRUE
             /\ appErrEOF' = IF wantTty /\ appin THEN TRUE ELSE appErrEOF
             /\ gtx' = IF appErrEOF' /\ appQuit THEN ExitPacket(exitstatus) ELSE gtx
             /\ UNCHANGED outPipe
    BY <2>1, <2>3 DEF Endings, OutputEnded
  <2> QED
    BY <1>5, <2>2, <2>3 DEF ReadAppOut
<1>6. CASE ReadAppErr
  <2>1. /\ gtx = << >> /\ ~appErrEOF
        /\ UNCHANGED << zombies, app, appQuit, wantTty, holders, outPipe, appOutEOF >>
    BY <1>6 DEF ReadAppErr, PollsErr
  <2>2. CASE ReadsChunk("STDERR", errPipe, errPipe') /\ UNCHANGED appErrEOF
    BY <2>1, <2>2 DEF Endings, OutputEnded
  <2>3. CASE /\ errPipe = << >> /\ holders["err"] = {}
             /\ appErrEOF' = TRUE
             /\ gtx' = IF appOutEOF /\ appQuit THEN ExitPacket(exitstatus) ELSE gtx
             /\ UNCHANGED errPipe
    BY <2>1, <2>3 DEF Endings, OutputEnded
  <2> QED
    BY <1>6, <2>2, <2>3 DEF ReadAppErr
<1>7. CASE MasterHangup
  <2>1. wantTty /\ UNCHANGED << zombies, app, appQuit, wantTty >>
    BY <1>7 DEF MasterHangup
  <2> QED
    BY <2>1 DEF Endings
<1> QED
  BY <1>1, <1>2, <1>3, <1>4, <1>5, <1>6, <1>7, EndingsReadHost DEF Loop

(* Every step keeps them.                                                  *)
LEMMA EndingsStep ==
  ASSUME Typed, Handshaking, Endings, [Next]_vars PROVE Endings'
<1>1. CASE PeerSend \/ PeerReceive \/ UNCHANGED vars \/ (Peerless /\ (Echo \/ Boot))
  <2>1. UNCHANGED << gtx, app, appQuit, appOutEOF, appErrEOF, zombies, outPipe, errPipe,
                     holders, wantTty >>
    BY <1>1 DEF PeerSend, PeerReceive, Echo, Boot, vars, guestVars, loopVars, appVars
  <2> QED
    BY <2>1 DEF Endings, OutputEnded
<1> QED
  BY <1>1, EndingsLoop, EndingsApp DEF Next, GuestNext, Peerless
-----------------------------------------------------------------------------
(* What is sent, and that packets are whole.                                *)

(* With an empty buffer all that was sent has left.                        *)
LEMMA SentNothing == ASSUME Typed, gtx = << >> PROVE Sent = Out
<1>1. Out \in Seq(Unit) /\ Sent = Out \o gtx
  BY SentTyped
<1> QED
  BY <1>1, ConcatEmptySeq

(* A step that sends nothing leaves what was sent.                         *)
LEMMA SentStill == ASSUME Typed, Typed', Still PROVE Sent' = Sent
<1>1. Sent = Out \o gtx /\ Sent' = Out' \o gtx'
  BY SentTyped DEF Sent, Out
<1> QED
  BY <1>1 DEF Still

(* Passing a unit on leaves what was sent.                                 *)
LEMMA SentPasses == ASSUME Typed, Typed', Passes PROVE Sent' = Sent
<1>1. Sent = Out \o gtx /\ Sent' = Out' \o gtx'
  BY DEF Sent, Out
<1>2. Out \in Seq(Unit) /\ gtx \in Seq(Unit)
  BY SentTyped
<1>3. Append(Out, Head(gtx)) \o Tail(gtx) = Out \o gtx
  BY <1>2, MoveHead DEF Passes
<1> QED
  BY <1>1, <1>3 DEF Passes

(* An echo is behind all that was sent, for the buffer is empty then.      *)
LEMMA SentEchoes ==
  ASSUME Typed, Typed', Handshaking, Echoes
  PROVE  Sent = Out /\ Sent' = Append(Out, Noise)
<1>1. gtx = << >> /\ gtx' = << >>
  BY DEF Handshaking, Echoes
<1>2. Sent = Out
  BY <1>1, SentNothing
<1>3. Sent' = Out' \o << >> /\ Out' = Append(Out, Noise)
  BY <1>1 DEF Sent, Out, Echoes
<1>4. Append(Out, Noise) \in Seq(Unit)
  BY SentTyped, BytesTyped, AppendIs
<1> QED
  BY <1>2, <1>3, <1>4, ConcatEmptySeq

(* The answer is behind all that was sent.                                 *)
LEMMA SentAnswers ==
  ASSUME Typed, Handshaking, Answers
  PROVE  Sent = Out /\ Sent' = Append(Out, Sync)
<1>1. gtx = << >>
  BY DEF Handshaking, Answers
<1>2. Sent = Out
  BY <1>1, SentNothing
<1>3. Sent' = Out \o << Sync >>
  BY DEF Sent, Out, Answers
<1>4. Out \o << Sync >> = Append(Out, Sync)
  BY SentTyped, BytesTyped, ConcatOne
<1> QED
  BY <1>2, <1>3, <1>4

(* A packet is behind all that has left.                                   *)
LEMMA SentReplies ==
  ASSUME NEW proc, NEW data, Replies(proc, data)
  PROVE  Sent' = Out \o Packet(proc, data)
BY DEF Sent, Out, Replies

(* Every step leaves a whole packet, its tail or nothing in the buffer.    *)
LEMMA SendingStep ==
  ASSUME Typed, Sending, Kinds PROVE Sending'
<1>1. CASE Still \/ Echoes
  BY <1>1 DEF Sending, Still, Echoes
<1>2. CASE Passes
  <2>1. CASE gtx = << Sync >>
    BY <1>2, <2>1 DEF Sending, Passes
  <2>2. ASSUME NEW proc, NEW data, Sends(proc, data), gtx = Packet(proc, data)
        PROVE  Sending'
    <3>1. gtx = << LengthUnit(proc), BodyUnit(proc, data) >>
      BY <2>2, PacketTyped DEF Sends
    <3>2. gtx' = << BodyUnit(proc, data) >>
      BY <1>2, <3>1 DEF Passes
    <3> QED
      BY <2>2, <3>2 DEF Sending
  <2>3. ASSUME NEW proc, NEW data, gtx = << BodyUnit(proc, data) >>
        PROVE  Sending'
    BY <1>2, <2>3 DEF Sending, Passes
  <2> QED
    BY <1>2, <2>1, <2>2, <2>3 DEF Sending, Passes
<1>3. CASE Answers
  BY <1>3 DEF Answers, Sending
<1>4. ASSUME NEW proc, NEW data, Replies(proc, data) PROVE Sending'
  BY <1>4 DEF Replies, Sending
<1> QED
  BY <1>1, <1>2, <1>3, <1>4 DEF Kinds, SendsOut, SendsErr, SendsExit

(* Every step cuts no packet, or it reports the exit on a tty.             *)
LEMMA FramedStep ==
  ASSUME Typed, Typed', Handshaking, Framed, Kinds, PhaseStep PROVE Framed'
<1>1. (appQuit => appQuit') /\ wantTty' = wantTty
  BY DEF PhaseStep
<1>2. CASE Still \/ Passes
  <2>1. Sent' = Sent
    BY <1>2, SentStill, SentPasses
  <2> QED
    BY <1>1, <2>1 DEF Framed
<1>3. ASSUME NEW u \in {Noise, Sync}, Sent = Out, Sent' = Append(Out, u) PROVE Framed'
  <2>1. Out \in Seq(Unit) /\ u \in Unit /\ u.part = "byte"
    BY SentTyped, BytesTyped
  <2>2. /\ CutOnlyByExit(Append(Out, u))
        /\ CutsShort(Append(Out, u)) => CutsShort(Out)
    BY <1>3, <2>1, CutByte DEF Framed
  <2> QED
    BY <1>1, <1>3, <2>2 DEF Framed
<1>4. CASE Echoes
  BY <1>3, <1>4, SentEchoes
<1>5. CASE Answers
  BY <1>3, <1>5, SentAnswers
<1>6. ASSUME NEW proc, NEW data, Replies(proc, data),
             gtx = << >> \/ (proc = "EXIT" /\ wantTty /\ appQuit')
      PROVE  Framed'
  <2>1. Out \in Seq(Unit) /\ gtx \in Seq(Unit) /\ Sendable(proc, data) /\ Sent = Out \o gtx
    BY <1>6, SentTyped DEF Replies, Sends
  <2>2. Sent' = Out \o Packet(proc, data)
    BY <1>6, SentReplies
  <2>3. /\ CutOnlyByExit(Out \o Packet(proc, data))
        /\ CutsShort(Out \o Packet(proc, data)) => CutsShort(Out \o gtx) \/ gtx # << >>
    BY <1>6, <2>1, CutPacket DEF Framed
  <2>4. CutsShort(Sent') => CutsShort(Sent) \/ (wantTty /\ appQuit')
    BY <1>6, <2>1, <2>2, <2>3
  <2> QED
    BY <1>1, <2>2, <2>3, <2>4 DEF Framed
<1> QED
  BY <1>2, <1>4, <1>5, <1>6 DEF Kinds, SendsOut, SendsErr, SendsExit
-----------------------------------------------------------------------------
(* SYNC.                                                                   *)

(* SyncedOnce, of any sequence of units and whether the handshake is over   *)
(* and the application on pipes.                                           *)
SyncedIn(s, begun, pipes) ==
  /\ \A i, j \in 1 .. Len(s) : s[i] = Sync /\ s[j] = Sync => i = j
  /\ pipes =>
       /\ begun => \E i \in 1 .. Len(s) : s[i] = Sync
       /\ \A i \in 1 .. Len(s) :
            s[i].part # "byte" => \E j \in 1 .. Len(s) : s[j] = Sync /\ j < i

(* SyncedOnce is SyncedIn of what was sent.                                *)
LEMMA SyncedOnceIs == SyncedOnce <=> SyncedIn(Sent, Begun, ~wantTty)
BY DEF SyncedOnce, SyncedIn, Begun

(* Noise before the sync byte is all a handshake may hold.                 *)
LEMMA SyncedNoise ==
  ASSUME NEW s \in Seq(Unit), \A i \in 1 .. Len(s) : s[i] = Noise, NEW pipes
  PROVE  /\ SyncedIn(Append(s, Noise), FALSE, pipes)
         /\ \A begun : SyncedIn(Append(s, Sync), begun, pipes)
<1> DEFINE n == Append(s, Noise)
           y == Append(s, Sync)
<1>1. /\ Len(s) \in Nat /\ Len(n) = Len(s) + 1 /\ Len(y) = Len(s) + 1
      /\ \A i \in 1 .. Len(s) : n[i] = s[i] /\ y[i] = s[i]
      /\ n[Len(s) + 1] = Noise /\ y[Len(s) + 1] = Sync
  BY AppendIs, BytesTyped
<1> HIDE DEF n, y
<1>2. \A i \in 1 .. Len(s) + 1 : i # Len(s) + 1 => i \in 1 .. Len(s)
  BY <1>1
<1>3. \A i \in 1 .. Len(n) : n[i] = Noise
  BY <1>1, <1>2
<1>4. \A i \in 1 .. Len(y) : y[i] = IF i = Len(s) + 1 THEN Sync ELSE Noise
  BY <1>1, <1>2
<1>5. Len(s) + 1 \in 1 .. Len(y)
  BY <1>1
<1>6. SyncedIn(n, FALSE, pipes)
  BY <1>3, BytesTyped DEF SyncedIn
<1>7. ASSUME NEW begun PROVE SyncedIn(y, begun, pipes)
  <2>1. \A i, j \in 1 .. Len(y) : y[i] = Sync /\ y[j] = Sync => i = j
    BY <1>4, BytesTyped
  <2>2. \E i \in 1 .. Len(y) : y[i] = Sync
    BY <1>4, <1>5
  <2>3. \A i \in 1 .. Len(y) : y[i].part = "byte"
    BY <1>4, BytesTyped
  <2> QED
    BY <2>1, <2>2, <2>3 DEF SyncedIn
<1> QED
  BY <1>6, <1>7 DEF n, y

(* A packet behind the sync byte keeps the handshake in one piece.         *)
LEMMA SyncedPacket ==
  ASSUME NEW u \in Seq(Unit), NEW t \in Seq(Unit), NEW proc, NEW data, Sendable(proc, data),
         NEW begun, NEW pipes, SyncedIn(u \o t, TRUE, pipes), pipes => t = << >>
  PROVE  SyncedIn(u \o Packet(proc, data), begun, pipes)
<1> DEFINE v == u \o Packet(proc, data)
           s == u \o t
<1>1. /\ v \in Seq(Unit) /\ Len(u) \in Nat /\ Len(v) = Len(u) + 2
      /\ \A i \in 1 .. Len(u) : v[i] = u[i]
      /\ v[Len(u) + 1] = LengthUnit(proc) /\ v[Len(u) + 2] = BodyUnit(proc, data)
  BY PacketAfter
<1>2. /\ Len(s) = Len(u) + Len(t) /\ Len(t) \in Nat
      /\ \A i \in 1 .. Len(u) : s[i] = u[i]
  BY ConcatIs
<1>3. pipes => s = u
  BY ConcatEmptySeq
<1> HIDE DEF v
<1>4. SyncedIn(s, TRUE, pipes)
  OBVIOUS
<1> HIDE DEF s
<1>5. LengthUnit(proc).part # "byte" /\ BodyUnit(proc, data).part # "byte"
  BY DEF LengthUnit, BodyUnit
<1>6. \A i \in 1 .. Len(v) : i \in 1 .. Len(u) \/ i = Len(u) + 1 \/ i = Len(u) + 2
  BY <1>1
<1>7. \A i \in 1 .. Len(v) : v[i] = Sync => i \in 1 .. Len(u)
  BY <1>1, <1>5, <1>6, BytesTyped
<1>8. \A i \in 1 .. Len(u) : i \in 1 .. Len(s) /\ i \in 1 .. Len(v)
  BY <1>1, <1>2
<1>9. \A i, j \in 1 .. Len(v) : v[i] = Sync /\ v[j] = Sync => i = j
  BY <1>1, <1>2, <1>4, <1>7, <1>8 DEF SyncedIn
<1>10. ASSUME pipes
       PROVE  /\ \E i \in 1 .. Len(v) : v[i] = Sync
              /\ \A i \in 1 .. Len(v) :
                   v[i].part # "byte" => \E j \in 1 .. Len(v) : v[j] = Sync /\ j < i
  <2>1. PICK k \in 1 .. Len(u) : u[k] = Sync
    BY <1>3, <1>4, <1>10 DEF SyncedIn
  <2>2. k \in 1 .. Len(v) /\ v[k] = Sync
    BY <1>1, <1>8, <2>1
  <2>3. ASSUME NEW i \in 1 .. Len(v), v[i].part # "byte"
        PROVE  \E j \in 1 .. Len(v) : v[j] = Sync /\ j < i
    <3>1. CASE i \in 1 .. Len(u)
      <4>1. u[i].part # "byte"
        BY <1>1, <2>3, <3>1
      <4>2. PICK j \in 1 .. Len(u) : u[j] = Sync /\ j < i
        BY <1>3, <1>4, <1>10, <3>1, <4>1 DEF SyncedIn
      <4> QED
        BY <1>1, <1>8, <4>2
    <3>2. CASE i \notin 1 .. Len(u)
      <4>1. k < i
        BY <1>1, <1>6, <3>2
      <4> QED
        BY <2>2, <4>1
    <3> QED
      BY <3>1, <3>2
  <2> QED
    BY <2>2, <2>3
<1>11. SyncedIn(v, begun, pipes)
  BY <1>9, <1>10 DEF SyncedIn
<1> QED
  BY <1>11 DEF v

(* Every step keeps the handshake in front of the packets.                 *)
LEMMA SyncedOnceStep ==
  ASSUME Typed, Typed', Handshaking, Endings, SyncedOnce, [Next]_vars
  PROVE  SyncedOnce'
<1>1. PhaseStep /\ Kinds
  BY Phases, StepKinds
<1>2. SyncedIn(Sent, Begun, ~wantTty) /\ (Begun' => Begun \/ Answers) /\ wantTty' = wantTty
  BY <1>1, SyncedOnceIs DEF PhaseStep
<1>3. SUFFICES SyncedIn(Sent', Begun', ~wantTty)
  <2>1. SyncedOnce' <=> SyncedIn(Sent', Begun', ~wantTty')
    BY DEF SyncedOnce, SyncedIn, Begun
  <2> QED
    BY <1>2, <1>3, <2>1
<1>4. CASE Answers
  <2>1. Sent' = Append(Out, Sync) /\ Out \in Seq(Unit)
        /\ \A i \in 1 .. Len(Out) : Out[i] = Noise
    BY <1>4, SentAnswers, SentTyped DEF Handshaking, Answers
  <2> QED
    BY <2>1, SyncedNoise
<1>5. CASE Echoes
  <2>1. Sent' = Append(Out, Noise) /\ Out \in Seq(Unit)
        /\ \A i \in 1 .. Len(Out) : Out[i] = Noise
    BY <1>5, SentEchoes, SentTyped DEF Handshaking, Echoes
  <2>2. Begun' = FALSE
    BY <1>2, <1>5 DEF Begun, Handshaking, Echoes, Answers
  <2> QED
    BY <2>1, <2>2, SyncedNoise
<1>6. CASE (Still \/ Passes) /\ ~Answers
  <2>1. Sent' = Sent
    BY <1>6, SentStill, SentPasses
  <2>2. Begun' => Begun
    BY <1>2, <1>6
  <2> QED
    BY <1>2, <2>1, <2>2 DEF SyncedIn
<1>7. ASSUME NEW proc, NEW data, Replies(proc, data), ~wantTty => gtx = << >>
      PROVE  SyncedIn(Sent', Begun', ~wantTty)
  <2>1. Begun = TRUE
    BY <1>7 DEF Replies, Begun
  <2>2. SyncedIn(Out \o gtx, TRUE, ~wantTty)
    BY <1>2, <2>1 DEF Sent, Out
  <2>3. Out \in Seq(Unit) /\ gtx \in Seq(Unit) /\ Sendable(proc, data)
    BY <1>7, SentTyped DEF Replies, Sends
  <2>4. SyncedIn(Out \o Packet(proc, data), Begun', ~wantTty)
    BY <1>7, <2>2, <2>3, SyncedPacket
  <2>5. Sent' = Out \o Packet(proc, data)
    BY <1>7, SentReplies
  <2> QED
    BY <2>4, <2>5
<1> QED
  BY <1>1, <1>4, <1>5, <1>6, <1>7 DEF Kinds, SendsOut, SendsErr, SendsExit
-----------------------------------------------------------------------------
(* EXIT.                                                                   *)

Reports(s) == \E i \in 1 .. Len(s) : s[i].proc = "EXIT"

(* The handshake reports no exit.                                          *)
LEMMA ReportsNoise ==
  ASSUME NEW s \in Seq(Unit), \A i \in 1 .. Len(s) : s[i] = Noise, NEW u \in {Noise, Sync}
  PROVE  ~Reports(Append(s, u))
<1> DEFINE v == Append(s, u)
<1>1. /\ Len(s) \in Nat /\ Len(v) = Len(s) + 1
      /\ \A i \in 1 .. Len(s) : v[i] = s[i]
      /\ v[Len(s) + 1] = u
  BY AppendIs, BytesTyped
<1> HIDE DEF v
<1>2. \A i \in 1 .. Len(s) + 1 : i # Len(s) + 1 => i \in 1 .. Len(s)
  BY <1>1
<1>3. \A i \in 1 .. Len(v) : v[i] \in {Noise, Sync}
  BY <1>1, <1>2
<1>4. ~Reports(v)
  BY <1>3, BytesTyped DEF Reports
<1> QED
  BY <1>4 DEF v

(* A packet of output reports no exit.                                     *)
LEMMA ReportsOutput ==
  ASSUME NEW s \in Seq(Unit), ~Reports(s), NEW proc, NEW data, Sendable(proc, data),
         proc # "EXIT"
  PROVE  ~Reports(s \o Packet(proc, data))
<1> DEFINE v == s \o Packet(proc, data)
<1>1. /\ v \in Seq(Unit) /\ Len(s) \in Nat /\ Len(v) = Len(s) + 2
      /\ \A i \in 1 .. Len(s) : v[i] = s[i]
      /\ v[Len(s) + 1] = LengthUnit(proc) /\ v[Len(s) + 2] = BodyUnit(proc, data)
  BY PacketAfter
<1> HIDE DEF v
<1>2. \A i \in 1 .. Len(v) : i \in 1 .. Len(s) \/ i = Len(s) + 1 \/ i = Len(s) + 2
  BY <1>1
<1>3. ~Reports(v)
  BY <1>1, <1>2 DEF Reports, LengthUnit, BodyUnit
<1> QED
  BY <1>3 DEF v

(* The exit packet makes the last unit report the exit, and no other.      *)
LEMMA ReportsExit ==
  ASSUME NEW s \in Seq(Unit), ~Reports(s), NEW data, Sendable("EXIT", data)
  PROVE  LET v == s \o Packet("EXIT", data)
         IN  \A i \in 1 .. Len(v) :
               v[i].proc = "EXIT" /\ v[i].part = "body" <=> i = Len(v)
<1> DEFINE v == s \o Packet("EXIT", data)
<1>1. /\ v \in Seq(Unit) /\ Len(s) \in Nat /\ Len(v) = Len(s) + 2
      /\ \A i \in 1 .. Len(s) : v[i] = s[i]
      /\ v[Len(s) + 1] = LengthUnit("EXIT") /\ v[Len(s) + 2] = BodyUnit("EXIT", data)
  BY PacketAfter
<1> HIDE DEF v
<1>2. \A i \in 1 .. Len(v) : i \in 1 .. Len(s) \/ i = Len(s) + 1 \/ i = Len(s) + 2
  BY <1>1
<1>3. \A i \in 1 .. Len(s) : s[i].proc # "EXIT"
  BY DEF Reports
<1>4. ASSUME NEW i \in 1 .. Len(v)
      PROVE  v[i].proc = "EXIT" /\ v[i].part = "body" <=> i = Len(v)
  <2>1. CASE i \in 1 .. Len(s)
    <3>1. i # Len(v)
      BY <1>1, <2>1
    <3> QED
      BY <1>1, <1>3, <2>1, <3>1
  <2>2. CASE i = Len(s) + 1
    <3>1. i # Len(v)
      BY <1>1, <2>2
    <3> QED
      BY <1>1, <2>2, <3>1 DEF LengthUnit
  <2>3. CASE i = Len(s) + 2
    BY <1>1, <2>3 DEF BodyUnit
  <2> QED
    BY <1>2, <2>1, <2>2, <2>3
<1> QED
  BY <1>4 DEF v

(* Every step keeps the exit packet the last one.                          *)
LEMMA ExitEndsStep ==
  ASSUME Typed, Typed', Handshaking, Endings, ExitEnds, [Next]_vars
  PROVE  ExitEnds'
<1>1. PhaseStep /\ Kinds
  BY Phases, StepKinds
<1> SUFFICES ASSUME ~wantTty, Reports(Sent')
             PROVE  /\ appQuit' /\ OutputEnded'
                    /\ \A i \in 1 .. Len(Sent') :
                         Sent'[i].proc = "EXIT" /\ Sent'[i].part = "body" <=> i = Len(Sent')
  BY <1>1 DEF PhaseStep, ExitEnds, ExitSent, Reports
<1>2. Reports(Sent) => /\ appQuit /\ OutputEnded
                       /\ \A i \in 1 .. Len(Sent) :
                            Sent[i].proc = "EXIT" /\ Sent[i].part = "body" <=> i = Len(Sent)
  BY DEF ExitEnds, ExitSent, Reports
<1>3. CASE Still \/ Passes
  <2>1. Sent' = Sent
    BY <1>3, SentStill, SentPasses
  <2> QED
    BY <1>1, <1>2, <2>1 DEF PhaseStep
<1>4. ~Echoes
  <2> SUFFICES ASSUME Echoes PROVE FALSE
    OBVIOUS
  <2>1. /\ Sent' = Append(Out, Noise) /\ Out \in Seq(Unit)
        /\ \A i \in 1 .. Len(Out) : Out[i] = Noise
    BY SentEchoes, SentTyped DEF Handshaking, Echoes
  <2> QED
    BY <2>1, ReportsNoise
<1>5. ~Answers
  <2> SUFFICES ASSUME Answers PROVE FALSE
    OBVIOUS
  <2>1. /\ Sent' = Append(Out, Sync) /\ Out \in Seq(Unit)
        /\ \A i \in 1 .. Len(Out) : Out[i] = Noise
    BY SentAnswers, SentTyped DEF Handshaking, Answers
  <2> QED
    BY <2>1, ReportsNoise
<1>6. ASSUME NEW proc, NEW data, Replies(proc, data), gtx = << >>
      PROVE  Sent' = Sent \o Packet(proc, data) /\ Sent \in Seq(Unit) /\ Sendable(proc, data)
  BY <1>6, SentReplies, SentNothing, SentTyped DEF Replies, Sends
<1>7. ASSUME NEW proc, NEW data, Replies(proc, data), gtx = << >>, proc # "EXIT", ~OutputEnded
      PROVE  FALSE
  <2>1. ~Reports(Sent)
    BY <1>2, <1>7
  <2> QED
    BY <1>6, <1>7, <2>1, ReportsOutput
<1>8. ASSUME NEW n \in 1 .. Len(outPipe), SendsOut(n) PROVE FALSE
  BY <1>7, <1>8 DEF SendsOut, OutputEnded
<1>9. ASSUME NEW n \in 1 .. Len(errPipe), SendsErr(n) PROVE FALSE
  BY <1>7, <1>9 DEF SendsErr, OutputEnded
<1>10. ASSUME NEW status \in Nat, SendsExit(status)
       PROVE  /\ appQuit' /\ OutputEnded'
              /\ \A i \in 1 .. Len(Sent') :
                   Sent'[i].proc = "EXIT" /\ Sent'[i].part = "body" <=> i = Len(Sent')
  <2>1. /\ appQuit' /\ OutputEnded' /\ gtx = << >> /\ ~(appQuit /\ OutputEnded)
        /\ Replies("EXIT", << status >>)
    BY <1>10 DEF SendsExit
  <2>2. /\ Sent' = Sent \o Packet("EXIT", << status >>) /\ Sent \in Seq(Unit)
        /\ Sendable("EXIT", << status >>) /\ ~Reports(Sent)
    BY <1>2, <1>6, <2>1
  <2> QED
    BY <2>1, <2>2, ReportsExit
<1> QED
  BY <1>1, <1>3, <1>4, <1>5, <1>8, <1>9, <1>10 DEF Kinds
-----------------------------------------------------------------------------
(* The output.                                                             *)

(* What the application and the reads of the loop do to the pipes.          *)
PipeStep ==
  /\ \/ UNCHANGED << outPipe, errPipe, outWritten, errWritten >>
     \/ /\ outWritten' = outWritten + 1 /\ outPipe' = Append(outPipe, outWritten + 1)
        /\ ~(wantTty /\ ~appin)
        /\ UNCHANGED << errPipe, errWritten, appin >>
     \/ /\ errWritten' = errWritten + 1 /\ errPipe' = Append(errPipe, errWritten + 1)
        /\ UNCHANGED << outPipe, outWritten, appin >>
     \/ /\ wantTty /\ ~appin' /\ outPipe' = << >>
        /\ UNCHANGED << errPipe, outWritten, errWritten >>
  /\ wantTty /\ ~appin' => outPipe' = << >> \/ ~appin
  /\ appin' => appin \/ app = "none"

(* Reading the console moves no output.                                    *)
LEMMA PipesReadHost == ASSUME Typed, Handshaking, ReadHost, Peerless PROVE PipeStep
<1> DEFINE u == Head(toGuest)
<1>1. CASE ReadSync(u)
  <2>1. gstate = "SYNCING" /\ UNCHANGED << outPipe, errPipe, outWritten, errWritten >>
        /\ appin' = TRUE
    BY <1>1 DEF ReadSync
  <2> QED
    BY <2>1 DEF PipeStep, Handshaking
<1>2. CASE ReadStdinEOF(u)
  <2>1. /\ appin' = FALSE /\ outPipe' = IF wantTty THEN << >> ELSE outPipe
        /\ UNCHANGED << errPipe, outWritten, errWritten >>
    BY <1>2 DEF ReadStdinEOF
  <2> QED
    BY <2>1 DEF PipeStep
<1>3. CASE ~ReadSync(u) /\ ~ReadStdinEOF(u)
  <2>1. UNCHANGED << outPipe, errPipe, outWritten, errWritten, appin >>
    BY <1>3 DEF ReadHost, ReadWait, IgnoreWait, RunCommandFails, ReadLength, ReadStdin,
                ReadQuit, ReadBad, Leave, guestVars, loopVars, appVars
  <2> QED
    BY <2>1 DEF PipeStep
<1> QED
  BY <1>1, <1>2, <1>3

(* The application writes to the end of its pipe.                          *)
LEMMA PipesApp == ASSUME Typed, App, Peerless PROVE PipeStep
<1>1. appin' = appin /\ wantTty' = wantTty
  BY AppAlone DEF loopVars
<1>2. CASE AppWriteOut
  BY <1>1, <1>2 DEF AppWriteOut, PipeStep
<1>3. CASE AppWriteErr
  BY <1>1, <1>3 DEF AppWriteErr, PipeStep
<1>4. CASE ~AppWriteOut /\ ~AppWriteErr
  <2>1. UNCHANGED << outPipe, errPipe, outWritten, errWritten >>
    BY <1>4 DEF App, AppRead, AppExits, OrphanExits, AppClose, AppForks
  <2> QED
    BY <1>1, <2>1 DEF PipeStep
<1> QED
  BY <1>2, <1>3, <1>4

(* A step that leaves the pipes alone.                                     *)
LEMMA PipesStill ==
  ASSUME UNCHANGED << outPipe, errPipe, outWritten, errWritten, appin >>
  PROVE  PipeStep
BY DEF PipeStep

(* Every step extends a pipe, empties it or sends from its head.           *)
LEMMA Pipes ==
  ASSUME Typed, Handshaking, [Next]_vars
  PROVE  \/ PipeStep
         \/ \E n \in 1 .. Len(outPipe) : SendsOut(n)
         \/ \E n \in 1 .. Len(errPipe) : SendsErr(n)
<1>1. CASE Peerless /\ (Reap \/ WriteHost \/ HostFails \/ WriteStdin \/ LeaveLoop \/ Echo \/ Boot)
  <2>1. UNCHANGED << outPipe, errPipe, outWritten, errWritten, appin >>
    BY <1>1 DEF Reap, WriteHost, HostFails, WriteStdin, LeaveLoop, Leave, Echo, Boot,
                guestVars, loopVars, appVars
  <2> QED
    BY <2>1, PipesStill
<1>2. CASE PeerSend \/ PeerReceive \/ UNCHANGED vars
  <2>1. UNCHANGED << outPipe, errPipe, outWritten, errWritten, appin >>
    BY <1>2 DEF PeerSend, PeerReceive, vars, guestVars, loopVars, appVars
  <2> QED
    BY <2>1, PipesStill
<1>3. CASE Peerless /\ ReadAppOut
  <2>1. CASE outPipe' = outPipe
    <3>1. UNCHANGED << outPipe, errPipe, outWritten, errWritten, appin >>
      BY <1>3, <2>1 DEF ReadAppOut
    <3> QED
      BY <3>1, PipesStill
  <2>2. CASE outPipe' # outPipe
    <3>1. PICK n \in 1 .. Len(outPipe) :
            /\ gtx' = Packet("STDOUT", SubSeq(outPipe, 1, n))
            /\ outPipe' = SubSeq(outPipe, n + 1, Len(outPipe))
      BY <1>3, <2>2 DEF ReadAppOut, ReadsChunk
    <3>2. Sends("STDOUT", SubSeq(outPipe, 1, n))
      BY ChunkTyped DEF Typed, TypeOK
    <3>3. /\ Out' = Out /\ gtx = << >> /\ ~appOutEOF /\ app # "none"
          /\ UNCHANGED << errPipe, outWritten, errWritten, appin >>
      BY <1>3, StaysOut DEF ReadAppOut, Peerless, PollsOut, Polls, Handshaking
    <3> QED
      BY <3>1, <3>2, <3>3 DEF SendsOut, Replies
  <2> QED
    BY <2>1, <2>2
<1>4. CASE Peerless /\ ReadAppErr
  <2>1. CASE errPipe' = errPipe
    <3>1. UNCHANGED << outPipe, errPipe, outWritten, errWritten, appin >>
      BY <1>4, <2>1 DEF ReadAppErr
    <3> QED
      BY <3>1, PipesStill
  <2>2. CASE errPipe' # errPipe
    <3>1. PICK n \in 1 .. Len(errPipe) :
            /\ gtx' = Packet("STDERR", SubSeq(errPipe, 1, n))
            /\ errPipe' = SubSeq(errPipe, n + 1, Len(errPipe))
      BY <1>4, <2>2 DEF ReadAppErr, ReadsChunk
    <3>2. Sends("STDERR", SubSeq(errPipe, 1, n))
      BY ChunkTyped DEF Typed, TypeOK
    <3>3. /\ Out' = Out /\ gtx = << >> /\ ~appErrEOF /\ app # "none" /\ ~wantTty
          /\ UNCHANGED << outPipe, outWritten, errWritten, appin >>
      BY <1>4, StaysOut DEF ReadAppErr, Peerless, PollsErr, Polls, Handshaking
    <3> QED
      BY <3>1, <3>2, <3>3 DEF SendsErr, Replies
  <2> QED
    BY <2>1, <2>2
<1>5. CASE Peerless /\ MasterHangup
  <2>1. CASE outPipe' = outPipe
    <3>1. UNCHANGED << outPipe, errPipe, outWritten, errWritten, appin >>
      BY <1>5, <2>1 DEF MasterHangup
    <3> QED
      BY <3>1, PipesStill
  <2>2. CASE outPipe' # outPipe
    <3>1. PollsOut /\ ReadsChunk("STDOUT", outPipe, outPipe')
      BY <1>5, <2>2 DEF MasterHangup
    <3>2. PICK n \in 1 .. Len(outPipe) :
            /\ gtx' = Packet("STDOUT", SubSeq(outPipe, 1, n))
            /\ outPipe' = SubSeq(outPipe, n + 1, Len(outPipe))
      BY <3>1 DEF ReadsChunk
    <3>3. Sends("STDOUT", SubSeq(outPipe, 1, n))
      BY ChunkTyped DEF Typed, TypeOK
    <3>4. /\ Out' = Out /\ gtx = << >> /\ ~appOutEOF /\ app # "none"
          /\ UNCHANGED << errPipe, outWritten, errWritten, appin >>
      BY <1>5, <3>1, StaysOut DEF MasterHangup, Peerless, PollsOut, Polls, PollsStdin, Handshaking
    <3> QED
      BY <3>2, <3>3, <3>4 DEF SendsOut, Replies
  <2> QED
    BY <2>1, <2>2
<1> QED
  BY <1>1, <1>2, <1>3, <1>4, <1>5, PipesReadHost, PipesApp DEF Next, GuestNext, Loop, Peerless

(* What the steps that are no output do to the output that has been sent:   *)
(* nothing, but with a tty EXIT may take the place of a packet.             *)
DataStep ==
  \/ /\ DataOf("STDOUT", Sent') = DataOf("STDOUT", Sent)
     /\ DataOf("STDERR", Sent') = DataOf("STDERR", Sent)
  \/ /\ wantTty /\ appOutEOF'
     /\ IsPrefix(DataOf("STDOUT", Sent'), DataOf("STDOUT", Sent))

(* The output in a sequence of units is a sequence of bytes.               *)
LEMMA DataTyped ==
  ASSUME NEW q, NEW u \in Seq(Unit) PROVE DataOf(q, u) \in Seq(Nat)
BY DataOfAppend, BytesTyped

(* Every sequence is a prefix of itself.                                   *)
LEMMA PrefixReflexive ==
  ASSUME NEW S, NEW s \in Seq(S) PROVE IsPrefix(s, s)
<1>1. Len(s) \in Nat
  BY LenProperties
<1> QED
  BY <1>1, PrefixIs

(* The output that has left is a prefix of the output sent.                *)
LEMMA DataBehind ==
  ASSUME Typed, Sending
  PROVE  IsPrefix(DataOf("STDOUT", Out), DataOf("STDOUT", Sent))
<1> DEFINE d == DataOf("STDOUT", Out)
<1>1. Out \in Seq(Unit) /\ Sent = Out \o gtx
  BY SentTyped
<1>2. d \in Seq(Nat)
  BY <1>1, DataTyped
<1>3. CASE gtx = << >>
  BY <1>2, <1>3, SentNothing, PrefixReflexive
<1>4. CASE gtx = << Sync >>
  <2>1. Sent = Append(Out, Sync)
    BY <1>1, <1>4, ConcatOne, BytesTyped
  <2>2. DataOf("STDOUT", Append(Out, Sync)) = d
    BY <1>1, DataOfByte, BytesTyped
  <2> QED
    BY <1>2, <2>1, <2>2, PrefixReflexive
<1>5. ASSUME NEW proc, NEW data, Sends(proc, data), gtx = Packet(proc, data)
      PROVE  IsPrefix(d, DataOf("STDOUT", Sent))
  <2>1. DataOf("STDOUT", Out \o Packet(proc, data)) = IF proc = "STDOUT" THEN d \o data ELSE d
    <3>1. Sendable(proc, data)
      BY <1>5 DEF Sends
    <3> QED
      BY <1>1, <3>1, DataOfPacket
  <2>2. data \in Seq(Nat)
    BY <1>5 DEF Sends, Sendable
  <2> HIDE DEF d
  <2>3. IsPrefix(d, d \o data) /\ IsPrefix(d, d)
    BY <1>2, <2>2, PrefixOfConcat, PrefixReflexive
  <2> QED
    BY <1>1, <1>5, <2>1, <2>3
<1>6. ASSUME NEW proc, NEW data, Sends(proc, data), gtx = << BodyUnit(proc, data) >>
      PROVE  IsPrefix(d, DataOf("STDOUT", Sent))
  <2>1. BodyUnit(proc, data) \in Unit
    BY <1>6, PacketTyped DEF Sends
  <2>2. Sent = Append(Out, BodyUnit(proc, data))
    BY <1>1, <1>6, <2>1, ConcatOne
  <2>3. /\ DataOf("STDOUT", Sent) = d \o Carried("STDOUT", BodyUnit(proc, data))
        /\ Carried("STDOUT", BodyUnit(proc, data)) \in Seq(Nat)
    BY <1>1, <2>1, <2>2, DataOfAppend, CarriedTyped
  <2> HIDE DEF d
  <2> QED
    BY <1>2, <2>3, PrefixOfConcat
<1> QED
  BY <1>3, <1>4, <1>5, <1>6 DEF Sending

(* A step that sends no output leaves the output sent.                     *)
LEMMA DataSteps ==
  ASSUME Typed, Typed', Handshaking, Sending,
         Still \/ Echoes \/ Passes \/ Answers \/ \E status \in Nat : SendsExit(status)
  PROVE  DataStep
<1>1. CASE Still \/ Passes
  <2>1. Sent' = Sent
    BY <1>1, SentStill, SentPasses
  <2> QED
    BY <2>1 DEF DataStep
<1>2. ASSUME NEW u \in {Noise, Sync}, Sent = Out, Sent' = Append(Out, u) PROVE DataStep
  <2>1. u \in Unit /\ u.part # "body" /\ Out \in Seq(Unit)
    BY SentTyped, BytesTyped
  <2>2. /\ DataOf("STDOUT", Append(Out, u)) = DataOf("STDOUT", Out)
        /\ DataOf("STDERR", Append(Out, u)) = DataOf("STDERR", Out)
    BY <2>1, DataOfByte
  <2> QED
    BY <1>2, <2>2 DEF DataStep
<1>3. CASE Echoes
  BY <1>2, <1>3, SentEchoes
<1>4. CASE Answers
  BY <1>2, <1>4, SentAnswers
<1>5. ASSUME NEW status \in Nat, SendsExit(status) PROVE DataStep
  <2>1. /\ Replies("EXIT", << status >>) /\ appOutEOF' /\ (~wantTty => gtx = << >>)
    BY <1>5 DEF SendsExit, OutputEnded
  <2>2. Sent' = Out \o Packet("EXIT", << status >>) /\ Out \in Seq(Unit)
        /\ Sendable("EXIT", << status >>)
    BY <2>1, SentReplies, SentTyped DEF Replies, Sends
  <2>3. DataOf("STDOUT", Out \o Packet("EXIT", << status >>)) = DataOf("STDOUT", Out)
    BY <2>2, DataOfPacket
  <2>4. DataOf("STDERR", Out \o Packet("EXIT", << status >>)) = DataOf("STDERR", Out)
    BY <2>2, DataOfPacket
  <2>5. CASE wantTty
    BY <2>1, <2>2, <2>3, <2>5, DataBehind DEF DataStep
  <2>6. CASE ~wantTty
    BY <2>1, <2>2, <2>3, <2>4, <2>6, SentNothing DEF DataStep
  <2> QED
    BY <2>5, <2>6
<1> QED
  BY <1>1, <1>3, <1>4, <1>5

(* A step that sends no output keeps the output in place.                  *)
LEMMA KeptPipes ==
  ASSUME Typed, Typed', Handshaking, OutputKept, PipeStep, DataStep,
         wantTty' = wantTty, appOutEOF => appOutEOF'
  PROVE  OutputKept'
<1> DEFINE d == DataOf("STDOUT", Sent)
           e == DataOf("STDERR", Sent)
           c == DataOf("STDOUT", Sent')
           f == DataOf("STDERR", Sent')
<1>1. /\ d \in Seq(Nat) /\ e \in Seq(Nat) /\ c \in Seq(Nat) /\ f \in Seq(Nat)
      /\ outPipe \in Seq(Nat) /\ errPipe \in Seq(Nat)
      /\ outWritten \in Nat /\ errWritten \in Nat
  <2>1. Sent' \in Seq(Unit)
    <3>1. seen' \in Seq(Unit) /\ toHost' \in Seq(Unit) /\ gtx' \in Seq(Unit)
      BY DEF Typed, TypeOK, ChannelTypeOK, TxBuffer
    <3>2. seen' \o toHost' \in Seq(Unit)
      BY <3>1, ConcatProperties
    <3> QED
      BY <3>1, <3>2, ConcatProperties DEF Sent
  <2>2. c \in Seq(Nat) /\ f \in Seq(Nat)
    BY <2>1, DataTyped
  <2>3. d \in Seq(Nat) /\ e \in Seq(Nat)
    BY SentTyped, DataTyped
  <2>4. /\ outPipe \in Seq(Nat) /\ errPipe \in Seq(Nat)
        /\ outWritten \in Nat /\ errWritten \in Nat
    BY DEF Typed, TypeOK
  <2> QED
    BY <2>2, <2>3, <2>4
<1>2. /\ ~wantTty => /\ d \o outPipe = Bytes(1, outWritten)
                     /\ e \o errPipe = Bytes(1, errWritten)
      /\ wantTty => /\ IsPrefix(d, Bytes(1, outWritten))
                    /\ appin /\ ~appOutEOF => d \o outPipe = Bytes(1, outWritten)
                    /\ ~appin => outPipe = << >>
  BY DEF OutputKept
<1>3. \/ c = d /\ f = e
      \/ wantTty /\ appOutEOF' /\ IsPrefix(c, d)
  BY DEF DataStep
<1> HIDE DEF c, d, e, f
<1>4. /\ Bytes(1, outWritten) \in Seq(Nat) /\ Bytes(1, errWritten) \in Seq(Nat)
      /\ Bytes(1, outWritten + 1) = Append(Bytes(1, outWritten), outWritten + 1)
      /\ Bytes(1, errWritten + 1) = Append(Bytes(1, errWritten), errWritten + 1)
  BY <1>1, BytesGrow
<1>5. IsPrefix(c, d)
  BY <1>1, <1>3, PrefixReflexive
<1>6. IsPrefix(Bytes(1, outWritten), Bytes(1, outWritten + 1))
  <2>1. << outWritten + 1 >> \in Seq(Nat) /\ outWritten + 1 \in Nat
    BY <1>1
  <2>2. Bytes(1, outWritten) \o << outWritten + 1 >> = Append(Bytes(1, outWritten), outWritten + 1)
    BY <1>4, <2>1, ConcatOne
  <2> QED
    BY <1>4, <2>1, <2>2, PrefixOfConcat
<1>7. d \o Append(outPipe, outWritten + 1) = Append(d \o outPipe, outWritten + 1)
  <2>1. d \in Seq(Nat) /\ outPipe \in Seq(Nat) /\ outWritten + 1 \in Nat
    BY <1>1
  <2> QED
    BY ONLY <2>1, ConcatAppend
<1>8. e \o Append(errPipe, errWritten + 1) = Append(e \o errPipe, errWritten + 1)
  <2>1. e \in Seq(Nat) /\ errPipe \in Seq(Nat) /\ errWritten + 1 \in Nat
    BY <1>1
  <2> QED
    BY ONLY <2>1, ConcatAppend
<1>9. ASSUME wantTty PROVE IsPrefix(c, Bytes(1, outWritten'))
  <2>1. IsPrefix(c, Bytes(1, outWritten))
    BY <1>1, <1>2, <1>4, <1>5, <1>9, PrefixTransitive
  <2>2. outWritten' = outWritten \/ outWritten' = outWritten + 1
    BY DEF PipeStep
  <2>3. CASE outWritten' = outWritten + 1
    <3>1. Bytes(1, outWritten + 1) \in Seq(Nat)
      BY <1>1, outWritten + 1 \in Nat, BytesGrow
    <3> QED
      BY <1>1, <1>4, <1>6, <2>1, <2>3, <3>1, PrefixTransitive
  <2> QED
    BY <2>1, <2>2, <2>3
<1>10. ASSUME wantTty, appin', ~appOutEOF' PROVE c \o outPipe' = Bytes(1, outWritten')
  <2>1. c = d /\ ~appOutEOF
    BY <1>3, <1>10
  <2>2. d \o outPipe = Bytes(1, outWritten)
    <3>1. CASE appin
      BY <1>2, <1>10, <2>1, <3>1
    <3>2. CASE ~appin
      <4>1. outWritten = 0 /\ outPipe = << >>
        BY <1>2, <1>10, <3>2 DEF PipeStep, Handshaking
      <4>2. Bytes(1, outWritten) = << >>
        BY <4>1, BytesEmpty
      <4>3. Len(d) <= 0
        BY <1>1, <1>2, <1>4, <1>10, <4>2, PrefixIs
      <4>4. d = << >>
        BY <1>1, <4>3
      <4> QED
        BY <4>1, <4>2, <4>4
    <3> QED
      BY <3>1, <3>2
  <2> QED
    BY <1>1, <1>4, <1>7, <1>10, <2>1, <2>2 DEF PipeStep
<1>11. ASSUME wantTty, ~appin' PROVE outPipe' = << >>
  BY <1>2, <1>11 DEF PipeStep
<1>12. ASSUME ~wantTty
       PROVE  c \o outPipe' = Bytes(1, outWritten') /\ f \o errPipe' = Bytes(1, errWritten')
  <2>1. c = d /\ f = e
    BY <1>3, <1>12
  <2> QED
    BY <1>2, <1>4, <1>7, <1>8, <1>12, <2>1 DEF PipeStep
<1>13. /\ ~wantTty' => /\ c \o outPipe' = Bytes(1, outWritten')
                       /\ f \o errPipe' = Bytes(1, errWritten')
       /\ wantTty' => /\ IsPrefix(c, Bytes(1, outWritten'))
                      /\ appin' /\ ~appOutEOF' => c \o outPipe' = Bytes(1, outWritten')
                      /\ ~appin' => outPipe' = << >>
  BY <1>9, <1>10, <1>11, <1>12
<1> QED
  BY <1>13 DEF OutputKept, c, f

(* A read of a pipe moves bytes from it to what is sent.                    *)
LEMMA MovesBytes ==
  ASSUME NEW d \in Seq(Nat), NEW pipe \in Seq(Nat), NEW n \in 1 .. Len(pipe)
  PROVE  (d \o SubSeq(pipe, 1, n)) \o SubSeq(pipe, n + 1, Len(pipe)) = d \o pipe
<1> DEFINE a == SubSeq(pipe, 1, n)
           b == SubSeq(pipe, n + 1, Len(pipe))
<1>1. a \in Seq(Nat) /\ b \in Seq(Nat) /\ a \o b = pipe
  BY Cut
<1>3. a \in Seq(Nat) /\ b \in Seq(Nat)
  BY <1>1
<1> HIDE DEF a, b
<1>2. (d \o a) \o b = d \o (a \o b)
  <2>1. Associates(d, a, b)
    BY <1>3, DataAssociates
  <2> QED
    BY ONLY <2>1 DEF Associates
<1> QED
  BY <1>1, <1>2 DEF a, b

(* Every step keeps the output in place.                                   *)
LEMMA OutputKeptStep ==
  ASSUME Typed, Typed', Handshaking, Endings, Sending, OutputKept, [Next]_vars
  PROVE  OutputKept'
<1>1. PhaseStep /\ Kinds
  BY Phases, StepKinds
<1>2. wantTty' = wantTty /\ (appOutEOF => appOutEOF')
  BY <1>1 DEF PhaseStep
<1> DEFINE d == DataOf("STDOUT", Sent)
           e == DataOf("STDERR", Sent)
<1>3. d \in Seq(Nat) /\ e \in Seq(Nat) /\ outPipe \in Seq(Nat) /\ errPipe \in Seq(Nat)
      /\ outWritten \in Nat
  <2>1. d \in Seq(Nat) /\ e \in Seq(Nat)
    BY SentTyped, DataTyped
  <2>2. outPipe \in Seq(Nat) /\ errPipe \in Seq(Nat) /\ outWritten \in Nat
    BY DEF Typed, TypeOK
  <2> QED
    BY <2>1, <2>2
<1>4. ASSUME NEW proc, NEW data, Replies(proc, data), gtx = << >>
      PROVE  /\ Sent' = Sent \o Packet(proc, data)
             /\ DataOf("STDOUT", Sent') = IF proc = "STDOUT" THEN d \o data ELSE d
             /\ DataOf("STDERR", Sent') = IF proc = "STDERR" THEN e \o data ELSE e
  <2>1. Sent' = Sent \o Packet(proc, data) /\ Sent \in Seq(Unit) /\ Sendable(proc, data)
    BY <1>4, SentReplies, SentNothing, SentTyped DEF Replies, Sends
  <2>2. DataOf("STDOUT", Sent \o Packet(proc, data)) = IF proc = "STDOUT" THEN d \o data ELSE d
    BY <2>1, DataOfPacket
  <2>3. DataOf("STDERR", Sent \o Packet(proc, data)) = IF proc = "STDERR" THEN e \o data ELSE e
    BY <2>1, DataOfPacket
  <2> QED
    BY <2>1, <2>2, <2>3
<1>5. ASSUME NEW n \in 1 .. Len(outPipe), SendsOut(n) PROVE OutputKept'
  <2> DEFINE a == SubSeq(outPipe, 1, n)
             b == SubSeq(outPipe, n + 1, Len(outPipe))
  <2>1. /\ gtx = << >> /\ ~appOutEOF /\ outPipe' = b
        /\ UNCHANGED << errPipe, outWritten, errWritten, appin >>
        /\ Replies("STDOUT", a)
    BY <1>5 DEF SendsOut
  <2>2. DataOf("STDOUT", Sent') = d \o a /\ DataOf("STDERR", Sent') = e
    BY <1>4, <2>1
  <2>3. (d \o a) \o b = d \o outPipe
    BY <1>3, MovesBytes
  <2>4. n \in 1 .. Len(outPipe) => outPipe # << >>
    BY <1>3
  <2>5. a \in Seq(Nat) /\ b \in Seq(Nat)
    BY <1>3, Cut
  <2> HIDE DEF a, b, d, e
  <2>6. d \o a \in Seq(Nat)
    BY <1>3, <2>5, ConcatProperties
  <2>7. wantTty => /\ appin
                   /\ d \o outPipe = Bytes(1, outWritten)
    BY <2>1, <2>4 DEF OutputKept, d
  <2>8. IsPrefix(d \o a, (d \o a) \o b)
    BY <2>5, <2>6, PrefixOfConcat
  <2>9. /\ ~wantTty => d \o outPipe = Bytes(1, outWritten) /\ e \o errPipe = Bytes(1, errWritten)
    BY DEF OutputKept, d, e
  <2> QED
    BY <1>2, <2>1, <2>2, <2>3, <2>7, <2>8, <2>9 DEF OutputKept
<1>6. ASSUME NEW n \in 1 .. Len(errPipe), SendsErr(n) PROVE OutputKept'
  <2> DEFINE a == SubSeq(errPipe, 1, n)
             b == SubSeq(errPipe, n + 1, Len(errPipe))
  <2>1. /\ gtx = << >> /\ ~wantTty /\ errPipe' = b
        /\ UNCHANGED << outPipe, outWritten, errWritten, appin >>
        /\ Replies("STDERR", a)
    BY <1>6 DEF SendsErr
  <2>2. DataOf("STDOUT", Sent') = d /\ DataOf("STDERR", Sent') = e \o a
    BY <1>4, <2>1
  <2>3. (e \o a) \o b = e \o errPipe
    BY <1>3, MovesBytes
  <2> HIDE DEF a, b, d, e
  <2>4. d \o outPipe = Bytes(1, outWritten) /\ e \o errPipe = Bytes(1, errWritten)
    BY <2>1 DEF OutputKept, d, e
  <2> QED
    BY <1>2, <2>1, <2>2, <2>3, <2>4 DEF OutputKept
<1>7. CASE /\ ~\E n \in 1 .. Len(outPipe) : SendsOut(n)
           /\ ~\E n \in 1 .. Len(errPipe) : SendsErr(n)
  <2>1. PipeStep
    BY <1>7, Pipes
  <2>2. Still \/ Echoes \/ Passes \/ Answers \/ \E status \in Nat : SendsExit(status)
    BY <1>1, <1>7 DEF Kinds
  <2>3. DataStep
    BY <2>2, DataSteps
  <2> QED
    BY <1>2, <2>1, <2>3, KeptPipes
<1> QED
  BY <1>5, <1>6, <1>7
-----------------------------------------------------------------------------
(* The invariant, and what follows from it.                                 *)

(* The invariant holds initially.                                          *)
LEMMA InitInv == ASSUME Init PROVE GuestInv
<1>1. Typed
  BY InitTyped
<1>2. gtx = << >> /\ Out = << >> /\ Sent = << >>
  BY DEF Init, GuestInitial, Out, Sent
<1>3. Handshaking
  BY <1>2 DEF Init, GuestInitial, Handshaking
<1>4. Endings /\ Sending
  BY DEF Init, GuestInitial, Endings, Sending, OutputEnded
<1>5. Framed
  BY <1>2 DEF Framed, CutOnlyByExit, CutsShort
<1>6. SyncedOnce
  BY <1>2 DEF SyncedOnce, Init, GuestInitial
<1>7. ExitEnds
  BY <1>2 DEF ExitEnds, ExitSent
<1>8. OutputKept
  <2>1. DataOf("STDOUT", Sent) = << >> /\ DataOf("STDERR", Sent) = << >>
    BY <1>2, DataOfEmpty
  <2>2. outPipe = << >> /\ errPipe = << >> /\ outWritten = 0 /\ errWritten = 0
    BY DEF Init, GuestInitial
  <2>3. << >> \in Seq(Nat) /\ << >> \o << >> = << >>
    OBVIOUS
  <2>4. IsPrefix(<< >>, << >>)
    BY <2>3, PrefixReflexive
  <2> QED
    BY <2>1, <2>2, <2>3, <2>4, BytesEmpty DEF OutputKept
<1> QED
  BY <1>1, <1>3, <1>4, <1>5, <1>6, <1>7, <1>8 DEF GuestInv, Typed

(* Every step keeps the invariant.                                         *)
LEMMA NextInv == ASSUME GuestInv, [Next]_vars PROVE GuestInv'
<1>1. Typed /\ Handshaking /\ Endings /\ Sending /\ Framed /\ SyncedOnce /\ ExitEnds /\ OutputKept
  BY DEF GuestInv, Typed
<1>2. Typed'
  BY <1>1, NextTyped
<1>3. Kinds
  BY <1>1, StepKinds
<1>4. Handshaking' /\ Endings'
  BY <1>1, HandshakingStep, EndingsStep
<1>5. Sending' /\ Framed'
  BY <1>1, <1>2, <1>3, SendingStep, FramedStep, Phases
<1>6. SyncedOnce' /\ ExitEnds' /\ OutputKept'
  BY <1>1, <1>2, SyncedOnceStep, ExitEndsStep, OutputKeptStep
<1> QED
  BY <1>2, <1>4, <1>5, <1>6 DEF GuestInv, Typed

(* GuestInv holds in every state of every behaviour.                       *)
LEMMA Invariance == Spec => []GuestInv
<1>1. Init => GuestInv
  BY InitInv
<1>2. GuestInv /\ [Next]_vars => GuestInv'
  BY NextInv
<1> QED
  BY <1>1, <1>2, PTL DEF Spec

(* Whatever the host sends and however the application behaves, on pipes    *)
(* every byte of its output is in a packet sent, in the one being sent or   *)
(* in its pipe, once and in order; on a tty what is sent is a beginning of  *)
(* what was written.                                                       *)
THEOREM OutputIsConserved == Spec => []OutputConserved
<1>1. GuestInv => OutputConserved
  BY DEF GuestInv, OutputKept, OutputConserved
<1> QED
  BY <1>1, Invariance, PTL

(* On pipes, EXIT is sent once, after the application is gone and all of    *)
(* its output is out, and nothing is sent after it.                         *)
THEOREM ExitComesLast == Spec => []ExitIsLast
<1>1. ASSUME GuestInv, ~wantTty, ExitSent
      PROVE  /\ appQuit /\ app = "exited"
             /\ Last(Sent).proc = "EXIT"
             /\ Cardinality({i \in 1 .. Len(Sent) : Sent[i].proc = "EXIT"
                                                     /\ Sent[i].part = "body"}) = 1
             /\ outPipe = << >> /\ errPipe = << >>
  <2> DEFINE E == {i \in 1 .. Len(Sent) : Sent[i].proc = "EXIT" /\ Sent[i].part = "body"}
  <2>1. appQuit /\ app = "exited" /\ outPipe = << >> /\ errPipe = << >>
    BY <1>1 DEF GuestInv, ExitEnds, Endings, OutputEnded
  <2>2. \A i \in 1 .. Len(Sent) : Sent[i].proc = "EXIT" /\ Sent[i].part = "body" <=> i = Len(Sent)
    BY <1>1 DEF GuestInv, ExitEnds
  <2>3. Len(Sent) \in 1 .. Len(Sent)
    <3>1. Len(Sent) \in Nat
      BY <1>1, SentTyped, LenProperties DEF GuestInv, Typed
    <3>2. Len(Sent) # 0
      BY <1>1, <3>1 DEF ExitSent
    <3> QED
      BY <3>1, <3>2
  <2>4. E = {Len(Sent)}
    BY <2>2, <2>3
  <2>5. Cardinality(E) = 1
    BY <2>4, FS_Singleton
  <2>6. Last(Sent).proc = "EXIT"
    BY <2>2, <2>3 DEF Last
  <2> QED
    BY <2>1, <2>5, <2>6
<1>2. GuestInv => ExitIsLast
  BY <1>1 DEF ExitIsLast
<1> QED
  BY <1>2, Invariance, PTL

(* SYNC is sent at most once, on pipes before any packet and before the     *)
(* application starts.  No packet is begun inside another or cut short,     *)
(* except on a tty by EXIT once the exit is known.                          *)
THEOREM PacketsAfterSync == Spec => []SyncThenPackets
<1>1. ASSUME GuestInv PROVE SyncThenPackets
  <2> DEFINE packets == {i \in 1 .. Len(Sent) : Sent[i].part # "byte"}
             syncs == {i \in 1 .. Len(Sent) : Sent[i] = Sync}
  <2>1. \A i, j \in syncs : i = j
    BY <1>1 DEF GuestInv, SyncedOnce
  <2>2. CASE syncs = {}
    <3>1. Cardinality(syncs) = 0
      BY <2>2, FS_EmptySet
    <3>2. wantTty \/ app = "none"
      BY <1>1, <2>2 DEF GuestInv, SyncedOnce
    <3>3. ~wantTty => packets = {}
      BY <1>1, <2>2 DEF GuestInv, SyncedOnce
    <3> QED
      BY <1>1, <3>1, <3>2, <3>3 DEF SyncThenPackets, GuestInv, Framed
  <2>3. CASE syncs # {}
    <3>1. PICK i : syncs = {i}
      <4> HIDE DEF syncs
      <4>1. PICK k : k \in syncs
        BY <2>3
      <4>2. syncs = {k}
        BY ONLY <2>1, <4>1
      <4> QED
        BY ONLY <4>2
    <3>2. Cardinality(syncs) = 1
      BY <3>1, FS_Singleton
    <3>3. ~wantTty => \A k \in packets : \E j \in syncs : j < k
      BY <1>1 DEF GuestInv, SyncedOnce
    <3> QED
      BY <1>1, <3>2, <3>3 DEF SyncThenPackets, GuestInv, Framed
  <2> QED
    BY <2>2, <2>3
<1>2. GuestInv => SyncThenPackets
  BY <1>1
<1> QED
  BY <1>2, Invariance, PTL
============================================================================
