-------------------------- MODULE ConsoleRpcProofs --------------------------
(***************************************************************************)
(* Theorems about the host end of the console, for every peer, every bound *)
(* on the queues and every failure of the local streams.                   *)
(***************************************************************************)
EXTENDS ConsoleRpcOpen, SequenceTheorems, TLAPS

USE CapAssumption, HostAssumption, PeerAssumption

(* The bytes of the handshake and of the boot's noise are units.           *)
LEMMA BytesAreUnits ==
  /\ Wait \in Unit /\ Sync \in Unit /\ Noise \in Unit
  /\ << Wait >> \in Seq(Unit) /\ << Sync >> \in Seq(Unit) /\ << Noise >> \in Seq(Unit)
<1>1. Wait \in Unit /\ Sync \in Unit /\ Noise \in Unit
  BY DEF Wait, Sync, Noise, Byte, Unit
<1> QED
  BY <1>1

(* Every packet is a sequence of units; only EXIT must carry a status.     *)
LEMMA PacketUnits ==
  ASSUME NEW proc \in Procs, NEW data \in Seq(Nat),
         proc = "EXIT" => data # << >>
  PROVE  /\ Packet(proc, data) \in Seq(Unit)
         /\ Len(Packet(proc, data)) = 2
         /\ Packet(proc, data) # << >>
BY DEF Packet, Unit, Procs

(* The QUIT packet is one, and there is something of it to send.           *)
LEMMA QuitTyped == /\ Packet("QUIT", << >>) \in Seq(Unit)
                   /\ Packet("QUIT", << >>) # << >>
<1>1. "QUIT" \in Procs /\ << >> \in Seq(Nat) /\ "QUIT" # "EXIT"
  BY DEF Procs
<1> QED
  BY <1>1, PacketUnits

(* A stretch of numbered bytes is a sequence of numbers.                   *)
LEMMA BytesAreSeq ==
  ASSUME NEW a \in Nat, NEW n \in Nat
  PROVE  Bytes(a + 1, a + n) \in Seq(Nat)
<1>1. (a + n) - (a + 1) + 1 = n
  OBVIOUS
<1>2. Bytes(a + 1, a + n) = [i \in 1 .. n |-> (a + 1) + i - 1]
  BY <1>1 DEF Bytes
<1>3. \A i \in 1 .. n : (a + 1) + i - 1 \in Nat
  OBVIOUS
<1> QED
  BY <1>2, <1>3

(* What is cut from a sequence of numbers is one.                          *)
LEMMA SubSeqTyped ==
  ASSUME NEW s \in Seq(Nat), NEW m \in Nat, NEW n \in Nat, n <= Len(s)
  PROVE  SubSeq(s, m + 1, n) \in Seq(Nat)
<1>1. \A i \in m + 1 .. n : s[i] \in Nat
  OBVIOUS
<1> QED
  BY <1>1, SubSeqProperties

(* An offset into a queue stays one when a packet is appended.             *)
LEMMA LongerQueue ==
  ASSUME NEW q \in Seq(Nat), NEW d \in Seq(Nat), NEW o \in 0 .. Len(q)
  PROVE  q \o d \in Seq(Nat) /\ o \in 0 .. Len(q \o d)
BY ConcatProperties, LenProperties

(* What a peer sends as output is as long as it says.                      *)
LEMMA OutputSeq ==
  ASSUME NEW n \in Nat
  PROVE  Output(n) \in Seq(Nat) /\ Len(Output(n)) = n
BY DEF Output

(* All that the peer may send is made of units.                            *)
LEMMA MessagesTyped == Messages \subseteq Seq(Unit)
<1>1. Packet("EXIT", << 0 >>) \in Seq(Unit)
  <2>1. << 0 >> \in Seq(Nat) /\ << 0 >> # << >>
    OBVIOUS
  <2> QED
    BY <2>1, PacketUnits DEF Procs
<1>2. Packet("QUIT", << >>) \in Seq(Unit)
  BY QuitTyped
<1>3. ASSUME NEW proc \in {"STDOUT", "STDERR"}, NEW n \in 1 .. PayloadMax
      PROVE  Packet(proc, Output(n)) \in Seq(Unit)
  <2>1. Output(n) \in Seq(Nat)
    BY OutputSeq
  <2>2. proc \in Procs /\ proc # "EXIT"
    BY DEF Procs
  <2> QED
    BY <2>1, <2>2, PacketUnits
<1>4. << Sync >> \in Seq(Unit) /\ << Noise >> \in Seq(Unit)
  BY BytesAreUnits
<1> SUFFICES ASSUME NEW m \in Messages
             PROVE  m \in Seq(Unit)
  OBVIOUS
<1>5. CASE m \in {<< Sync >>, << Noise >>, Packet("EXIT", << 0 >>),
                   Packet("QUIT", << >>)}
  BY <1>1, <1>2, <1>4, <1>5
<1>6. CASE m \in {Packet(proc, Output(n)) : proc \in {"STDOUT", "STDERR"},
                                            n \in 1 .. PayloadMax}
  BY <1>3, <1>6
<1> QED
  BY <1>5, <1>6 DEF Messages
-----------------------------------------------------------------------------
(* Type correctness, one lemma for each operation.                         *)

(* The console starts with empty buffers.                                  *)
LEMMA InitTyped == Init => TypeOK
<1> SUFFICES ASSUME Init PROVE TypeOK
  OBVIOUS
<1> USE DEF Init, HostInit
<1>1. state \in States /\ tx \in TxBuffer /\ rx \in RxBuffer
  BY DEF States, TxBuffer, RxBuffer
<1>2. /\ localToStdout \in Seq(Nat) /\ localToStdoutOffset \in 0 .. localToStdoutLength
      /\ localToStderr \in Seq(Nat) /\ localToStderrOffset = 0
  BY DEF localToStdoutLength, localToStderrLength
<1>3. localEOF \in BOOLEAN /\ timers \in Nat
  OBVIOUS
<1>4. stale \in [Sources -> Nat] /\ dead \subseteq Sources \cup {"watch"}
  OBVIOUS
<1>5. /\ stdinRead \in 0 .. StdinTotal
      /\ stdoutWritten \in Seq(Nat) /\ stderrWritten \in Seq(Nat)
      /\ exited \in Seq(Nat) /\ closed \in Seq({"clean", "error"})
  OBVIOUS
<1>6. attaches \in 0 .. MaxAttach /\ peerSent \in 0 .. PeerMax /\ ChannelTypeOK
  BY DEF ChannelTypeOK
<1> QED
  BY <1>1, <1>2, <1>3, <1>4, <1>5, <1>6 DEF TypeOK

(* attach keeps the types.                                                 *)
LEMMA AttachTyped ==
  ASSUME TypeOK, Attach, UNCHANGED peerSent
  PROVE  TypeOK'
<1>1. /\ state' \in States /\ tx' \in TxBuffer /\ rx' \in RxBuffer
  BY BytesAreUnits DEF Attach, States, TxBuffer, RxBuffer
<1>2. dead' \subseteq Sources \cup {"watch"} /\ stale' = stale
  BY DEF TypeOK, Attach, UpdateEvents
<1>3. attaches' \in 0 .. MaxAttach
  BY DEF TypeOK, Attach
<1>4. exited' \in Seq(Nat) /\ closed' \in Seq({"clean", "error"})
  BY DEF Attach
<1> QED
  BY <1>1, <1>2, <1>3, <1>4 DEF TypeOK, Attach, ChannelTypeOK, queues, local,
     localToStdoutLength, localToStderrLength

(* What detach leaves behind, both when it succeeds and when it refuses.   *)
LEMMA DetachedTyped ==
  ASSUME TypeOK, NEW running,
         running \in Sources => Live(running) \/ stale[running] > 0,
         Detached(running)
  PROVE  /\ state' \in States /\ tx' \in TxBuffer /\ rx' \in RxBuffer
         /\ stale' \in [Sources -> Nat] /\ dead' \subseteq Sources \cup {"watch"}
         /\ localToStdout' \in Seq(Nat) /\ localToStderr' \in Seq(Nat)
         /\ (localToStdoutOffset \in 0 .. localToStdoutLength)'
         /\ localToStderrOffset' = 0
<1>1. ASSUME NEW s \in Sources
      PROVE  stale[s] + Bit(Live(s)) - Bit(s = running) \in Nat
  <2>1. stale[s] \in Nat
    BY DEF TypeOK
  <2>2. CASE s = running
    BY <2>1, <2>2 DEF Bit
  <2>3. CASE s # running
    BY <2>1, <2>3 DEF Bit
  <2> QED
    BY <2>2, <2>3
<1>2. stale' \in [Sources -> Nat]
  BY <1>1 DEF Detached
<1>3. CASE state = "INACTIVE"
  BY <1>2, <1>3 DEF Detached, TypeOK, queues, localToStdoutLength,
                    localToStderrLength
<1>4. CASE state # "INACTIVE"
  <2>1. Len(<< >>) = 0
    OBVIOUS
  <2> QED
    BY <1>2, <1>4, <2>1 DEF Detached, States, TxBuffer, RxBuffer,
                            localToStdoutLength, localToStderrLength
<1> QED
  BY <1>3, <1>4

(* A detach that fails to restore the terminal keeps the types.            *)
LEMMA DetachRefusedTyped ==
  ASSUME TypeOK, NEW running \in Sources \cup {"watch"}, NEW viaStale \in BOOLEAN,
         viaStale => running \in Sources /\ stale[running] > 0,
         NEW txLeft \in TxBuffer, NEW rxLeft \in RxBuffer,
         DetachRefused(running, viaStale, txLeft, rxLeft)
  PROVE  /\ state' \in States /\ tx' \in TxBuffer /\ rx' \in RxBuffer
         /\ stale' \in [Sources -> Nat] /\ dead' \subseteq Sources \cup {"watch"}
         /\ localToStdout' \in Seq(Nat) /\ localToStderr' \in Seq(Nat)
         /\ (localToStdoutOffset \in 0 .. localToStdoutLength)'
         /\ localToStderrOffset' = 0
<1>1. stale' \in [Sources -> Nat]
  BY DEF DetachRefused, TypeOK
<1> QED
  BY <1>1 DEF DetachRefused, TypeOK, queues, localToStdoutLength,
              localToStderrLength

(* do_console_rpc_close keeps the types, from any callback.                *)
LEMMA CloseTyped ==
  ASSUME TypeOK, NEW running \in Sources \cup {"watch"}, NEW viaStale \in BOOLEAN,
         running \in Sources => Fires(running, viaStale),
         running = "watch" => ~viaStale,
         NEW txLeft \in TxBuffer, NEW rxLeft \in RxBuffer,
         NEW how \in {"clean", "error"},
         Close(running, viaStale, txLeft, rxLeft, how),
         UNCHANGED << local, peerSent >>, ChannelTypeOK'
  PROVE  TypeOK'
<1>1. running \in Sources => Live(running) \/ stale[running] > 0
  BY DEF Fires
<1>2. viaStale => running \in Sources /\ stale[running] > 0
  BY DEF Fires
<1>3. closed' \in Seq({"clean", "error"})
  BY DEF Close, TypeOK
<1>4. CASE Detached(running)
  BY <1>1, <1>3, <1>4, DetachedTyped DEF Close, TypeOK, local
<1>5. CASE DetachRefused(running, viaStale, txLeft, rxLeft)
  BY <1>2, <1>3, <1>5, DetachRefusedTyped DEF Close, TypeOK, local
<1> QED
  BY <1>4, <1>5 DEF Close

(* detach, called by the user, keeps the types.                            *)
LEMMA DetachTyped ==
  ASSUME TypeOK, Detach, UNCHANGED peerSent
  PROVE  TypeOK'
<1>1. Detached("none") /\ "none" \notin Sources
  BY DEF Detach, Sources
<1> QED
  BY <1>1, DetachedTyped DEF Detach, TypeOK, local, ChannelTypeOK

(* The guest's next unit, and what is behind it in the device.             *)
LEMMA HeadOfToHost ==
  ASSUME TypeOK, toHost # << >>
  PROVE  Head(toHost) \in Unit /\ Tail(toHost) \in Seq(Unit)
BY DEF TypeOK, ChannelTypeOK

(* Receiving, whatever is received, keeps the types.                       *)
LEMMA StreamReceiveTyped ==
  ASSUME TypeOK, StreamReceive, UNCHANGED peerSent
  PROVE  TypeOK'
<1> DEFINE u == Head(toHost)
<1>1. u \in Unit /\ ChannelTypeOK'
  BY HeadOfToHost DEF StreamReceive, TypeOK, ChannelTypeOK
<1>2. UNCHANGED << local, peerSent >>
  BY DEF StreamReceive
<1> HIDE DEF u
<1>3. ASSUME UpdateEvents
      PROVE  stale' = stale /\ dead' \subseteq Sources \cup {"watch"}
  BY <1>3 DEF UpdateEvents, TypeOK
<1>4. CASE ReceiveHandshake(u)
  <2>1. state' \in States /\ tx' \in TxBuffer /\ rx' \in RxBuffer
    <3>1. CASE u = Sync
      BY <1>4, <3>1, BytesAreUnits DEF ReceiveHandshake, States, TxBuffer, RxBuffer
    <3>2. CASE u # Sync
      BY <1>4, <3>2 DEF ReceiveHandshake, TypeOK
    <3> QED
      BY <3>1, <3>2
  <2> QED
    BY <1>1, <1>2, <1>3, <1>4, <2>1 DEF ReceiveHandshake, TypeOK, local, queues, localToStdoutLength,
       localToStderrLength
<1>5. CASE ReceiveLength(u)
  BY <1>1, <1>2, <1>3, <1>5 DEF ReceiveLength, RxBuffer, TypeOK, local, queues, localToStdoutLength,
       localToStderrLength
<1>6. CASE ReceiveOutput(u)
  <2>1. u.data \in Seq(Nat)
    BY <1>1 DEF Unit
  <2>2. /\ (localToStdout \o u.data) \in Seq(Nat)
        /\ localToStdoutOffset \in 0 .. Len(localToStdout \o u.data)
        /\ (localToStderr \o u.data) \in Seq(Nat)
    BY <2>1, LongerQueue, ConcatProperties DEF TypeOK, localToStdoutLength, localToStderrLength
  <2>3. /\ localToStdout' \in Seq(Nat)
        /\ localToStderr' \in Seq(Nat)
        /\ (localToStdoutOffset \in 0 .. localToStdoutLength)'
        /\ localToStderrOffset' = 0
    <3>1. CASE u.proc = "STDOUT"
      BY <1>6, <2>2, <3>1 DEF ReceiveOutput, TypeOK, localToStdoutLength,
         localToStderrLength
    <3>2. CASE u.proc # "STDOUT"
      BY <1>6, <2>2, <3>2 DEF ReceiveOutput, TypeOK, localToStdoutLength,
         localToStderrLength
    <3> QED
      BY <3>1, <3>2
  <2>4. rx' \in RxBuffer
    BY <1>6 DEF ReceiveOutput, RxBuffer
  <2> QED
    BY <1>1, <1>2, <1>3, <1>6, <2>3, <2>4 DEF ReceiveOutput, TypeOK, local
<1>7. CASE ReceiveExit(u)
  <2>1. u.data \in Seq(Nat) /\ u.data # << >>
    BY <1>1, <1>7 DEF ReceiveExit, Unit
  <2>2. exited' \in Seq(Nat)
    <3>1. exited' = Append(exited, Head(u.data))
      BY <1>7 DEF ReceiveExit
    <3>2. exited \in Seq(Nat)
      BY DEF TypeOK
    <3>3. Head(u.data) \in Nat
      BY <2>1, HeadTailProperties
    <3> QED
      BY <3>1, <3>2, <3>3, AppendProperties
  <2>3. state' \in States /\ tx' \in TxBuffer /\ rx' \in RxBuffer
    <3>1. CASE Queued = 0
      BY <1>7, <3>1, QuitTyped DEF ReceiveExit, States, TxBuffer, RxBuffer
    <3>2. CASE Queued # 0
      BY <1>7, <3>2, EmptySeq DEF ReceiveExit, States, TxBuffer, RxBuffer
    <3> QED
      BY <3>1, <3>2
  <2> QED
    BY <1>1, <1>2, <1>3, <1>7, <2>2, <2>3 DEF ReceiveExit, TypeOK, local, queues, localToStdoutLength,
       localToStderrLength
<1>8. CASE ReceiveBad(u)
  <2>1. /\ Close("watch", FALSE, tx, "none", "error")
        /\ "none" \in RxBuffer /\ tx \in TxBuffer
    BY <1>8 DEF ReceiveBad, RxBuffer, TypeOK
  <2>2. "watch" \notin Sources
    BY DEF Sources
  <2> QED
    BY <1>1, <1>2, <2>1, <2>2, CloseTyped
<1> QED
  BY <1>4, <1>5, <1>6, <1>7, <1>8 DEF StreamReceive, u

(* Sending keeps the types.                                                *)
LEMMA StreamSendTyped ==
  ASSUME TypeOK, StreamSend, UNCHANGED peerSent
  PROVE  TypeOK'
<1>1. /\ tx \in Seq(Unit) /\ tx # << >>
      /\ Head(tx) \in Unit /\ Tail(tx) \in Seq(Unit)
  BY HeadTailProperties DEF TypeOK, TxBuffer, StreamSend, WatchWritable
<1>2. ChannelTypeOK' /\ UNCHANGED << local, peerSent >>
  BY <1>1 DEF StreamSend, TypeOK, ChannelTypeOK
<1>3. ASSUME UpdateEvents
      PROVE  stale' = stale /\ dead' \subseteq Sources \cup {"watch"}
  BY <1>3 DEF UpdateEvents, TypeOK
<1>4. CASE SentPart
  BY <1>1, <1>2, <1>3, <1>4 DEF SentPart, TxBuffer, TypeOK, local, queues,
     localToStdoutLength, localToStderrLength
<1>5. CASE SentHandshake(Head(tx))
  <2>1. state' \in States /\ rx' \in RxBuffer /\ timers' \in Nat
    BY <1>5 DEF SentHandshake, TypeOK, States, RxBuffer
  <2>2. tx' \in TxBuffer
    BY <1>5, BytesAreUnits, EmptySeq DEF SentHandshake, TxBuffer
  <2> QED
    BY <1>2, <1>3, <1>5, <2>1, <2>2 DEF SentHandshake, TypeOK, local, queues,
       localToStdoutLength, localToStderrLength
<1>6. CASE SentQuit
  <2>1. /\ Close("watch", FALSE, << >>, rx, "clean") /\ "watch" \notin Sources
        /\ << >> \in TxBuffer /\ rx \in RxBuffer
    BY <1>6, EmptySeq DEF SentQuit, TxBuffer, TypeOK, Sources
  <2> QED
    BY <1>2, <2>1, CloseTyped
<1> QED
  BY <1>4, <1>5, <1>6 DEF StreamSend

(* A failing console stream keeps the types.                               *)
LEMMA StreamErrorTyped ==
  ASSUME TypeOK, StreamError, UNCHANGED peerSent
  PROVE  TypeOK'
<1>1. /\ Close("watch", FALSE, tx, rx, "error") /\ "watch" \notin Sources
      /\ tx \in TxBuffer /\ rx \in RxBuffer
      /\ ChannelTypeOK' /\ UNCHANGED << local, peerSent >>
  BY DEF StreamError, TypeOK, Sources, ChannelTypeOK
<1> QED
  BY <1>1, CloseTyped

(* The timer that repeats WAIT keeps the types.                            *)
LEMMA WaitTimeoutTyped ==
  ASSUME TypeOK, WaitTimeout, UNCHANGED peerSent
  PROVE  TypeOK'
<1>1. timers' \in Nat
  BY DEF WaitTimeout, TypeOK
<1>2. tx' \in TxBuffer
  BY BytesAreUnits DEF WaitTimeout, TypeOK, TxBuffer
<1>3. stale' = stale /\ dead' \subseteq Sources \cup {"watch"}
  BY DEF WaitTimeout, TypeOK, UpdateEvents
<1> QED
  BY <1>1, <1>2, <1>3 DEF WaitTimeout, TypeOK, local, queues, ChannelTypeOK,
     localToStdoutLength, localToStderrLength

(* The sources after the callback of a local stream.                       *)
LEMMA SourcesTyped ==
  ASSUME TypeOK, NEW s \in Sources, NEW viaStale \in BOOLEAN,
         Fires(s, viaStale), UpdateEventsAfter(s, viaStale)
  PROVE  stale' \in [Sources -> Nat] /\ dead' \subseteq Sources \cup {"watch"}
<1>1. dead' \subseteq Sources \cup {"watch"}
  BY DEF UpdateEventsAfter, TypeOK
<1>2. CASE viaStale
  <2>1. stale[s] \in Nat /\ stale[s] > 0
    BY <1>2 DEF Fires, TypeOK
  <2>2. stale[s] - 1 + Bit(Live(s)) \in Nat
    BY <2>1 DEF Bit
  <2>3. stale' = [stale EXCEPT ![s] = stale[s] - 1 + Bit(Live(s))]
    BY <1>2 DEF UpdateEventsAfter
  <2> QED
    BY <1>1, <2>2, <2>3 DEF TypeOK
<1>3. CASE ~viaStale
  BY <1>1, <1>3 DEF UpdateEventsAfter, TypeOK
<1> QED
  BY <1>2, <1>3

(* Reading the local stdin keeps the types.                                *)
LEMMA StdinReadTyped ==
  ASSUME TypeOK, NEW viaStale \in BOOLEAN, StdinRead(viaStale), UNCHANGED peerSent
  PROVE  TypeOK'
<1>1. stale' \in [Sources -> Nat] /\ dead' \subseteq Sources \cup {"watch"}
  <2>1. "in" \in Sources
    BY DEF Sources
  <2> QED
    BY <2>1, SourcesTyped DEF StdinRead
<1>2. PICK n \in 0 .. MaxIO :
        /\ stdinRead + n <= StdinTotal
        /\ localEOF' = (localEOF \/ n = 0)
        /\ tx' = Packet("STDIN", Bytes(stdinRead + 1, stdinRead + n))
        /\ stdinRead' = stdinRead + n
  BY DEF StdinRead
<1>3. tx' \in TxBuffer
  <2> DEFINE d == Bytes(stdinRead + 1, stdinRead + n)
  <2>1. "STDIN" \in Procs /\ "STDIN" # "EXIT"
    BY DEF Procs
  <2>2. d \in Seq(Nat)
    <3>1. stdinRead \in Nat /\ n \in Nat
      BY DEF TypeOK
    <3> QED
      BY <3>1, BytesAreSeq
  <2>3. tx' = Packet("STDIN", d)
    BY <1>2
  <2> HIDE DEF d
  <2>4. Packet("STDIN", d) \in Seq(Unit) /\ Len(Packet("STDIN", d)) = 2
    BY ONLY <2>1, <2>2, PacketUnits
  <2> QED
    BY ONLY <2>3, <2>4 DEF TxBuffer
<1>4. stdinRead' \in 0 .. StdinTotal
  <2>1. stdinRead \in 0 .. StdinTotal
    BY DEF TypeOK
  <2> QED
    BY ONLY <1>2, <2>1, n \in 0 .. MaxIO
<1>5. localEOF' \in BOOLEAN
  BY <1>2 DEF TypeOK
<1> QED
  BY <1>1, <1>3, <1>4, <1>5 DEF StdinRead, TypeOK, queues, ChannelTypeOK,
     localToStdoutLength, localToStderrLength

(* A local stdin that fails keeps the types.                               *)
LEMMA StdinCloseTyped ==
  ASSUME TypeOK, NEW viaStale \in BOOLEAN, StdinClose(viaStale), UNCHANGED peerSent
  PROVE  TypeOK'
<1>1. PICK how \in {"clean", "error"} : Close("in", viaStale, tx, rx, how)
  BY DEF StdinClose
<1>2. /\ "in" \in Sources /\ Fires("in", viaStale)
      /\ tx \in TxBuffer /\ rx \in RxBuffer
      /\ ChannelTypeOK' /\ UNCHANGED << local, peerSent >>
  BY DEF StdinClose, Sources, TypeOK, ChannelTypeOK
<1> QED
  BY <1>1, <1>2, CloseTyped

(* A local output that fails keeps the types.                              *)
LEMMA OutputCloseTyped ==
  ASSUME TypeOK, NEW s \in {"out", "err"}, NEW viaStale \in BOOLEAN,
         OutputClose(s, viaStale), UNCHANGED peerSent
  PROVE  TypeOK'
<1>1. /\ Close(s, viaStale, tx, rx, "error") /\ Fires(s, viaStale)
      /\ s \in Sources /\ s # "watch" /\ tx \in TxBuffer /\ rx \in RxBuffer
      /\ ChannelTypeOK' /\ UNCHANGED << local, peerSent >>
  BY DEF OutputClose, Sources, TypeOK, ChannelTypeOK
<1> QED
  BY <1>1, CloseTyped

(* Writing the local stdout keeps the types.                               *)
LEMMA StdoutWriteTyped ==
  ASSUME TypeOK, NEW viaStale \in BOOLEAN, StdoutWrite(viaStale), UNCHANGED peerSent
  PROVE  TypeOK'
<1>1. stale' \in [Sources -> Nat] /\ dead' \subseteq Sources \cup {"watch"}
  <2>1. "out" \in Sources
    BY DEF Sources
  <2> QED
    BY <2>1, SourcesTyped DEF StdoutWrite
<1>2. PICK n \in 0 .. localToStdoutLength - localToStdoutOffset :
        /\ stdoutWritten' = stdoutWritten \o
             SubSeq(localToStdout, localToStdoutOffset + 1, localToStdoutOffset + n)
        /\ \/ /\ localToStdout' = << >> /\ localToStdoutOffset' = 0
              /\ rx' \in {rx, "length"}
              /\ \/ state' = "FINISHED" /\ tx' = Packet("QUIT", << >>)
                 \/ UNCHANGED << state, tx >>
           \/ /\ localToStdoutOffset' = localToStdoutOffset + n
              /\ UNCHANGED << localToStdout, rx, state, tx >>
  BY DEF StdoutWrite, Drained
<1>3. /\ localToStdout \in Seq(Nat) /\ localToStdoutOffset \in Nat
      /\ localToStdoutLength \in Nat /\ n \in Nat
      /\ localToStdoutOffset + n \in 0 .. localToStdoutLength
  BY DEF TypeOK, localToStdoutLength
<1>4. stdoutWritten' \in Seq(Nat)
  BY <1>2, <1>3, SubSeqTyped, ConcatProperties DEF TypeOK, localToStdoutLength
<1>5. state' \in States /\ tx' \in TxBuffer /\ rx' \in RxBuffer
  BY <1>2, QuitTyped DEF TypeOK, States, TxBuffer, RxBuffer
<1>6. /\ localToStdout' \in Seq(Nat)
      /\ (localToStdoutOffset \in 0 .. localToStdoutLength)'
  <2>1. << >> \in Seq(Nat) /\ Len(<< >>) = 0
    OBVIOUS
  <2>2. CASE localToStdout' = << >> /\ localToStdoutOffset' = 0
    BY <2>1, <2>2 DEF localToStdoutLength
  <2>3. CASE localToStdoutOffset' = localToStdoutOffset + n /\ UNCHANGED localToStdout
    BY <1>3, <2>3 DEF localToStdoutLength
  <2> QED
    BY <1>2, <2>2, <2>3
<1> QED
  BY <1>1, <1>4, <1>5, <1>6 DEF StdoutWrite, Drained, TypeOK, ChannelTypeOK,
     localToStderrLength

(* Writing the local stderr keeps the types.                               *)
LEMMA StderrWriteTyped ==
  ASSUME TypeOK, NEW viaStale \in BOOLEAN, StderrWrite(viaStale), UNCHANGED peerSent
  PROVE  TypeOK'
<1>1. stale' \in [Sources -> Nat] /\ dead' \subseteq Sources \cup {"watch"}
  <2>1. "err" \in Sources
    BY DEF Sources
  <2> QED
    BY <2>1, SourcesTyped DEF StderrWrite
<1>2. PICK n \in 0 .. localToStderrOffset :
        /\ stderrWritten' = stderrWritten \o SubSeq(localToStderr, 1, n)
        /\ \/ /\ localToStderr' = << >> /\ localToStderrOffset' = 0
              /\ rx' \in {rx, "length"}
              /\ \/ state' = "FINISHED" /\ tx' = Packet("QUIT", << >>)
                 \/ UNCHANGED << state, tx >>
           \/ /\ localToStderrOffset' = localToStderrOffset + n
              /\ UNCHANGED << localToStderr, rx, state, tx >>
  BY DEF StderrWrite, Drained
<1>3. localToStderrOffset = 0 /\ n = 0
  BY DEF TypeOK
<1>4. stderrWritten' \in Seq(Nat)
  BY <1>2, <1>3, SubSeqEmpty, ConcatEmptySeq DEF TypeOK
<1>5. state' \in States /\ tx' \in TxBuffer /\ rx' \in RxBuffer
  BY <1>2, QuitTyped DEF TypeOK, States, TxBuffer, RxBuffer
<1>6. localToStderr' \in Seq(Nat) /\ localToStderrOffset' = 0
  <2>1. << >> \in Seq(Nat)
    OBVIOUS
  <2>2. CASE localToStderr' = << >> /\ localToStderrOffset' = 0
    BY <2>1, <2>2
  <2>3. CASE localToStderrOffset' = localToStderrOffset + n /\ UNCHANGED localToStderr
    BY <1>3, <2>3 DEF TypeOK
  <2> QED
    BY <1>2, <2>2, <2>3
<1> QED
  BY <1>1, <1>4, <1>5, <1>6 DEF StderrWrite, Drained, TypeOK, ChannelTypeOK,
     localToStdoutLength

(* The guest at the other end keeps the types.                             *)
LEMMA PeerTyped ==
  ASSUME TypeOK, PeerSend \/ PeerReceive
  PROVE  TypeOK'
<1>1. CASE PeerSend
  <2>1. PICK m \in Messages : toHost' = toHost \o m
    BY <1>1 DEF PeerSend
  <2>2. toHost' \in Seq(Unit)
    BY <2>1, MessagesTyped, ConcatProperties DEF TypeOK, ChannelTypeOK
  <2>3. peerSent' \in 0 .. PeerMax
    BY <1>1 DEF PeerSend, TypeOK
  <2> QED
    BY <1>1, <2>2, <2>3 DEF PeerSend, TypeOK, hostVars, queues, local,
       ChannelTypeOK, localToStdoutLength
<1>2. CASE PeerReceive
  <2>1. toGuest' \in Seq(Unit)
    BY <1>2, HeadTailProperties DEF PeerReceive, TypeOK, ChannelTypeOK
  <2> QED
    BY <1>2, <2>1 DEF PeerReceive, TypeOK, hostVars, queues, local,
       ChannelTypeOK, localToStdoutLength
<1> QED
  BY <1>1, <1>2

(* Every step keeps the types.                                             *)
LEMMA TypeStep == TypeOK /\ [Next]_vars => TypeOK'
<1> SUFFICES ASSUME TypeOK, [Next]_vars
             PROVE  TypeOK'
  OBVIOUS
<1>1. CASE HostNext /\ UNCHANGED peerSent
  BY <1>1, AttachTyped, DetachTyped, StreamReceiveTyped, StreamSendTyped,
     StreamErrorTyped, WaitTimeoutTyped, StdinReadTyped, StdinCloseTyped,
     StdoutWriteTyped, StderrWriteTyped, OutputCloseTyped DEF HostNext
<1>2. CASE PeerSend \/ PeerReceive
  BY <1>2, PeerTyped
<1>3. CASE UNCHANGED vars
  BY <1>3 DEF vars, hostVars, queues, local, TypeOK, ChannelTypeOK,
     localToStdoutLength, localToStderrLength
<1> QED
  BY <1>1, <1>2, <1>3 DEF Next

(* Every state the host end can reach, whatever its peer does, is one its  *)
(* fields are meant for; in particular the offsets stay in their buffers.  *)
THEOREM TypeCorrect == Spec => []TypeOK
<1>1. Init => TypeOK
  BY InitTyped
<1>2. TypeOK /\ [Next]_vars => TypeOK'
  BY TypeStep
<1> QED
  BY <1>1, <1>2, PTL DEF Spec
-----------------------------------------------------------------------------
(* Bounded queues, and QUIT after the output.  QueuesBounded is not        *)
(* inductive: it holds because a packet is awaited only while both queues  *)
(* are below the limit (AwaitsOnlyWhatItCanTake), and because no packet    *)
(* under way is longer than PayloadMax.                                    *)

PayloadsBounded == \A i \in 1 .. Len(toHost) : Len(toHost[i].data) <= PayloadMax

HostInv == /\ TypeOK /\ AwaitsOnlyWhatItCanTake
           /\ PayloadsBounded /\ QueuesBounded

(* The lengths of the queues are numbers.                                  *)
LEMMA LengthsAreNat ==
  ASSUME TypeOK
  PROVE  localToStdoutLength \in Nat /\ localToStderrLength \in Nat
BY DEF TypeOK, localToStdoutLength, localToStderrLength

(* The empty sequence has no element.                                      *)
LEMMA LengthOfEmpty == Len(<< >>) = 0
OBVIOUS

(* The part of HostInv about the host's own fields.                        *)
Fields == AwaitsOnlyWhatItCanTake /\ QueuesBounded

(* Closing from any callback keeps the host's part of HostInv.             *)
LEMMA CloseKeeps ==
  ASSUME TypeOK, Fields, NEW running, NEW viaStale, NEW how,
         NEW txLeft, NEW rxLeft \in {rx, "none"},
         Close(running, viaStale, txLeft, rxLeft, how)
  PROVE  Fields'
<1> USE DEF Fields, AwaitsOnlyWhatItCanTake, QueuesBounded, QueuesBelowMax
<1>1. localToStdoutLength \in Nat /\ localToStderrLength \in Nat
  BY LengthsAreNat
<1>2. CASE Detached(running) /\ state = "INACTIVE"
  BY <1>1, <1>2 DEF Close, Detached, queues, localToStdoutLength,
                    localToStderrLength
<1>3. CASE Detached(running) /\ state # "INACTIVE"
  BY <1>3, LengthOfEmpty DEF Close, Detached, localToStdoutLength,
                             localToStderrLength
<1>4. CASE DetachRefused(running, viaStale, txLeft, rxLeft)
  BY <1>1, <1>4 DEF Close, DetachRefused, queues, localToStdoutLength,
                    localToStderrLength
<1> QED
  BY <1>2, <1>3, <1>4 DEF Close

(* So do attach, detach, a failing stream and the timer.                   *)
LEMMA SessionKeeps ==
  ASSUME TypeOK, Fields, Attach \/ Detach \/ StreamError \/ WaitTimeout
  PROVE  Fields'
<1> USE DEF Fields, AwaitsOnlyWhatItCanTake, QueuesBounded, QueuesBelowMax
<1>1. CASE Attach
  BY <1>1 DEF Attach, queues, localToStdoutLength, localToStderrLength
<1>2. CASE Detach
  BY <1>2, LengthOfEmpty DEF Detach, Detached, localToStdoutLength,
                             localToStderrLength
<1>3. CASE StreamError
  BY <1>3, CloseKeeps DEF StreamError
<1>4. CASE WaitTimeout
  BY <1>4 DEF WaitTimeout, queues, localToStdoutLength, localToStderrLength
<1> QED
  BY <1>1, <1>2, <1>3, <1>4

(* So does sending.                                                        *)
LEMMA SendKeeps ==
  ASSUME TypeOK, Fields, StreamSend
  PROVE  Fields'
<1> USE DEF Fields, AwaitsOnlyWhatItCanTake, QueuesBounded, QueuesBelowMax
<1>2. CASE SentPart
  BY <1>2 DEF SentPart, queues, localToStdoutLength, localToStderrLength
<1>3. CASE SentHandshake(Head(tx))
  BY <1>3 DEF SentHandshake, queues, localToStdoutLength, localToStderrLength
<1>4. CASE SentQuit
  BY <1>4, CloseKeeps DEF SentQuit
<1> QED
  BY <1>2, <1>3, <1>4 DEF StreamSend

(* So do the callbacks of the local streams.                               *)
LEMMA LocalKeeps ==
  ASSUME TypeOK, Fields, NEW viaStale \in BOOLEAN,
         \/ StdinRead(viaStale) \/ StdinClose(viaStale)
         \/ StdoutWrite(viaStale) \/ StderrWrite(viaStale)
         \/ \E s \in {"out", "err"} : OutputClose(s, viaStale)
  PROVE  Fields'
<1> USE DEF Fields, AwaitsOnlyWhatItCanTake, QueuesBounded, QueuesBelowMax
<1>1. localToStdoutLength \in Nat /\ localToStderrLength \in Nat
  BY LengthsAreNat
<1>2. CASE StdinRead(viaStale)
  BY <1>2 DEF StdinRead, queues, localToStdoutLength, localToStderrLength
<1>3. CASE StdinClose(viaStale)
  BY <1>3, CloseKeeps DEF StdinClose
<1>4. CASE \E s \in {"out", "err"} : OutputClose(s, viaStale)
  BY <1>4, CloseKeeps DEF OutputClose
<1>5. CASE StdoutWrite(viaStale)
  BY <1>1, <1>5, LengthOfEmpty DEF StdoutWrite, Drained, localToStdoutLength,
                                   localToStderrLength
<1>6. CASE StderrWrite(viaStale)
  BY <1>1, <1>6, LengthOfEmpty DEF StderrWrite, Drained, localToStdoutLength,
                                   localToStderrLength
<1> QED
  BY <1>2, <1>3, <1>4, <1>5, <1>6

(* So does receiving, as no payload is longer than a packet may be.        *)
LEMMA ReceiveKeeps ==
  ASSUME TypeOK, Fields, PayloadsBounded, StreamReceive
  PROVE  Fields'
<1> DEFINE u == Head(toHost)
<1> USE DEF Fields, AwaitsOnlyWhatItCanTake, QueuesBounded, QueuesBelowMax
<1>1. localToStdoutLength \in Nat /\ localToStderrLength \in Nat
  BY LengthsAreNat
<1>2. /\ u.data \in Seq(Nat) /\ Len(u.data) \in Nat
      /\ Len(u.data) <= PayloadMax
  <2>1. toHost \in Seq(Unit) /\ toHost # << >>
    BY DEF TypeOK, ChannelTypeOK, StreamReceive
  <2>2. u = toHost[1] /\ 1 \in 1 .. Len(toHost) /\ u \in Unit
    BY <2>1
  <2>3. u.data \in Seq(Nat)
    BY <2>2 DEF Unit
  <2>4. Len(toHost[1].data) <= PayloadMax
    BY <2>2 DEF PayloadsBounded
  <2> QED
    BY <2>2, <2>3, <2>4
<1> HIDE DEF u
<1>3. CASE ReceiveHandshake(u)
  BY <1>3 DEF ReceiveHandshake, queues, localToStdoutLength, localToStderrLength
<1>4. CASE ReceiveLength(u)
  BY <1>4 DEF ReceiveLength, queues, localToStdoutLength, localToStderrLength
<1>5. CASE ReceiveOutput(u)
  <2>1. /\ Len(localToStdout \o u.data) = localToStdoutLength + Len(u.data)
        /\ Len(localToStderr \o u.data) = localToStderrLength + Len(u.data)
    BY <1>2, ConcatProperties DEF TypeOK, localToStdoutLength, localToStderrLength
  <2>2. state = "RUNNING" /\ state' = "RUNNING" /\ QueuesBelowMax
    BY <1>5 DEF ReceiveOutput
  <2>3. CASE u.proc = "STDOUT"
    <3>1. /\ localToStdoutLength' = localToStdoutLength + Len(u.data)
          /\ localToStderrLength' = localToStderrLength
      BY <1>5, <2>1, <2>3 DEF ReceiveOutput, localToStdoutLength, localToStderrLength
    <3> QED
      BY <1>1, <1>2, <1>5, <2>2, <3>1 DEF ReceiveOutput
  <2>4. CASE u.proc # "STDOUT"
    <3>1. /\ localToStderrLength' = localToStderrLength + Len(u.data)
          /\ localToStdoutLength' = localToStdoutLength
      BY <1>5, <2>1, <2>4 DEF ReceiveOutput, localToStdoutLength, localToStderrLength
    <3> QED
      BY <1>1, <1>2, <1>5, <2>2, <3>1 DEF ReceiveOutput
  <2> QED
    BY <2>3, <2>4
<1>6. CASE ReceiveExit(u)
  <2>1. exited' # << >>
    <3>1. u.data # << >> /\ exited \in Seq(Nat)
      BY <1>6, HeadOfToHost DEF ReceiveExit, StreamReceive, Unit, u, TypeOK
    <3>2. Head(u.data) \in Nat
      BY <1>2, <3>1
    <3> QED
      BY <1>6, <3>1, <3>2 DEF ReceiveExit
  <2>2. /\ localToStdoutLength' = localToStdoutLength
        /\ localToStderrLength' = localToStderrLength
    BY <1>6 DEF ReceiveExit, queues, localToStdoutLength, localToStderrLength
  <2> QED
    BY <1>1, <1>6, <2>1, <2>2 DEF ReceiveExit, Queued
<1>7. CASE ReceiveBad(u)
  BY <1>7, CloseKeeps DEF ReceiveBad
<1> QED
  BY <1>3, <1>4, <1>5, <1>6, <1>7 DEF StreamReceive, u

(* No payload the peer sends is longer than that.                          *)
LEMMA MessagesShort ==
  \A m \in Messages : \A i \in 1 .. Len(m) : Len(m[i].data) <= PayloadMax
<1> SUFFICES ASSUME NEW m \in Messages
             PROVE  \A i \in 1 .. Len(m) : Len(m[i].data) <= PayloadMax
  OBVIOUS
<1>1. CASE m \in {<< Sync >>, << Noise >>, Packet("EXIT", << 0 >>),
                   Packet("QUIT", << >>)}
  BY <1>1 DEF Packet, Sync, Noise, Byte
<1>2. CASE m \in {Packet(proc, Output(n)) : proc \in {"STDOUT", "STDERR"},
                                            n \in 1 .. PayloadMax}
  <2>1. PICK proc \in {"STDOUT", "STDERR"}, n \in 1 .. PayloadMax :
          m = Packet(proc, Output(n))
    BY <1>2
  <2>2. Len(Output(n)) = n /\ n <= PayloadMax
    BY OutputSeq
  <2>3. /\ Len(m) = 2 /\ m[1].data = << >> /\ m[2].data = Output(n)
    BY <2>1 DEF Packet
  <2> QED
    BY <2>2, <2>3, LengthOfEmpty
<1> QED
  BY <1>1, <1>2 DEF Messages

(* Nothing under way ever is.                                              *)
LEMMA PayloadsKeep ==
  ASSUME TypeOK, PayloadsBounded, [Next]_vars
  PROVE  PayloadsBounded'
<1>1. toHost \in Seq(Unit)
  BY DEF TypeOK, ChannelTypeOK
<1>2. CASE UNCHANGED toHost
  BY <1>2 DEF PayloadsBounded
<1>3. CASE toHost # << >> /\ toHost' = Tail(toHost)
  BY <1>1, <1>3, HeadTailProperties DEF PayloadsBounded
<1>4. CASE PeerSend
  <2>1. PICK m \in Messages : toHost' = toHost \o m
    BY <1>4 DEF PeerSend
  <2>2. m \in Seq(Unit) /\ \A i \in 1 .. Len(m) : Len(m[i].data) <= PayloadMax
    BY MessagesTyped, MessagesShort
  <2>3. Len(toHost') = Len(toHost) + Len(m)
    BY <1>1, <2>1, <2>2, ConcatProperties
  <2>4. ASSUME NEW i \in 1 .. Len(toHost')
        PROVE  Len(toHost'[i].data) <= PayloadMax
    <3>1. CASE i <= Len(toHost)
      BY <1>1, <2>1, <2>2, <2>3, <3>1, ConcatProperties DEF PayloadsBounded
    <3>2. CASE ~(i <= Len(toHost))
      <4>1. i - Len(toHost) \in 1 .. Len(m)
        BY <1>1, <2>2, <2>3, <3>2, LenProperties
      <4>2. toHost'[i] = m[i - Len(toHost)]
        BY <1>1, <2>1, <2>2, <2>3, <3>2, ConcatProperties
      <4> QED
        BY <2>2, <4>1, <4>2
    <3> QED
      BY <3>1, <3>2
  <2> QED
    BY <2>4 DEF PayloadsBounded
<1>5. toHost' = toHost \/ (toHost # << >> /\ toHost' = Tail(toHost)) \/ PeerSend
  BY DEF Next, HostNext, PeerReceive, vars, Attach, Detach, StreamReceive,
     StreamSend, StreamError, WaitTimeout, StdinRead, StdinClose, StdoutWrite,
     StderrWrite, OutputClose
<1> QED
  BY <1>2, <1>3, <1>4, <1>5

(* HostInv is inductive.                                                   *)
LEMMA HostInvStep == HostInv /\ [Next]_vars => HostInv'
<1> SUFFICES ASSUME HostInv, [Next]_vars
             PROVE  HostInv'
  OBVIOUS
<1>1. TypeOK /\ Fields /\ PayloadsBounded
  BY DEF HostInv, Fields
<1>2. ASSUME HostNext PROVE Fields'
  BY <1>1, <1>2, SessionKeeps, SendKeeps, ReceiveKeeps, LocalKeeps DEF HostNext
<1>3. ASSUME UNCHANGED hostVars PROVE Fields'
  BY <1>1, <1>3 DEF Fields, AwaitsOnlyWhatItCanTake, QueuesBounded,
     QueuesBelowMax, hostVars, queues, localToStdoutLength, localToStderrLength
<1>4. Fields'
  BY <1>2, <1>3 DEF Next, vars, PeerSend, PeerReceive
<1> QED
  BY <1>1, <1>4, TypeStep, PayloadsKeep DEF HostInv, Fields

(* HostInv holds initially.                                                *)
LEMMA HostInvInit == Init => HostInv
<1> SUFFICES ASSUME Init PROVE HostInv
  OBVIOUS
<1>1. localToStdoutLength = 0 /\ localToStderrLength = 0 /\ Len(toHost) = 0
  BY LengthOfEmpty DEF Init, HostInit, localToStdoutLength, localToStderrLength
<1>2. AwaitsOnlyWhatItCanTake /\ QueuesBounded /\ PayloadsBounded
  BY <1>1 DEF Init, HostInit, AwaitsOnlyWhatItCanTake, QueuesBounded,
              PayloadsBounded
<1> QED
  BY <1>2, InitTyped DEF HostInv

(* HostInv holds in every state.                                           *)
LEMMA HostInvariant == Spec => []HostInv
BY HostInvInit, HostInvStep, PTL DEF Spec

(* Output is only awaited while RUNNING with room in both queues, and the  *)
(* other states start with empty queues (738-741, 667-689), for every peer *)
(* and any number of sessions.                                             *)
THEOREM AwaitsWhatItCanTake == Spec => []AwaitsOnlyWhatItCanTake
<1>1. HostInv => AwaitsOnlyWhatItCanTake
  BY DEF HostInv
<1> QED
  BY <1>1, HostInvariant, PTL

(* Whatever the peer sends and however often the console is attached, a    *)
(* queue exceeds the limit by less than one packet.                        *)
THEOREM QueuesStayBounded == Spec => []QueuesBounded
<1>1. HostInv => QueuesBounded
  BY DEF HostInv
<1> QED
  BY <1>1, HostInvariant, PTL

(* Whatever the peer sends and however often the console is attached, QUIT *)
(* is prepared only after an exit was reported and all output written out. *)
THEOREM QuitFollowsOutput == Spec => []QuitAfterDrained
<1>1. HostInv => QuitAfterDrained
  BY DEF HostInv, AwaitsOnlyWhatItCanTake, QuitAfterDrained, Queued
<1> QED
  BY <1>1, HostInvariant, PTL
-----------------------------------------------------------------------------
(* No lost wakeup: an attached console that has not been closed always has *)
(* something to wait for.  NeverStranded is inductive together with        *)
(* HostInv, which says that nothing is queued in the states that do not    *)
(* drain queues.                                                           *)

(* A message of more than one unit leaves something behind its first.      *)
LEMMA LongPacket ==
  ASSUME NEW s \in Seq(Unit), Len(s) > 1
  PROVE  Tail(s) # << >>
<1>1. s # << >> /\ Len(s) \in Nat
  BY LengthOfEmpty, LenProperties
<1>2. Len(Tail(s)) = Len(s) - 1
  BY <1>1, HeadTailProperties
<1>3. Len(Tail(s)) # 0
  BY <1>1, <1>2
<1> QED
  BY <1>3, LengthOfEmpty

(* NeverStranded is inductive relative to HostInv.                         *)
LEMMA StrandStep ==
  ASSUME HostInv, NeverStranded, [Next]_vars
  PROVE  NeverStranded'
<1> USE DEF NeverStranded
<1>1. /\ localToStdoutLength \in Nat /\ localToStderrLength \in Nat
      /\ tx \in Seq(Unit) /\ timers \in Nat /\ rx \in RxBuffer
      /\ AwaitsOnlyWhatItCanTake
  BY LengthsAreNat DEF HostInv, TypeOK, TxBuffer
<1>2. << Wait >> # << >> /\ << Sync >> # << >>
  OBVIOUS
<1>3. ASSUME NEW running, NEW viaStale, NEW txLeft, NEW rxLeft,
             NEW how \in {"clean", "error"},
             Close(running, viaStale, txLeft, rxLeft, how)
      PROVE  NeverStranded'
  <2>1. closed \in Seq({"clean", "error"}) /\ closed' = Append(closed, how)
    BY <1>3 DEF Close, HostInv, TypeOK
  <2>2. closed' # << >>
    BY <2>1
  <2> QED
    BY <2>2
<1>4. CASE Attach
  BY <1>2, <1>4 DEF Attach
<1>5. CASE Detach
  BY <1>5 DEF Detach, Detached
<1>6. CASE StreamReceive
  <2> DEFINE u == Head(toHost)
  <2> HIDE DEF u
  <2>1. CASE ReceiveHandshake(u)
    BY <1>1, <1>2, <2>1 DEF ReceiveHandshake, AwaitsOnlyWhatItCanTake
  <2>2. CASE ReceiveLength(u)
    BY <1>1, <2>2 DEF ReceiveLength, AwaitsOnlyWhatItCanTake
  <2>3. CASE ReceiveOutput(u)
    BY <1>1, <2>3 DEF ReceiveOutput, AwaitsOnlyWhatItCanTake
  <2>4. CASE ReceiveExit(u)
    BY <1>1, <2>4, QuitTyped DEF ReceiveExit, Queued, queues,
       localToStdoutLength, localToStderrLength
  <2>5. CASE ReceiveBad(u)
    BY <1>3, <2>5 DEF ReceiveBad
  <2> QED
    BY <1>6, <2>1, <2>2, <2>3, <2>4, <2>5 DEF StreamReceive, u
<1>7. CASE StreamSend
  <2>1. CASE SentPart /\ Len(tx) > 1
    <3>1. tx' # << >>
      BY <1>1, <2>1, LongPacket DEF SentPart
    <3> QED
      BY <1>1, <2>1, <3>1 DEF SentPart, queues, QueuesBelowMax, Queued,
         localToStdoutLength, localToStderrLength
  <2>2. CASE SentPart /\ state \in {"RUNNING", "STOPPING"}
    BY <1>1, <2>2 DEF SentPart, queues, QueuesBelowMax, Queued,
       localToStdoutLength, localToStderrLength
  <2>3. CASE SentHandshake(Head(tx))
    <3>1. CASE state = "WAITING"
      BY <1>1, <2>3, <3>1 DEF SentHandshake
    <3>2. CASE state = "SYNCING" /\ tx' = << Sync >> /\ UNCHANGED state
      BY <1>2, <3>2
    <3>3. CASE state' = "RUNNING" /\ rx' = "length"
      BY <3>3
    <3> QED
      BY <2>3, <3>1, <3>2, <3>3 DEF SentHandshake
  <2>4. CASE SentQuit
    BY <1>3, <2>4 DEF SentQuit
  <2> QED
    BY <1>7, <2>1, <2>2, <2>3, <2>4 DEF StreamSend
<1>8. CASE StreamError
  BY <1>3, <1>8 DEF StreamError
<1>9. CASE WaitTimeout
  BY <1>1, <1>2, <1>9 DEF WaitTimeout, queues, QueuesBelowMax, Queued,
     localToStdoutLength, localToStderrLength
<1>10. ASSUME NEW viaStale \in BOOLEAN, StdinRead(viaStale)
       PROVE  NeverStranded'
  <2>1. tx' # << >>
    BY <1>10 DEF StdinRead, Packet
  <2> QED
    BY <1>1, <1>10, <2>1 DEF StdinRead, queues, QueuesBelowMax, Queued,
       localToStdoutLength, localToStderrLength
<1>11. ASSUME NEW viaStale \in BOOLEAN, StdoutWrite(viaStale)
       PROVE  NeverStranded'
  BY <1>1, <1>11, QuitTyped, LengthOfEmpty DEF StdoutWrite, Drained, QueuesBelowMax,
     Queued, localToStdoutLength, localToStderrLength,
     AwaitsOnlyWhatItCanTake, RxBuffer
<1>12. ASSUME NEW viaStale \in BOOLEAN, StderrWrite(viaStale)
       PROVE  NeverStranded'
  BY <1>1, <1>12, QuitTyped, LengthOfEmpty DEF StderrWrite, Drained, QueuesBelowMax,
     Queued, localToStdoutLength, localToStderrLength,
     AwaitsOnlyWhatItCanTake, RxBuffer
<1>13. ASSUME NEW viaStale \in BOOLEAN,
              StdinClose(viaStale) \/ \E s \in {"out", "err"} : OutputClose(s, viaStale)
       PROVE  NeverStranded'
  BY <1>3, <1>13 DEF StdinClose, OutputClose
<1>14. CASE UNCHANGED hostVars
  BY <1>14 DEF hostVars, queues, QueuesBelowMax, Queued, localToStdoutLength,
     localToStderrLength
<1> QED
  BY <1>4, <1>5, <1>6, <1>7, <1>8, <1>9, <1>10, <1>11, <1>12, <1>13, <1>14
     DEF Next, HostNext, vars, PeerSend, PeerReceive

(* No sequence of callbacks, failures and sessions leaves the console      *)
(* attached and waiting for nothing, unless it has said "closed": only a   *)
(* terminal that cannot be restored leaves it attached then.               *)
THEOREM NoLostWakeup == Spec => []NeverStranded
<1>1. Init => NeverStranded
  BY DEF Init, HostInit, NeverStranded
<1>2. HostInv /\ NeverStranded /\ [Next]_vars => NeverStranded'
  BY StrandStep
<1> QED
  BY <1>1, <1>2, HostInvariant, PTL DEF Spec
-----------------------------------------------------------------------------
(* In the first session no source of an earlier one can put a packet into  *)
(* the handshake.  (With more sessions it can: detach leaves its sources   *)
(* attached to the main loop.)                                             *)
FirstSession ==
  /\ attaches = 0 => state = "INACTIVE"
  /\ attaches = 0 \/ state # "INACTIVE" => \A s \in Sources : stale[s] = 0
  /\ state \in {"WAITING", "SYNCING"} => tx \in {<< >>, << Wait >>, << Sync >>}
  /\ state = "STOPPING" => tx = << >>

(* What fires does so in the session, or after it.                         *)
LEMMA FiresInSession ==
  ASSUME TypeOK, FirstSession, NEW s \in Sources, NEW viaStale \in BOOLEAN,
         Fires(s, viaStale)
  PROVE  /\ attaches # 0
         /\ viaStale => state = "INACTIVE"
         /\ s = "in" => state \in {"INACTIVE", "RUNNING"}
<1>1. s \in {"in", "out", "err"}
  BY DEF Sources
<1>2. CASE viaStale
  BY <1>2 DEF Fires, FirstSession, TypeOK, Sources
<1>3. CASE ~viaStale
  BY <1>1, <1>3 DEF Fires, Live, Need, FirstSession
<1> QED
  BY <1>2, <1>3

(* Closing keeps it: tx stays, or nothing is left of it.                   *)
LEMMA CloseFirst ==
  ASSUME TypeOK, FirstSession, attaches # 0,
         NEW running, NEW viaStale \in BOOLEAN, NEW txLeft \in {tx, << >>}, NEW rxLeft, NEW how,
         viaStale => state = "INACTIVE",
         Close(running, viaStale, txLeft, rxLeft, how)
  PROVE  FirstSession'
<1>1. attaches' = attaches
  BY DEF Close
<1>2. CASE Detached(running)
  BY <1>1, <1>2 DEF Detached, FirstSession
<1>3. CASE DetachRefused(running, viaStale, txLeft, rxLeft)
  BY <1>1, <1>3 DEF DetachRefused, FirstSession
<1> QED
  BY <1>2, <1>3 DEF Close

(* With one session, every step keeps it.                                  *)
LEMMA FirstStep ==
  ASSUME MaxAttach = 1, TypeOK, FirstSession, [Next]_vars
  PROVE  FirstSession'
<1>1. attaches \in 0 .. 1 /\ stale \in [Sources -> Nat] /\ tx \in Seq(Unit)
  BY DEF TypeOK, TxBuffer
<1>2. attaches = 0 => state = "INACTIVE"
  BY DEF FirstSession
<1>3. CASE Attach
  BY <1>1, <1>3 DEF Attach, UpdateEvents, FirstSession
<1>4. CASE Detach
  BY <1>1, <1>4 DEF Detach, Detached, FirstSession
<1>5. CASE StreamReceive
  <2> DEFINE u == Head(toHost)
  <2> HIDE DEF u
  <2>1. state # "INACTIVE"
    BY <1>5 DEF StreamReceive, WatchReadable
  <2>2. CASE ReceiveHandshake(u) \/ ReceiveLength(u) \/ ReceiveOutput(u) \/ ReceiveExit(u)
    BY <1>2, <2>1, <2>2 DEF ReceiveHandshake, ReceiveLength, ReceiveOutput, ReceiveExit,
       UpdateEvents, FirstSession
  <2>3. CASE ReceiveBad(u)
    BY <1>2, <2>1, <2>3, CloseFirst DEF ReceiveBad
  <2> QED
    BY <1>5, <2>2, <2>3 DEF StreamReceive, u
<1>6. CASE StreamSend
  <2>1. state # "INACTIVE" /\ tx # << >>
    BY <1>6 DEF StreamSend, WatchWritable
  <2>2. CASE SentPart /\ (Len(tx) > 1 \/ state \in {"RUNNING", "STOPPING"})
    <3>1. Len(<< Wait >>) = 1 /\ Len(<< Sync >>) = 1
      OBVIOUS
    <3>2. state \notin {"WAITING", "SYNCING", "STOPPING"}
      <4>1. state # "STOPPING"
        BY <2>1 DEF FirstSession
      <4>2. ASSUME state \in {"WAITING", "SYNCING"} PROVE FALSE
        <5>1. tx = << Wait >> \/ tx = << Sync >>
          BY <2>1, <4>2 DEF FirstSession
        <5>2. Len(tx) = 1
          BY <3>1, <5>1
        <5> QED
          BY <2>2, <4>2, <5>2
      <4> QED
        BY <4>1, <4>2
    <3> QED
      BY <1>2, <2>1, <2>2, <3>2 DEF SentPart, UpdateEvents, FirstSession
  <2>3. CASE SentHandshake(Head(tx))
    BY <1>2, <2>1, <2>3 DEF SentHandshake, UpdateEvents, FirstSession
  <2>4. CASE SentQuit
    BY <1>2, <2>1, <2>4, CloseFirst DEF SentQuit
  <2> QED
    BY <1>6, <2>2, <2>3, <2>4 DEF StreamSend
<1>7. CASE StreamError
  BY <1>2, <1>7, CloseFirst DEF StreamError, WatchReadable, WatchWritable
<1>8. CASE WaitTimeout
  BY <1>8 DEF WaitTimeout, UpdateEvents, FirstSession
<1>9. ASSUME NEW viaStale \in BOOLEAN, StdinRead(viaStale)
      PROVE  FirstSession'
  <2>1. attaches # 0 /\ state \in {"INACTIVE", "RUNNING"} /\ (viaStale => state = "INACTIVE")
    BY <1>9, FiresInSession DEF StdinRead, Sources
  <2> QED
    BY <1>9, <2>1 DEF StdinRead, UpdateEventsAfter, FirstSession
<1>10. ASSUME NEW viaStale \in BOOLEAN, StdoutWrite(viaStale)
       PROVE  FirstSession'
  <2>1. attaches # 0 /\ (viaStale => state = "INACTIVE")
    BY <1>10, FiresInSession DEF StdoutWrite, Sources
  <2>2. \/ UNCHANGED << state, tx >>
        \/ state = "STOPPING" /\ state' = "FINISHED"
    BY <1>10 DEF StdoutWrite, Drained
  <2> QED
    BY <1>10, <2>1, <2>2 DEF StdoutWrite, UpdateEventsAfter, FirstSession
<1>11. ASSUME NEW viaStale \in BOOLEAN, StderrWrite(viaStale)
       PROVE  FirstSession'
  <2>1. attaches # 0 /\ (viaStale => state = "INACTIVE")
    BY <1>11, FiresInSession DEF StderrWrite, Sources
  <2>2. \/ UNCHANGED << state, tx >>
        \/ state = "STOPPING" /\ state' = "FINISHED"
    BY <1>11 DEF StderrWrite, Drained
  <2> QED
    BY <1>11, <2>1, <2>2 DEF StderrWrite, UpdateEventsAfter, FirstSession
<1>12. ASSUME NEW viaStale \in BOOLEAN,
              StdinClose(viaStale) \/ \E s \in {"out", "err"} : OutputClose(s, viaStale)
       PROVE  FirstSession'
  BY <1>12, FiresInSession, CloseFirst DEF StdinClose, OutputClose, Sources
<1>13. CASE UNCHANGED hostVars
  BY <1>13 DEF hostVars, FirstSession
<1> QED
  BY <1>3, <1>4, <1>5, <1>6, <1>7, <1>8, <1>9, <1>10, <1>11, <1>12, <1>13
     DEF Next, HostNext, vars, PeerSend, PeerReceive

(* What a step that sends anything but a handshake byte needs.             *)
SendsData ==
  Len(toGuest') > Len(toGuest) /\ toGuest'[Len(toGuest')].part # "byte"
    => state \in {"RUNNING", "FINISHED"}

(* In one session no STDIN packet reaches a guest that is still in the     *)
(* handshake, whatever the guest sends and whichever callbacks run.        *)
THEOREM HandshakeBytesFirst ==
  ASSUME MaxAttach = 1 PROVE Spec => DataOnlyAfterSync
<1>1. Init => FirstSession
  BY DEF Init, HostInit, FirstSession, Sources
<1>2. TypeOK /\ FirstSession /\ [Next]_vars => FirstSession'
  BY FirstStep
<1>3. TypeOK /\ FirstSession /\ [Next]_vars => SendsData
  <2> SUFFICES ASSUME TypeOK, FirstSession, [Next]_vars PROVE SendsData
    OBVIOUS
  <2>1. toGuest \in Seq(Unit) /\ tx \in Seq(Unit) /\ state \in States
    BY DEF TypeOK, ChannelTypeOK, TxBuffer
  <2>2. CASE StreamSend
    <3>1. /\ toGuest' = Append(toGuest, Head(tx)) /\ tx # << >> /\ state # "INACTIVE"
      BY <2>2 DEF StreamSend, WatchWritable
    <3>2. Head(tx) \in Unit
      BY <2>1, <3>1
    <3>3. toGuest'[Len(toGuest')] = Head(tx)
      BY <2>1, <3>1, <3>2, AppendProperties, LenProperties
    <3>4. state \in {"WAITING", "SYNCING"} => Head(tx) \in {Wait, Sync}
      BY <3>1 DEF FirstSession
    <3>5. state # "STOPPING"
      BY <3>1 DEF FirstSession
    <3>6. Wait.part = "byte" /\ Sync.part = "byte"
      BY DEF Wait, Sync, Byte
    <3> QED
      BY <2>1, <3>1, <3>3, <3>4, <3>5, <3>6 DEF SendsData, States
  <2>3. CASE toGuest' = toGuest
    BY <2>1, <2>3 DEF SendsData
  <2>4. CASE PeerReceive
    BY <2>1, <2>4, HeadTailProperties, LenProperties DEF PeerReceive, SendsData
  <2> QED
    BY <2>2, <2>3, <2>4 DEF Next, HostNext, PeerSend, vars, Attach, Detach, StreamReceive,
       StreamError, WaitTimeout, StdinRead, StdinClose, StdoutWrite, StderrWrite, OutputClose
<1>4. Spec => [][SendsData]_vars
  BY <1>1, <1>2, <1>3, TypeCorrect, PTL DEF Spec
<1> QED
  BY <1>4 DEF DataOnlyAfterSync, SendsData
=============================================================================
