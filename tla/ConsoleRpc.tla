---------------------------- MODULE ConsoleRpc ----------------------------
(***************************************************************************)
(* GVirSandboxConsoleRpc, the host end of the sandbox console              *)
(* (libvirt-sandbox-console-rpc.c).  Every GLib callback and every API     *)
(* call is one action.  do_console_rpc_update_events runs at the end of    *)
(* each, so which event sources exist is a function of the state (Need);   *)
(* "stale" counts the sources detach drops without destroying them and     *)
(* "dead" the pointers that outlive their source.                          *)
(***************************************************************************)
EXTENDS RpcChannel

CONSTANTS
  MaxQueued,    \* GVIR_SANDBOX_CONSOLE_MAX_QUEUED_DATA
  MaxIO,        \* MAX_IO, the most bytes one read of stdin returns
  StdinTotal,   \* bytes that can be read from the local stdin before EOF
  MaxAttach,    \* bound on the calls of attach
  Tty,          \* the local stdin is a terminal, the escape key is obeyed
  TermFails,    \* restoring the terminal attributes may fail
  LocalFails,   \* reads and writes of the local streams may fail
  StreamFails   \* receiving and sending on the console stream may fail

ASSUME HostAssumption ==
  /\ MaxQueued \in Nat \ {0} /\ MaxIO \in Nat \ {0}
  /\ StdinTotal \in Nat /\ MaxAttach \in Nat \ {0}
  /\ {Tty, TermFails, LocalFails, StreamFails} \subseteq BOOLEAN
  /\ TermFails => Tty

VARIABLES
  state,               \* GVirSandboxConsoleRpcState
  tx, rx,              \* packets being sent and received
  localToStdout, localToStdoutOffset,
  localToStderr, localToStderrOffset,
  localEOF,            \* stdin has shown EOF; survives detach
  timers,              \* pending 50ms handshake timeouts
  stale,               \* sources still attached after detach forgot them
  dead,                \* non-NULL source pointers whose source is gone
  stdinRead,           \* bytes taken from the local stdin
  stdoutWritten, stderrWritten,  \* what reached the local stdout and stderr
  exited,              \* "exited" signals emitted since attach: the statuses
  closed,              \* "closed" signals emitted since attach
  attaches

local    == << stdinRead, stdoutWritten, stderrWritten >>
queues   == << localToStdout, localToStdoutOffset,
               localToStderr, localToStderrOffset >>
hostVars == << state, tx, rx, queues, localEOF, timers, stale, dead, local,
               exited, closed, attaches >>

States  == {"INACTIVE", "WAITING", "SYNCING", "RUNNING", "STOPPING", "FINISHED"}
Sources == {"in", "out", "err"}

localToStdoutLength == Len(localToStdout)
localToStderrLength == Len(localToStderr)

Queued == localToStdoutLength + localToStderrLength

QueuesBelowMax == /\ localToStdoutLength < MaxQueued
                  /\ localToStderrLength < MaxQueued

Bit(b) == IF b THEN 1 ELSE 0
-----------------------------------------------------------------------------
(* do_console_rpc_update_events: which sources the state asks for.         *)

(* Mutants of Need: stdin is read before SYNC is out, or while a packet is *)
(* being sent, which it then replaces.                                     *)
NeedEarly(s) ==
  CASE s = "in"  -> state \in {"SYNCING", "RUNNING"} /\ ~localEOF
    [] s = "out" -> state \in {"RUNNING", "STOPPING"} /\ localToStdoutLength > 0
    [] s = "err" -> state \in {"RUNNING", "STOPPING"} /\ localToStderrLength > 0

NeedWhileSending(s) ==
  CASE s = "in"  -> state = "RUNNING" /\ ~localEOF
    [] s = "out" -> state \in {"RUNNING", "STOPPING"} /\ localToStdoutLength > 0
    [] s = "err" -> state \in {"RUNNING", "STOPPING"} /\ localToStderrLength > 0

Need(s) ==
  CASE s = "in"  -> state = "RUNNING" /\ tx = << >> /\ ~localEOF
    [] s = "out" -> state \in {"RUNNING", "STOPPING"} /\ localToStdoutLength > 0
    [] s = "err" -> state \in {"RUNNING", "STOPPING"} /\ localToStderrLength > 0

Live(s) == Need(s) /\ s \notin dead

WatchReadable ==
  /\ state \in {"WAITING", "SYNCING", "RUNNING", "STOPPING"}
  /\ rx # "none"
  /\ "watch" \notin dead

WatchWritable == state # "INACTIVE" /\ tx # << >> /\ "watch" \notin dead

(* After a stream callback: the watch is replaced, unneeded sources go.    *)
UpdateEvents ==
  /\ stale' = stale
  /\ dead' = {s \in dead \ {"watch"} : Need(s)'}

(* After the callback of a local source, whose pointer was reset.  A stale *)
(* source that fires resets the pointer of the live one, which thereby is  *)
(* forgotten in its turn.                                                  *)
UpdateEventsAfter(s, viaStale) ==
  /\ stale' = IF viaStale THEN [stale EXCEPT ![s] = @ - 1 + Bit(Live(s))]
                          ELSE stale
  /\ dead' = {d \in dead \ {"watch", s} : Need(d)'}

(* Mutant of Fires: a source that was destroyed is dispatched once more.   *)
FiresAgain(s, viaStale) == viaStale \/ Live(s)

Fires(s, viaStale) == IF viaStale THEN stale[s] > 0 ELSE Live(s)
-----------------------------------------------------------------------------
HostInit ==
  /\ state = "INACTIVE" /\ tx = << >> /\ rx = "none"
  /\ localToStdout = << >> /\ localToStdoutOffset = 0
  /\ localToStderr = << >> /\ localToStderrOffset = 0
  /\ localEOF = FALSE /\ timers = 0
  /\ stale = [s \in Sources |-> 0] /\ dead = {}
  /\ stdinRead = 0 /\ stdoutWritten = << >> /\ stderrWritten = << >>
  /\ exited = << >> /\ closed = << >> /\ attaches = 0

(* gvir_sandbox_console_rpc_attach, once the console stream is open.  A    *)
(* call that fails before that leaves the state as it was.                 *)
Attach ==
  /\ state = "INACTIVE" /\ attaches < MaxAttach
  /\ state' = "WAITING" /\ tx' = << Wait >> /\ rx' = "byte"
  /\ attaches' = attaches + 1 /\ exited' = << >> /\ closed' = << >>
  /\ UNCHANGED << queues, localEOF, timers, local, toGuest, toHost >>
  /\ UpdateEvents

(* gvir_sandbox_console_rpc_detach when the terminal could be restored.    *)
(* The pointers are dropped, the sources behind them stay attached; only   *)
(* the source whose callback is running goes, as the callback says FALSE.  *)
Detached(running) ==
  /\ stale' = [s \in Sources |->
                 stale[s] + Bit(Live(s)) - Bit(s = running)]
  /\ IF state = "INACTIVE"
     THEN UNCHANGED << state, tx, rx, queues, dead >>
     ELSE /\ state' = "INACTIVE" /\ tx' = << >> /\ rx' = "none"
          /\ localToStdout' = << >> /\ localToStdoutOffset' = 0
          /\ localToStderr' = << >> /\ localToStderrOffset' = 0
          /\ dead' = {}

(* detach when tcsetattr fails: it returns before it has changed anything. *)
(* The source of the running callback goes all the same, leaving a dead    *)
(* pointer.  Only the stdin callback goes on to update_events.             *)
DetachRefused(running, viaStale, txLeft, rxLeft) ==
  /\ TermFails /\ state # "INACTIVE"
  /\ tx' = txLeft /\ rx' = rxLeft
  /\ stale' = IF viaStale THEN [stale EXCEPT ![running] = @ - 1] ELSE stale
  /\ dead' = (IF running = "in" THEN dead \ {"watch"} ELSE dead)
               \cup (IF viaStale THEN {} ELSE {running})
  /\ UNCHANGED << state, queues >>

(* do_console_rpc_close: detach, whatever it returns, then emit "closed".  *)
Close(running, viaStale, txLeft, rxLeft, how) ==
  /\ \/ Detached(running)
     \/ DetachRefused(running, viaStale, txLeft, rxLeft)
  /\ closed' = Append(closed, how)
  /\ UNCHANGED << localEOF, timers, exited, attaches >>

(* The caller's own gvir_sandbox_console_detach; a refused one is a no-op. *)
Detach ==
  /\ state # "INACTIVE"
  /\ Detached("none")
  /\ UNCHANGED << localEOF, timers, local, exited, closed, attaches,
                  toGuest, toHost >>
-----------------------------------------------------------------------------
(* do_console_rpc_stream_readwrite, the reading half: one unit received.   *)
(* The loop that drains the stream is several of these steps in a row.     *)

(* Mutant of ReceiveHandshake: any byte is taken for SYNC.                 *)
ReceiveHandshakeAny(u) ==
  /\ rx = "byte"
  /\ state' = "SYNCING" /\ tx' = << Sync >> /\ rx' = "none"
  /\ UNCHANGED << queues, exited, closed, localEOF, timers, attaches >>
  /\ UpdateEvents

(* do_console_rpc_process_packet_rx in WAITING: anything that is not SYNC  *)
(* is skipped and the next byte is awaited.                                *)
ReceiveHandshake(u) ==
  /\ rx = "byte"
  /\ IF u = Sync
     THEN state' = "SYNCING" /\ tx' = << Sync >> /\ rx' = "none"
     ELSE UNCHANGED << state, tx, rx >>
  /\ UNCHANGED << queues, exited, closed, localEOF, timers, attaches >>
  /\ UpdateEvents

ReceiveLength(u) ==
  /\ rx = "length" /\ u.part = "length"
  /\ rx' = "body"
  /\ UNCHANGED << state, tx, queues, exited, closed, localEOF, timers,
                  attaches >>
  /\ UpdateEvents

(* do_console_rpc_dispatch_proc for the output of the application, and the *)
(* re-arming of rx in process_packet_rx: the queues are looked at before   *)
(* the next packet is read, never against the size of this one.            *)
ReceiveOutput(u) ==
  /\ rx = "body" /\ u.part = "body" /\ u.proc \in {"STDOUT", "STDERR"}
  /\ IF u.proc = "STDOUT"
     THEN /\ localToStdout' = localToStdout \o u.data
          /\ UNCHANGED localToStderr
     ELSE /\ localToStderr' = localToStderr \o u.data
          /\ UNCHANGED localToStdout
  /\ rx' = IF QueuesBelowMax' THEN "length" ELSE "none"
  /\ UNCHANGED << state, tx, localToStdoutOffset, localToStderrOffset, exited,
                  closed, localEOF, timers, attaches >>
  /\ UpdateEvents

(* ... and for EXIT.  STOPPING drops whatever of a STDIN packet is unsent, *)
(* FINISHED overwrites it with QUIT.                                       *)
ReceiveExit(u) ==
  /\ rx = "body" /\ u.part = "body" /\ u.proc = "EXIT"
  /\ exited' = Append(exited, Head(u.data))
  /\ IF Queued = 0
     THEN state' = "FINISHED" /\ tx' = Packet("QUIT", << >>)
     ELSE state' = "STOPPING" /\ tx' = << >>
  /\ rx' = "none"
  /\ UNCHANGED << queues, closed, localEOF, timers, attaches >>
  /\ UpdateEvents

(* A length word that cannot be decoded, or a procedure the guest must not *)
(* send: the packet is freed and the console closed.                       *)
ReceiveBad(u) ==
  /\ \/ rx = "length" /\ u.part # "length"
     \/ rx = "body" /\ ~(u.part = "body" /\ u.proc \in {"STDOUT", "STDERR", "EXIT"})
  /\ Close("watch", FALSE, tx, "none", "error")

StreamReceive ==
  /\ WatchReadable /\ toHost # << >>
  /\ LET u == Head(toHost)
     IN  \/ ReceiveHandshake(u)
         \/ ReceiveLength(u)
         \/ ReceiveOutput(u)
         \/ ReceiveExit(u)
         \/ ReceiveBad(u)
  /\ toHost' = Tail(toHost)
  /\ UNCHANGED << local, toGuest >>
-----------------------------------------------------------------------------
(* The writing half, and do_console_rpc_process_packet_tx.                 *)

SentHandshake(u) ==
  /\ \/ /\ state = "WAITING"
        /\ timers' = timers + 1 /\ tx' = << >>
        /\ UNCHANGED << state, rx >>
     \/ /\ state = "SYNCING" /\ u = Wait
        /\ tx' = << Sync >>
        /\ UNCHANGED << state, rx, timers >>
     \/ /\ state = "SYNCING" /\ u # Wait
        /\ state' = "RUNNING" /\ rx' = "length" /\ tx' = << >>
        /\ UNCHANGED timers
  /\ UNCHANGED << queues, exited, closed, localEOF, attaches >>
  /\ UpdateEvents

SentPart ==
  /\ tx' = Tail(tx)
  /\ UNCHANGED << state, rx, queues, exited, closed, localEOF, timers,
                  attaches >>
  /\ UpdateEvents

(* FINISHED and QUIT is out: close.  When the terminal cannot be restored  *)
(* the state stays FINISHED, with no packet and hence no watch any more.   *)
SentQuit == Close("watch", FALSE, << >>, rx, "clean")

StreamSend ==
  /\ WatchWritable /\ HasRoom(toGuest)
  /\ toGuest' = Append(toGuest, Head(tx))
  /\ IF Len(tx) > 1 \/ state \in {"RUNNING", "STOPPING"}
     THEN SentPart
     ELSE IF state = "FINISHED" THEN SentQuit
                                ELSE SentHandshake(Head(tx))
  /\ UNCHANGED << local, toHost >>

(* gvir_stream_receive or gvir_stream_send failed.                         *)
StreamError ==
  /\ StreamFails
  /\ WatchReadable \/ WatchWritable
  /\ Close("watch", FALSE, tx, rx, "error")
  /\ UNCHANGED << local, toGuest, toHost >>

(* Mutant of WaitTimeout: it forgets to queue the wait byte.               *)
WaitTimeoutIdle ==
  /\ timers > 0 /\ timers' = timers - 1
  /\ UNCHANGED << state, tx, rx, queues, localEOF, stale, dead, local, exited,
                  closed, attaches, toGuest, toHost >>

(* do_console_handshake_wait_tx_queue.                                     *)
WaitTimeout ==
  /\ timers > 0
  /\ timers' = timers - 1
  /\ IF state = "WAITING" /\ tx = << >>
     THEN tx' = << Wait >> ELSE UNCHANGED tx
  /\ UNCHANGED << state, rx, queues, localEOF, local, exited, closed, attaches,
                  toGuest, toHost >>
  /\ IF state = "WAITING" /\ tx = << >>
     THEN UpdateEvents ELSE UNCHANGED << stale, dead >>
-----------------------------------------------------------------------------
(* do_console_rpc_stdin_read.  EOF is sent as a packet without payload.    *)
StdinRead(viaStale) ==
  /\ Fires("in", viaStale)
  /\ \E n \in 0 .. MaxIO :
       /\ stdinRead + n <= StdinTotal
       /\ n = 0 => stdinRead = StdinTotal
       /\ localEOF' = (localEOF \/ n = 0)
       /\ tx' = Packet("STDIN", Bytes(stdinRead + 1, stdinRead + n))
       /\ stdinRead' = stdinRead + n
  /\ UNCHANGED << state, rx, queues, timers, stdoutWritten, stderrWritten,
                  exited, closed, attaches, toGuest, toHost >>
  /\ UpdateEventsAfter("in", viaStale)

(* The escape key, or a read error.                                        *)
StdinClose(viaStale) ==
  /\ Fires("in", viaStale)
  /\ \E how \in {"clean", "error"} :
       /\ how = "clean" => Tty
       /\ how = "error" => LocalFails
       /\ Close("in", viaStale, tx, rx, how)
  /\ UNCHANGED << local, toGuest, toHost >>

(* Mutants of Drained.  The queue is empty and nobody asks for a packet;   *)
DrainedNoRearm(otherLength) ==
  /\ rx' = rx
  /\ IF state = "STOPPING" /\ otherLength = 0
     THEN state' = "FINISHED" /\ tx' = Packet("QUIT", << >>)
     ELSE UNCHANGED << state, tx >>

(* ... or the next packet is asked for whatever the other queue holds.     *)
DrainedNoLimit(otherLength) ==
  /\ rx' = IF state = "RUNNING" /\ rx = "none" THEN "length" ELSE rx
  /\ IF state = "STOPPING" /\ otherLength = 0
     THEN state' = "FINISHED" /\ tx' = Packet("QUIT", << >>)
     ELSE UNCHANGED << state, tx >>

(* ... or QUIT is sent while the other queue still holds output.           *)
DrainedIgnoresOther(otherLength) ==
  /\ rx' = IF state = "RUNNING" /\ rx = "none" /\ otherLength < MaxQueued
           THEN "length" ELSE rx
  /\ IF state = "STOPPING"
     THEN state' = "FINISHED" /\ tx' = Packet("QUIT", << >>)
     ELSE UNCHANGED << state, tx >>

(* One queue is written out: packets are awaited again, or QUIT is sent,   *)
(* unless the other queue stands against it.                               *)
Drained(otherLength) ==
  /\ rx' = IF state = "RUNNING" /\ rx = "none" /\ otherLength < MaxQueued
           THEN "length" ELSE rx
  /\ IF state = "STOPPING" /\ otherLength = 0
     THEN state' = "FINISHED" /\ tx' = Packet("QUIT", << >>)
     ELSE UNCHANGED << state, tx >>

(* do_console_rpc_stdout_write.                                            *)
StdoutWrite(viaStale) ==
  /\ Fires("out", viaStale)
  /\ \E n \in 0 .. localToStdoutLength - localToStdoutOffset :
       /\ n = 0 => localToStdoutOffset = localToStdoutLength
       /\ stdoutWritten' = stdoutWritten \o
            SubSeq(localToStdout, localToStdoutOffset + 1, localToStdoutOffset + n)
       /\ IF localToStdoutOffset + n = localToStdoutLength
          THEN /\ localToStdout' = << >> /\ localToStdoutOffset' = 0
               /\ Drained(localToStderrLength)
          ELSE /\ localToStdoutOffset' = localToStdoutOffset + n
               /\ UNCHANGED << localToStdout, rx, state, tx >>
  /\ UNCHANGED << localToStderr, localToStderrOffset, localEOF, timers,
                  stdinRead, stderrWritten, exited, closed, attaches,
                  toGuest, toHost >>
  /\ UpdateEventsAfter("out", viaStale)

(* do_console_rpc_stderr_write.  It passes the number of bytes already     *)
(* written, localToStderrOffset, as the number of bytes to write.          *)
StderrWrite(viaStale) ==
  /\ Fires("err", viaStale)
  /\ \E n \in 0 .. localToStderrOffset :
       /\ n = 0 => localToStderrOffset = 0
       /\ stderrWritten' = stderrWritten \o SubSeq(localToStderr, 1, n)
       /\ IF localToStderrOffset + n = localToStderrLength
          THEN /\ localToStderr' = << >> /\ localToStderrOffset' = 0
               /\ Drained(localToStdoutLength)
          ELSE /\ localToStderrOffset' = localToStderrOffset + n
               /\ UNCHANGED << localToStderr, rx, state, tx >>
  /\ UNCHANGED << localToStdout, localToStdoutOffset, localEOF, timers,
                  stdinRead, stdoutWritten, exited, closed, attaches,
                  toGuest, toHost >>
  /\ UpdateEventsAfter("err", viaStale)

(* Writing to the local stdout or stderr failed.                           *)
OutputClose(s, viaStale) ==
  /\ LocalFails /\ Fires(s, viaStale)
  /\ Close(s, viaStale, tx, rx, "error")
  /\ UNCHANGED << local, toGuest, toHost >>
-----------------------------------------------------------------------------
HostNext ==
  \/ Attach \/ Detach
  \/ StreamReceive \/ StreamSend \/ StreamError \/ WaitTimeout
  \/ \E viaStale \in BOOLEAN :
       \/ StdinRead(viaStale) \/ StdinClose(viaStale)
       \/ StdoutWrite(viaStale) \/ StderrWrite(viaStale)
       \/ \E s \in {"out", "err"} : OutputClose(s, viaStale)
===========================================================================
