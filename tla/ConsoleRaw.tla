----------------------------- MODULE ConsoleRaw -----------------------------
(***************************************************************************)
(* GVirSandboxConsoleRaw, a text console without a protocol: the log and   *)
(* the shell console of a sandbox (libvirt-sandbox-console-raw.c).  Two    *)
(* buffers join a local input and output with the console, which is a      *)
(* libvirt stream or, for a direct console, the pseudo-terminal itself.    *)
(* Every GLib callback and every API call is one action.                   *)
(*                                                                         *)
(* As in ConsoleRpc the event sources follow from the state (Need), but    *)
(* for the ones detach forgets (stale) and the pointers that outlive their *)
(* source (dead).                                                          *)
(***************************************************************************)
EXTENDS Naturals, Sequences

CONSTANTS
  BufferLength,   \* consoleToLocalLength and localToConsoleLength
  StdinTotal,     \* bytes that can be read from the local stdin before EOF
  ConsoleTotal,   \* bound on the bytes the guest writes to the console
  MaxAttach,      \* bound on the calls of attach
  MaxClosed,      \* bound on the "closed" signals
  TermFails       \* restoring the terminal attributes may fail

ASSUME RawAssumption ==
  /\ BufferLength \in Nat \ {0} /\ StdinTotal \in Nat /\ ConsoleTotal \in Nat
  /\ MaxAttach \in Nat /\ MaxClosed \in Nat /\ TermFails \in BOOLEAN

VARIABLES
  direct,             \* open the console's pty instead of a stream
  attached, stdio,    \* attached with stdin and stdout, or with stderr only
  consoleToLocal, localToConsole,   \* the buffers up to their offsets
  localEOF,
  stale, dead,
  closed,             \* "closed" signals emitted since attach
  attaches,
  \* since attach: bytes taken from either side and what reached the other
  consoleRead, localWritten, stdinRead, consoleWritten

buffers == << consoleToLocal, localToConsole >>
traffic == << consoleRead, localWritten, stdinRead, consoleWritten >>
vars    == << direct, attached, stdio, buffers, localEOF, stale, dead, closed,
              attaches, traffic >>

Sources == {"stdin", "output", "consoleInput", "consoleOutput"}

consoleToLocalOffset == Len(consoleToLocal)
localToConsoleOffset == Len(localToConsole)

Bit(b) == IF b THEN 1 ELSE 0
Bytes(first, last) == [i \in 1 .. (last - first + 1) |-> first + i - 1]
Rest(s, n) == SubSeq(s, n + 1, Len(s))
-----------------------------------------------------------------------------
(* do_console_raw_update_events: which sources the state asks for.         *)
Need(s) ==
  attached /\
  CASE s = "stdin"         -> stdio /\ localToConsoleOffset < BufferLength /\ ~localEOF
    [] s = "output"        -> consoleToLocalOffset > 0
    [] s = "consoleInput"  -> direct /\ consoleToLocalOffset < BufferLength
    [] s = "consoleOutput" -> direct /\ localToConsoleOffset > 0

Live(s) == Need(s) /\ s \notin dead

Watch == attached /\ ~direct /\ "watch" \notin dead
WatchReadable == Watch /\ consoleToLocalOffset < BufferLength
WatchWritable == Watch /\ localToConsoleOffset > 0

(* A mutant: the output's pointer is never reset.                          *)
ResetsNever(s) == s # "output"

(* The callback of local_write resets the pointer of the stdout source,    *)
(* whichever of stdout and stderr it was called for.                       *)
Resets(s) == s # "output" \/ stdio

(* After a callback has reset the pointer of its source ("none": of none). *)
(* A stale source that fires makes a live one forgotten in its turn.       *)
UpdateEvents(s, viaStale) ==
  /\ stale' = IF ~viaStale THEN stale
              ELSE [stale EXCEPT ![s] = @ - 1 + Bit(Live(s) /\ Resets(s))]
  /\ dead' = LET lost == IF s = "none" \/ viaStale \/ Resets(s) THEN {} ELSE {s}
                 kept == IF s # "none" /\ Resets(s) THEN dead \ {s} ELSE dead
             IN  {d \in (kept \cup lost) \ {"watch"} : Need(d)'}

Fires(s, viaStale) == IF viaStale THEN stale[s] > 0 ELSE Live(s)

(* do_console_raw_local_write finds something to write (else it cannot     *)
(* fail); and a mutant in which a write of nothing is an error.            *)
AnyOutput == TRUE
SomeOutput == consoleToLocalOffset > 0
-----------------------------------------------------------------------------
Init ==
  /\ direct \in BOOLEAN
  /\ attached = FALSE /\ stdio = FALSE
  /\ consoleToLocal = << >> /\ localToConsole = << >> /\ localEOF = FALSE
  /\ stale = [s \in Sources |-> 0] /\ dead = {}
  /\ closed = << >> /\ attaches = 0
  /\ consoleRead = 0 /\ localWritten = << >>
  /\ stdinRead = 0 /\ consoleWritten = << >>

(* gvir_sandbox_console_attach_stdio or attach_stderr, once the console    *)
(* could be opened; a call that fails before changes nothing.              *)
Attach ==
  /\ ~attached /\ attaches < MaxAttach
  /\ attached' = TRUE /\ stdio' \in BOOLEAN
  /\ attaches' = attaches + 1 /\ closed' = << >>
  /\ consoleRead' = 0 /\ localWritten' = << >>
  /\ stdinRead' = 0 /\ consoleWritten' = << >>
  /\ UNCHANGED << direct, buffers, localEOF >>
  /\ UpdateEvents("none", FALSE)

(* A mutant: detach forgets the offset of the output buffer.               *)
DetachedKeepsOutput(running) ==
  /\ attached' = FALSE /\ localToConsole' = << >>
  /\ stale' = [s \in Sources |-> stale[s] + Bit(Live(s)) - Bit(s = running)]
  /\ dead' = {}
  /\ UNCHANGED << direct, stdio, localEOF, consoleToLocal >>

(* gvir_sandbox_console_raw_detach: pointers are dropped, the sources      *)
(* behind them stay attached, all but the one whose callback is running.   *)
Detached(running) ==
  /\ attached' = FALSE /\ consoleToLocal' = << >> /\ localToConsole' = << >>
  /\ stale' = [s \in Sources |-> stale[s] + Bit(Live(s)) - Bit(s = running)]
  /\ dead' = {}
  /\ UNCHANGED << direct, stdio, localEOF >>

(* ... when the terminal cannot be restored, or nothing is attached.       *)
DetachIdle(running, viaStale) ==
  /\ ~attached \/ (TermFails /\ stdio)
  /\ stale' = IF viaStale THEN [stale EXCEPT ![running] = @ - 1] ELSE stale
  /\ dead' = IF viaStale \/ ~attached THEN dead ELSE dead \cup {running}
  /\ UNCHANGED << direct, attached, stdio, buffers, localEOF >>

(* do_console_raw_close: detach, whatever it returns, then emit "closed".  *)
Close(running, viaStale, how) ==
  /\ Len(closed) < MaxClosed
  /\ \/ attached /\ Detached(running)
     \/ DetachIdle(running, viaStale)
  /\ closed' = Append(closed, how)
  /\ UNCHANGED attaches

Detach ==
  /\ attached /\ Detached("none")
  /\ UNCHANGED << closed, attaches, traffic >>
-----------------------------------------------------------------------------
(* A mutant: bytes are received at the start of the buffer.                *)
ReceivesInFront(n) ==
  /\ consoleRead + n <= ConsoleTotal
  /\ consoleToLocal' = Bytes(consoleRead + 1, consoleRead + n) \o consoleToLocal
  /\ consoleRead' = consoleRead + n

(* do_console_raw_stream_readwrite: n bytes received, then m bytes sent.   *)

Receives(n) ==
  /\ consoleRead + n <= ConsoleTotal
  /\ consoleToLocal' = consoleToLocal \o Bytes(consoleRead + 1, consoleRead + n)
  /\ consoleRead' = consoleRead + n

StreamReadWrite ==
  /\ \E n \in 0 .. BufferLength - consoleToLocalOffset,
        m \in 0 .. localToConsoleOffset :
       /\ n + m > 0
       /\ n > 0 => WatchReadable
       /\ m > 0 => WatchWritable
       /\ Receives(n)
       /\ consoleWritten' = consoleWritten \o SubSeq(localToConsole, 1, m)
       /\ localToConsole' = Rest(localToConsole, m)
  /\ UNCHANGED << direct, attached, stdio, localEOF, closed, attaches,
                  localWritten, stdinRead >>
  /\ UpdateEvents("none", FALSE)

(* Receiving or sending fails; or the end of file, after which             *)
(* update_events runs: where detach was refused the watch comes back.      *)
StreamError ==
  /\ WatchReadable \/ WatchWritable
  /\ Close("watch", FALSE, "error")
  /\ UNCHANGED traffic

StreamEOF ==
  /\ WatchReadable /\ Len(closed) < MaxClosed
  /\ \/ Detached("watch")
     \/ TermFails /\ stdio /\ UNCHANGED << direct, attached, stdio, buffers,
                                           localEOF, stale, dead >>
  /\ closed' = Append(closed, "clean")
  /\ UNCHANGED << attaches, traffic >>
-----------------------------------------------------------------------------
(* A mutant: the read ignores what the buffer already holds.               *)
LocalReadsOver(room) ==
  \E n \in 0 .. BufferLength :
    /\ stdinRead + n <= StdinTotal
    /\ n = 0 => room = 0 \/ stdinRead = StdinTotal
    /\ localEOF' = (localEOF \/ n = 0)
    /\ localToConsole' = localToConsole \o Bytes(stdinRead + 1, stdinRead + n)
    /\ stdinRead' = stdinRead + n

(* do_console_raw_local_read.  A stale source finds no buffer, or a full   *)
(* one, and takes the empty read for the end of the input.                 *)
LocalReads(room) ==
  \E n \in 0 .. room :
    /\ stdinRead + n <= StdinTotal
    /\ n = 0 => room = 0 \/ stdinRead = StdinTotal
    /\ localEOF' = (localEOF \/ n = 0)
    /\ localToConsole' = localToConsole \o Bytes(stdinRead + 1, stdinRead + n)
    /\ stdinRead' = stdinRead + n

LocalRead(viaStale) ==
  /\ Fires("stdin", viaStale)
  /\ LocalReads(IF attached /\ stdio THEN BufferLength - localToConsoleOffset ELSE 0)
  /\ UNCHANGED << direct, attached, stdio, consoleToLocal, closed, attaches,
                  consoleRead, localWritten, consoleWritten >>
  /\ UpdateEvents("stdin", viaStale)

(* A read error, or the escape key.                                        *)
LocalReadClose(viaStale) ==
  /\ Fires("stdin", viaStale)
  /\ attached /\ stdio /\ localToConsoleOffset < BufferLength
  /\ \E how \in {"clean", "error"} : Close("stdin", viaStale, how)
  /\ UNCHANGED traffic

(* do_console_raw_local_write.                                             *)
LocalWrite(viaStale) ==
  /\ Fires("output", viaStale)
  /\ \E n \in 0 .. consoleToLocalOffset :
       /\ n = 0 => consoleToLocalOffset = 0
       /\ localWritten' = localWritten \o SubSeq(consoleToLocal, 1, n)
       /\ consoleToLocal' = Rest(consoleToLocal, n)
  /\ UNCHANGED << direct, attached, stdio, localToConsole, localEOF, closed,
                  attaches, consoleRead, stdinRead, consoleWritten >>
  /\ UpdateEvents("output", viaStale)

LocalWriteClose(viaStale) ==
  /\ Fires("output", viaStale) /\ SomeOutput
  /\ Close("output", viaStale, "error")
  /\ UNCHANGED traffic

(* do_console_raw_console_read.                                            *)
ConsoleRead(viaStale) ==
  /\ Fires("consoleInput", viaStale) /\ attached
  /\ \E n \in 1 .. BufferLength - consoleToLocalOffset : Receives(n)
  /\ UNCHANGED << direct, attached, stdio, localToConsole, localEOF, closed,
                  attaches, localWritten, stdinRead, consoleWritten >>
  /\ UpdateEvents("consoleInput", viaStale)

(* A read error, the end of file, for which an empty buffer of a stale     *)
(* source is taken as well, or the escape character in the guest's output. *)
ConsoleReadClose(viaStale) ==
  /\ Fires("consoleInput", viaStale)
  /\ \E how \in {"clean", "error"} :
       /\ how = "error" => attached /\ consoleToLocalOffset < BufferLength
       /\ Close("consoleInput", viaStale, how)
  /\ UNCHANGED traffic

(* do_console_raw_console_write.  It writes the other buffer.              *)
ConsoleWrite(viaStale) ==
  /\ Fires("consoleOutput", viaStale)
  /\ \E n \in 0 .. consoleToLocalOffset :
       /\ n = 0 => consoleToLocalOffset = 0
       /\ consoleWritten' = consoleWritten \o SubSeq(consoleToLocal, 1, n)
       /\ consoleToLocal' = Rest(consoleToLocal, n)
  /\ UNCHANGED << direct, attached, stdio, localToConsole, localEOF, closed,
                  attaches, consoleRead, localWritten, stdinRead >>
  /\ UpdateEvents("consoleOutput", viaStale)

ConsoleWriteClose(viaStale) ==
  /\ Fires("consoleOutput", viaStale) /\ SomeOutput
  /\ Close("consoleOutput", viaStale, "error")
  /\ UNCHANGED traffic
-----------------------------------------------------------------------------
Next ==
  \/ Attach \/ Detach
  \/ StreamReadWrite \/ StreamError \/ StreamEOF
  \/ \E viaStale \in BOOLEAN :
       \/ LocalRead(viaStale) \/ LocalReadClose(viaStale)
       \/ LocalWrite(viaStale) \/ LocalWriteClose(viaStale)
       \/ ConsoleRead(viaStale) \/ ConsoleReadClose(viaStale)
       \/ ConsoleWrite(viaStale) \/ ConsoleWriteClose(viaStale)

Spec == Init /\ [][Next]_vars
-----------------------------------------------------------------------------
(* The types of the variables; the buffers never exceed their allocation.  *)
TypeOK ==
  /\ direct \in BOOLEAN /\ attached \in BOOLEAN /\ stdio \in BOOLEAN
  /\ localEOF \in BOOLEAN
  /\ consoleToLocalOffset <= BufferLength /\ localToConsoleOffset <= BufferLength
  /\ stale \in [Sources -> 0 .. MaxAttach + 1]
  /\ dead \subseteq Sources \cup {"watch"}
  /\ closed \in Seq({"clean", "error"})
  /\ consoleRead \in 0 .. ConsoleTotal /\ stdinRead \in 0 .. StdinTotal

(* While a stream console is attached, what was read from the guest is     *)
(* what was written to the local output and what is still buffered, in     *)
(* order, whatever the sources an earlier session left behind do; and the  *)
(* same of the input (the two buffers of console-raw.c:79-85).             *)
StreamForwards ==
  attached /\ ~direct =>
    /\ localWritten \o consoleToLocal = Bytes(1, consoleRead)
    /\ consoleWritten \o localToConsole = Bytes(1, stdinRead)

(* Input that was read is on its way: an attached stream console whose     *)
(* buffer holds input, or whose output buffer has room, has a watch, and   *)
(* one attached to stdout also writes what it holds.  Only a console that  *)
(* failed and could not be detached may be without (update_events).        *)
StreamNeverStranded ==
  attached /\ ~direct /\ closed = << >> =>
    /\ localToConsoleOffset > 0 \/ consoleToLocalOffset < BufferLength => Watch
    /\ stdio /\ consoleToLocalOffset > 0 => Live("output")

(* A stream console says "closed" only while it is attached, so never      *)
(* twice in a session it could leave: the log console is detached by then, *)
(* an interactive one unless its terminal could not be restored            *)
(* (bin/virt-sandbox.c:30-53 counts on one close per console).             *)
StreamClosesOnce ==
  [][~direct /\ closed' \notin {closed, << >>} =>
       attached /\ (attached' => stdio /\ TermFails)]_vars

(* What a detached console had sources for may still be dispatched, but    *)
(* touches no data: only attach and the live sources move bytes (detach    *)
(* sets the buffers to NULL, console-raw.c:749-753).                       *)
DetachedIsQuiet ==
  [][~attached /\ ~attached' => UNCHANGED << buffers, traffic >>]_vars

(* A log console, attached to stderr, goes on writing what it holds, as    *)
(* "forwards I/O between the GVirStream ... and a local console"           *)
(* (console-raw.c:44-47) says of every raw console.  It does not after a   *)
(* write that took only a part of the buffer.                              *)
LogNeverStranded ==
  attached /\ ~direct /\ ~stdio /\ consoleToLocalOffset > 0 => Live("output")
=============================================================================
