----------------------------- MODULE GuestInit -----------------------------
(***************************************************************************)
(* libvirt-sandbox-init-common, the first process of the guest: the I/O    *)
(* loop that connects the sandboxed application with the console           *)
(* (libvirt-sandbox-init-common.c).  One action handles one descriptor     *)
(* that poll reports.  An iteration that handles several is several such   *)
(* steps in a row: no handler undoes the condition under which the next    *)
(* one was polled without that one testing it again.                       *)
(*                                                                         *)
(* The console is a blocking descriptor, so the loop stops inside read     *)
(* when it has taken a length word (goto readmore) and inside write until  *)
(* a packet is out or, with a part of it written, a signal comes.          *)
(***************************************************************************)
EXTENDS RpcChannel

CONSTANTS
  WantTtys,    \* whether the application may want a pseudo-terminal, not pipes
  PipeCap,     \* bytes a pipe holds
  OutTotal, ErrTotal,  \* bounds on what the application writes
  Statuses,    \* wait statuses a process can end with
  HasOrphan,   \* the application may leave a background process behind
  AppCloses,   \* the application may close descriptors before it exits: a
               \* stream ends when it closes those run_command leaks as well
  RunFails,    \* run_command may fail
  HostHangs    \* the console descriptor may report an error or hang up

ASSUME GuestAssumption ==
  /\ PipeCap \in Nat \ {0} /\ OutTotal \in Nat /\ ErrTotal \in Nat
  /\ Statuses \subseteq Nat /\ Statuses # {}
  /\ WantTtys \subseteq BOOLEAN
  /\ {HasOrphan, AppCloses, RunFails, HostHangs} \subseteq BOOLEAN

VARIABLES
  wantTty,              \* the application is given a pseudo-terminal
  gstate,               \* GVirSandboxConsoleState; BOOT before, OFF after
  grx, gtx,             \* rx and tx of the loop
  quit,
  hostToStdin,          \* bytes for the application not written yet
  appin,                \* its stdin (the master, with a tty) is open here
  appOutEOF, appErrEOF, appQuit, exitstatus,
  \* the kernel and the application
  app, orphan,          \* "none", "running" or "exited"
  appStatus, orphanStatus,
  holders,              \* processes holding the far end of each stream
  inPipe, outPipe, errPipe,
  appRead,              \* bytes the application has read
  outWritten, errWritten,   \* bytes it has written
  zombies, sigchld,     \* children to reap, bytes in the self-pipe
  writing               \* the loop is inside write, a part of tx is out

loopVars  == << wantTty, gstate, grx, gtx, quit, hostToStdin, appin, appOutEOF,
                appErrEOF, appQuit, exitstatus >>
appVars   == << app, orphan, appStatus, orphanStatus, holders, inPipe,
                outPipe, errPipe, appRead, outWritten, errWritten, zombies,
                sigchld, writing >>
guestVars == << loopVars, appVars >>

Streams == {"in", "out", "err"}

InRead == grx = "body"

(* The loop is in poll, perhaps with a part of tx written.                 *)
Polls == gstate \in {"WAITING", "SYNCING", "RUNNING"} /\ ~quit /\ ~InRead /\ ~writing

(* The event masks of the loop: the console is read unless input for the   *)
(* application is pending, the application unless a packet is.             *)
PollsStdin == gstate = "RUNNING" /\ hostToStdin # << >> /\ appin
PollsHostIn ==
  \/ gstate \in {"WAITING", "SYNCING"}
  \/ gstate = "RUNNING" /\ grx # "none" /\ ~PollsStdin
PollsHostOut == gtx # << >> /\ gstate \in {"SYNCING", "RUNNING"}
PollsOutAlways == gstate = "RUNNING" /\ ~appOutEOF  \* mutant of PollsOut
PollsOut == gstate = "RUNNING" /\ gtx = << >> /\ ~appOutEOF
PollsErr == gstate = "RUNNING" /\ gtx = << >> /\ ~appErrEOF /\ ~wantTty

ExitPacketEmpty(status) == Packet("EXIT", << >>)  \* mutant of ExitPacket
ExitPacket(status) == Packet("EXIT", << status >>)
-----------------------------------------------------------------------------
GuestInitial ==
  /\ wantTty \in WantTtys
  /\ gstate = "BOOT" /\ grx = "none" /\ gtx = << >> /\ quit = FALSE
  /\ hostToStdin = << >> /\ appin = FALSE
  /\ appOutEOF = FALSE /\ appErrEOF = FALSE /\ appQuit = FALSE
  /\ exitstatus = 0
  /\ app = "none" /\ orphan = "none" /\ appStatus = 0 /\ orphanStatus = 0
  /\ holders = [s \in Streams |-> {}]
  /\ inPipe = << >> /\ outPipe = << >> /\ errPipe = << >>
  /\ appRead = << >> /\ outWritten = 0 /\ errWritten = 0
  /\ zombies = {} /\ sigchld = FALSE /\ writing = FALSE

(* The console is not raw before run_interactive: the terminal echoes what *)
(* the host sends.                                                         *)
Echo ==
  /\ gstate = "BOOT" /\ toGuest # << >> /\ HasRoom(toHost)
  /\ toGuest' = Tail(toGuest) /\ toHost' = Append(toHost, Noise)
  /\ UNCHANGED guestVars

(* run_interactive: TCSAFLUSH discards what has come in before.            *)
Boot ==
  /\ gstate = "BOOT"
  /\ gstate' = "WAITING" /\ grx' = "byte" /\ toGuest' = << >>
  /\ UNCHANGED << wantTty, gtx, quit, hostToStdin, appin, appOutEOF, appErrEOF,
                  appQuit, exitstatus, appVars, toHost >>

(* goto cleanup, and the end of the loop once quit is set: main syncs,     *)
(* unmounts and powers off.                                                *)
Leave ==
  /\ gstate' = "OFF"
  /\ UNCHANGED << wantTty, grx, gtx, quit, hostToStdin, appin, appOutEOF, appErrEOF,
                  appQuit, exitstatus, appVars >>

LeaveLoop == /\ quit /\ ~writing /\ gstate # "OFF"
             /\ Leave /\ UNCHANGED << toGuest, toHost >>
-----------------------------------------------------------------------------
OutputEndedHalf == appOutEOF  \* mutant of OutputEnded
OutputEnded == appOutEOF /\ appErrEOF

(* The signal pipe.  waitpid(-1) stores the status of every process that   *)
(* init reaps in the one exitstatus, in the order the kernel returns them. *)
Reap ==
  /\ Polls /\ sigchld
  /\ sigchld' = FALSE /\ zombies' = {}
  /\ \E last \in zombies :
       exitstatus' = IF last = "app" THEN appStatus ELSE orphanStatus
  /\ appQuit' = (appQuit \/ "app" \in zombies)
  /\ gtx' = IF "app" \in zombies /\ OutputEnded
            THEN ExitPacket(appStatus) ELSE gtx
  /\ UNCHANGED << wantTty, gstate, grx, quit, hostToStdin, appin, appOutEOF, appErrEOF,
                  app, orphan, appStatus, orphanStatus, holders, inPipe,
                  outPipe, errPipe, appRead, outWritten, errWritten, writing,
                  toGuest, toHost >>
-----------------------------------------------------------------------------
(* The console is readable.                                                *)

(* WAITING for a wait byte, SYNCING for the sync byte, which starts the    *)
(* application; wait bytes still under way are ignored.                    *)
ReadWait(u) ==
  /\ gstate = "WAITING" /\ u = Wait
  /\ gstate' = "SYNCING" /\ gtx' = << Sync >>
  /\ UNCHANGED << wantTty, grx, quit, hostToStdin, appin, appOutEOF, appErrEOF,
                  appQuit, exitstatus, appVars >>

(* Mutant of IgnoreWait: a late wait byte is answered once more.           *)
AnswerWait(u) ==
  /\ gstate = "SYNCING" /\ u = Wait
  /\ gtx' = << Sync >>
  /\ UNCHANGED << wantTty, gstate, grx, quit, hostToStdin, appin, appOutEOF, appErrEOF,
                  appQuit, exitstatus, appVars >>

IgnoreWait(u) ==
  /\ gstate = "SYNCING" /\ u = Wait
  /\ UNCHANGED guestVars

(* run_command: pipes or a tty, and a child that has the other ends.       *)
RunCommand == app' = "running" /\ holders' = [s \in Streams |-> {"app"}]

ReadSync(u) ==
  /\ gstate = "SYNCING" /\ u = Sync
  /\ gstate' = "RUNNING" /\ grx' = "length"
  /\ appin' = TRUE /\ RunCommand
  /\ UNCHANGED << wantTty, gtx, quit, hostToStdin, appOutEOF, appErrEOF, appQuit,
                  exitstatus, orphan, appStatus, orphanStatus, inPipe,
                  outPipe, errPipe, appRead, outWritten, errWritten, zombies,
                  sigchld, writing >>

(* run_command fails: goto cleanup.                                        *)
RunCommandFails(u) ==
  /\ RunFails /\ gstate = "SYNCING" /\ u = Sync
  /\ Leave

(* Any other byte during the handshake, a length word that is none, or a   *)
(* packet the host must not send.                                          *)
ReadBad(u) ==
  /\ \/ gstate = "WAITING" /\ u # Wait
     \/ gstate = "SYNCING" /\ u # Wait /\ u # Sync
     \/ gstate = "RUNNING" /\ grx = "length" /\ u.part # "length"
     \/ grx = "body" /\ (u.part # "body" \/ u.proc \notin {"STDIN", "QUIT"})
  /\ Leave

ReadLength(u) ==
  /\ gstate = "RUNNING" /\ grx = "length" /\ u.part = "length"
  /\ grx' = "body"
  /\ UNCHANGED << wantTty, gstate, gtx, quit, hostToStdin, appin, appOutEOF,
                  appErrEOF, appQuit, exitstatus, appVars >>

(* STDIN with data.  rx is freed, and only re-armed when all is written.   *)
ReadStdin(u) ==
  /\ grx = "body" /\ u.part = "body" /\ u.proc = "STDIN" /\ u.data # << >>
  /\ hostToStdin' = u.data /\ grx' = "none"
  /\ UNCHANGED << wantTty, gstate, gtx, quit, appin, appOutEOF, appErrEOF, appQuit,
                  exitstatus, appVars >>

(* STDIN without: the input of the application ends.  rx is freed, and     *)
(* nothing re-arms it.  With a tty this closes the master: what the        *)
(* application has written is gone and it can write no more.               *)
ReadStdinEOF(u) ==
  /\ grx = "body" /\ u.part = "body" /\ u.proc = "STDIN" /\ u.data = << >>
  /\ appin' = FALSE /\ grx' = "none"
  /\ outPipe' = IF wantTty THEN << >> ELSE outPipe
  /\ UNCHANGED << wantTty, gstate, gtx, quit, hostToStdin, appOutEOF, appErrEOF,
                  appQuit, exitstatus, app, orphan, appStatus, orphanStatus,
                  holders, inPipe, errPipe, appRead, outWritten, errWritten,
                  zombies, sigchld, writing >>

ReadQuit(u) ==
  /\ grx = "body" /\ u.part = "body" /\ u.proc = "QUIT"
  /\ quit' = TRUE /\ grx' = "none"
  /\ UNCHANGED << wantTty, gstate, gtx, hostToStdin, appin, appOutEOF, appErrEOF,
                  appQuit, exitstatus, appVars >>

ReadHost ==
  /\ toGuest # << >>
  /\ \/ Polls /\ PollsHostIn
     \/ gstate = "RUNNING" /\ InRead
  /\ LET u == Head(toGuest)
     IN  \/ ReadWait(u) \/ IgnoreWait(u) \/ ReadSync(u) \/ RunCommandFails(u)
         \/ ReadLength(u) \/ ReadStdin(u) \/ ReadStdinEOF(u) \/ ReadQuit(u)
         \/ ReadBad(u)
  /\ toGuest' = Tail(toGuest) /\ UNCHANGED toHost

(* The console is writable, or write goes on.  A packet that was polled    *)
(* for in the iteration that reads QUIT is still written.                  *)
WriteHost ==
  /\ PollsHostOut /\ ~InRead /\ HasRoom(toHost)
  /\ toHost' = Append(toHost, Head(gtx)) /\ gtx' = Tail(gtx)
  /\ writing' = (Len(gtx) > 1)
  /\ UNCHANGED << wantTty, gstate, grx, quit, hostToStdin, appin, appOutEOF, appErrEOF,
                  appQuit, exitstatus, app, orphan, appStatus, orphanStatus,
                  holders, inPipe, outPipe, errPipe, appRead, outWritten,
                  errWritten, zombies, sigchld, toGuest >>

(* Reading or writing the console fails, or it hangs up: quit is set, and  *)
(* as the console is the last descriptor of the poll set the loop ends.    *)
HostFails ==
  /\ HostHangs /\ gstate \in {"WAITING", "SYNCING", "RUNNING"} /\ ~quit
  /\ PollsHostIn \/ PollsHostOut \/ InRead
  /\ Leave /\ UNCHANGED << toGuest, toHost >>
-----------------------------------------------------------------------------
(* The application's stdin is writable, or nobody reads it any more: then  *)
(* write fails, the input is dropped, and rx stays as it is.               *)
WriteStdin ==
  /\ Polls /\ PollsStdin
  /\ IF holders["in"] = {}
     THEN hostToStdin' = << >> /\ UNCHANGED << grx, inPipe >>
     ELSE \E n \in 1 .. Len(hostToStdin) :
            /\ Len(inPipe) + n <= PipeCap
            /\ inPipe' = inPipe \o SubSeq(hostToStdin, 1, n)
            /\ hostToStdin' = SubSeq(hostToStdin, n + 1, Len(hostToStdin))
            /\ grx' = IF n = Len(hostToStdin) THEN "length" ELSE grx
  /\ UNCHANGED << wantTty, gstate, gtx, quit, appin, appOutEOF, appErrEOF, appQuit,
                  exitstatus, app, orphan, appStatus, orphanStatus, holders,
                  outPipe, errPipe, appRead, outWritten, errWritten, zombies,
                  sigchld, writing, toGuest, toHost >>

(* One read of an output stream, which may leave some of it behind.        *)
ReadsChunk(proc, pipe, rest) ==
  \E n \in 1 .. Len(pipe) :
    /\ gtx' = Packet(proc, SubSeq(pipe, 1, n))
    /\ rest = SubSeq(pipe, n + 1, Len(pipe))

(* The application's stdout is readable, or at its end: EOF, EIO from a    *)
(* master without slave, EBADF from a master that STDIN's EOF closed.      *)
ReadAppOut ==
  /\ Polls /\ PollsOut
  /\ \/ /\ ReadsChunk("STDOUT", outPipe, outPipe')
        /\ UNCHANGED << appOutEOF, appErrEOF >>
     \/ /\ outPipe = << >>
        /\ holders["out"] = {} \/ (wantTty /\ ~appin)
        /\ appOutEOF' = TRUE
        /\ appErrEOF' = IF wantTty /\ appin THEN TRUE ELSE appErrEOF
        /\ gtx' = IF appErrEOF' /\ appQuit THEN ExitPacket(exitstatus) ELSE gtx
        /\ UNCHANGED outPipe
  /\ UNCHANGED << wantTty, gstate, grx, quit, hostToStdin, appin, appQuit, exitstatus,
                  app, orphan, appStatus, orphanStatus, holders, inPipe,
                  errPipe, appRead, outWritten, errWritten, zombies, sigchld, writing,
                  toGuest, toHost >>

ReadAppErr ==
  /\ Polls /\ PollsErr
  /\ \/ /\ ReadsChunk("STDERR", errPipe, errPipe')
        /\ UNCHANGED appErrEOF
     \/ /\ errPipe = << >> /\ holders["err"] = {}
        /\ appErrEOF' = TRUE
        /\ gtx' = IF appOutEOF /\ appQuit THEN ExitPacket(exitstatus) ELSE gtx
        /\ UNCHANGED errPipe
  /\ UNCHANGED << wantTty, gstate, grx, quit, hostToStdin, appin, appOutEOF, appQuit,
                  exitstatus, app, orphan, appStatus, orphanStatus, holders,
                  inPipe, outPipe, appRead, outWritten, errWritten, zombies,
                  sigchld, writing, toGuest, toHost >>

(* POLLHUP alone from the master, polled for writing while its buffer is   *)
(* full: the output is taken to be over although it has not been read, and *)
(* a packet being sent is replaced.  Polled for reading as well, it still  *)
(* gives one chunk of what is left.                                        *)
MasterHangup ==
  /\ wantTty /\ Polls /\ PollsStdin
  /\ holders["out"] = {} /\ Len(inPipe) >= PipeCap
  /\ appOutEOF' = TRUE /\ appErrEOF' = TRUE
  /\ \/ /\ ~appQuit /\ PollsOut
        /\ ReadsChunk("STDOUT", outPipe, outPipe')
     \/ /\ gtx' = IF appQuit THEN ExitPacket(exitstatus) ELSE gtx
        /\ appQuit \/ ~PollsOut \/ outPipe = << >>
        /\ UNCHANGED outPipe
  /\ UNCHANGED << wantTty, gstate, grx, quit, hostToStdin, appin, appQuit, exitstatus,
                  app, orphan, appStatus, orphanStatus, holders, inPipe,
                  errPipe, appRead, outWritten, errWritten, zombies, sigchld, writing,
                  toGuest, toHost >>
-----------------------------------------------------------------------------
(* The application, and the background process it may leave behind.        *)

Writes(s) == "app" \in holders[s] /\ app = "running" /\ gstate = "RUNNING"

AppRead ==
  /\ Writes("in") /\ inPipe # << >>
  /\ appRead' = appRead \o inPipe /\ inPipe' = << >>
  /\ UNCHANGED << loopVars, app, orphan, appStatus, orphanStatus, holders,
                  outPipe, errPipe, outWritten, errWritten, zombies, sigchld, writing,
                  toGuest, toHost >>

AppWriteOut ==
  /\ Writes("out") /\ outWritten < OutTotal /\ Len(outPipe) < PipeCap
  /\ ~(wantTty /\ ~appin)
  /\ outWritten' = outWritten + 1 /\ outPipe' = Append(outPipe, outWritten + 1)
  /\ UNCHANGED << loopVars, app, orphan, appStatus, orphanStatus, holders,
                  inPipe, errPipe, appRead, errWritten, zombies, sigchld, writing,
                  toGuest, toHost >>

AppWriteErr ==
  /\ Writes("err") /\ errWritten < ErrTotal /\ Len(errPipe) < PipeCap
  /\ ~wantTty
  /\ errWritten' = errWritten + 1 /\ errPipe' = Append(errPipe, errWritten + 1)
  /\ UNCHANGED << loopVars, app, orphan, appStatus, orphanStatus, holders,
                  inPipe, outPipe, appRead, outWritten, zombies, sigchld, writing,
                  toGuest, toHost >>

AppClose(s) ==
  /\ AppCloses /\ ~wantTty /\ Writes(s)
  /\ holders' = [holders EXCEPT ![s] = @ \ {"app"}]
  /\ UNCHANGED << loopVars, app, orphan, appStatus, orphanStatus, inPipe,
                  outPipe, errPipe, appRead, outWritten, errWritten, zombies,
                  sigchld, writing, toGuest, toHost >>

(* fork; a daemon lets go of the stdio it inherits, a plain background     *)
(* process does not.                                                       *)
AppForks(keepsStdio) ==
  /\ HasOrphan /\ app = "running" /\ orphan = "none" /\ gstate = "RUNNING"
  /\ orphan' = "running"
  /\ holders' = IF keepsStdio
                THEN [s \in Streams |-> holders[s] \cup
                        (IF "app" \in holders[s] THEN {"orphan"} ELSE {})]
                ELSE holders
  /\ UNCHANGED << loopVars, app, appStatus, orphanStatus, inPipe, outPipe,
                  errPipe, appRead, outWritten, errWritten, zombies, sigchld, writing,
                  toGuest, toHost >>

(* The handler of SIGCHLD writes to the self-pipe.  A write of the console *)
(* that has sent a part of a packet returns.                               *)
Interrupt == sigchld' = TRUE /\ writing' = FALSE

(* init becomes the parent of what the application leaves behind.          *)
AppExits ==
  /\ app = "running" /\ gstate = "RUNNING"
  /\ app' = "exited" /\ Interrupt
  /\ \E st \in Statuses : appStatus' = st
  /\ zombies' = zombies \cup {"app"}
                        \cup (IF orphan = "exited" THEN {"orphan"} ELSE {})
  /\ holders' = [s \in Streams |-> holders[s] \ {"app"}]
  /\ UNCHANGED << loopVars, orphan, orphanStatus, inPipe, outPipe, errPipe,
                  appRead, outWritten, errWritten, toGuest, toHost >>

OrphanExits ==
  /\ orphan = "running" /\ gstate = "RUNNING"
  /\ orphan' = "exited"
  /\ \E st \in Statuses : orphanStatus' = st
  /\ holders' = [s \in Streams |-> holders[s] \ {"orphan"}]
  /\ IF app = "exited" THEN zombies' = zombies \cup {"orphan"} /\ Interrupt
                       ELSE UNCHANGED << zombies, sigchld, writing >>
  /\ UNCHANGED << loopVars, app, appStatus, inPipe, outPipe, errPipe, appRead,
                  outWritten, errWritten, toGuest, toHost >>
-----------------------------------------------------------------------------
Loop == \/ Reap \/ ReadHost \/ WriteHost \/ HostFails \/ WriteStdin
        \/ ReadAppOut \/ ReadAppErr \/ MasterHangup \/ LeaveLoop

App == \/ AppRead \/ AppWriteOut \/ AppWriteErr \/ AppExits \/ OrphanExits
       \/ \E s \in Streams : AppClose(s)
       \/ \E keepsStdio \in BOOLEAN : AppForks(keepsStdio)

GuestNext == Echo \/ Boot \/ Loop \/ App
============================================================================
