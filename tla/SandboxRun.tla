----------------------------- MODULE SandboxRun -----------------------------
(***************************************************************************)
(* A run of virt-sandbox from its start to its exit code: the client's     *)
(* main (bin/virt-sandbox.c), the interactive context                      *)
(* (libvirt-sandbox-context-interactive.c) and the files a machine builder *)
(* keeps for it (libvirt-sandbox-builder.c, -builder-machine.c).  Several  *)
(* clients use one sandbox name, hence one directory of files and one      *)
(* domain name; a client may be killed between any two steps.  Of the      *)
(* consoles only the signals are kept (see RpcSession and ConsoleRaw).     *)
(*                                                                         *)
(* unlink and rmdir fail for want of the file or for a directory that is   *)
(* not empty, and for nothing else.                                        *)
(***************************************************************************)
EXTENDS FiniteSets, Naturals

CONSTANTS Clients,      \* processes; each runs once
          Statuses,     \* what the sandboxed application can exit with
          None

(* The phases of a guest are no exit codes.                                *)
ASSUME RunAssumption == /\ None \notin Clients
                        /\ Statuses \cap {"failure", "off", "boot", "init", "app"} = {}

VARIABLES
  pc,        \* where each client is
  files,     \* who wrote each file or made each directory, None if absent
  cut,       \* a file of .libs is not whole
  domain,    \* whose libvirt domain runs, or None
  guest,     \* "off", "boot", "init", "app" or the application's exit
  saw,       \* whose files the domain has been started with or has read
  log, con,  \* the log console and the application's
  timer,     \* the client has a delayed close pending
  ret,       \* the client's exit code
  \* history
  shared,    \* clients that ran at the same time as another one
  faulty     \* clients whose consoles, domain or process failed

vars == << pc, files, cut, domain, guest, saw, log, con, timer, ret, shared, faulty >>
onDisk == << files, cut >>
hostVars == << log, con, timer, ret, shared, faulty >>
domVars == << domain, guest, saw >>

Dirs == {"state", "config", "empty"}
Boot == {"initrd.img", "vmlinuz"}
Config == {"sandbox.cfg", "mounts.cfg", "disks.cfg", ".libs"}
Files == Dirs \cup Boot \cup Config

Parent(f) == IF f \in Boot \cup {"config"} THEN "state" ELSE "config"
Present(f) == files[f] # None
Ended == {"done", "dead", "crashed"}
Active == {c \in Clients : pc[c] \notin Ended \cup {"idle"}}

Goto(c, step) == pc' = [pc EXCEPT ![c] = step]

(* c makes what is missing of ds, and writes the files fs.                 *)
Makes(c, ds, fs) ==
  files' = [g \in Files |-> IF g \in fs \/ (g \in ds /\ ~Present(g)) THEN c ELSE files[g]]
Removes(fs) == files' = [g \in Files |-> IF g \in fs THEN None ELSE files[g]]

Init ==
  /\ pc = [c \in Clients |-> "idle"]
  /\ files = [f \in Files |-> None] /\ cut = FALSE
  /\ domain = None /\ guest = "off" /\ saw = {}
  /\ log = [c \in Clients |-> "off"] /\ con = [c \in Clients |-> "off"]
  /\ timer = [c \in Clients |-> FALSE]
  /\ ret = [c \in Clients |-> "failure"]
  /\ shared = {} /\ faulty = {}
-----------------------------------------------------------------------------
(* gvir_sandbox_context_interactive_start.  Launch is everything before    *)
(* the first file; an unsupported URI ends it there.                       *)
Launch(c) ==
  /\ pc[c] = "idle"
  /\ pc' \in {[pc EXCEPT ![c] = s] : s \in {"save", "done"}}
  /\ shared' = IF Active = {} THEN shared ELSE shared \cup {c} \cup Active
  /\ UNCHANGED << onDisk, domVars, log, con, timer, ret, faulty >>

(* A step of start: it writes its file, or fails and start undoes it all.  *)
(* f can be written where the directory it lies in still exists.           *)
Writes(c, step, ds, f, next) ==
  /\ pc[c] = step
  /\ ds # {} \/ Present(Parent(f))
  /\ Makes(c, ds, {f}) /\ Goto(c, next)
  /\ UNCHANGED << cut, domVars, hostVars >>

Fails(c, step, ds, f) ==
  /\ pc[c] = step
  /\ files' = [g \in Files |-> CASE g = f -> None
                                 [] g \in ds /\ ~Present(g) -> c
                                 [] OTHER -> files[g]]
  /\ Goto(c, "undo")
  /\ UNCHANGED << cut, domVars, hostVars >>

SaveConfig(c) == \/ Writes(c, "save", {"state", "config"}, "sandbox.cfg", "mounts")
                 \/ Fails(c, "save", {"state", "config"}, "sandbox.cfg")

(* gvir_sandbox_builder_machine_write_mount_cfg; empty is made before.     *)
WriteMountCfg(c) ==
  \/ Writes(c, "mounts", {"state", "config", "empty"}, "mounts.cfg", "libs")
  \/ Fails(c, "mounts", {"state", "config", "empty"}, "mounts.cfg")

(* gvir_sandbox_builder_copy_init: what lies in .libs is not copied again,  *)
(* a file that is not whole included.  What is left of a copy that was cut  *)
(* short may be whole files only; the rest is copied then.                  *)
CopyInit(c) ==
  /\ pc[c] = "libs"
  /\ Makes(c, {"state", "config", ".libs"}, {})
  /\ cut' = (cut \/ ~Present(".libs"))
  /\ Goto(c, IF Present(".libs") THEN "rest" ELSE "copying")
  /\ UNCHANGED << domVars, hostVars >>

Copied(c) ==
  /\ pc[c] \in {"copying", "rest"}
  /\ \/ /\ Present(".libs") /\ Goto(c, "initrd")
        /\ cut' \in IF pc[c] = "copying" THEN {FALSE} ELSE {FALSE, cut}
     \/ Goto(c, "undo") /\ UNCHANGED cut
  /\ UNCHANGED << files, domVars, hostVars >>

MakeInitrd(c) == \/ Writes(c, "initrd", {}, "initrd.img", "kernel")
                 \/ Fails(c, "initrd", {}, "initrd.img")

(* A mutant: the copy leaves a kernel that is there already.               *)
KeepKernel(c) == \/ /\ pc[c] = "kernel" /\ Present("vmlinuz")
                    /\ Goto(c, "disks")
                    /\ UNCHANGED << onDisk, domVars, hostVars >>
                 \/ ~Present("vmlinuz") /\ Writes(c, "kernel", {}, "vmlinuz", "disks")

(* copykern copies without G_FILE_COPY_OVERWRITE: it fails where a kernel  *)
(* has been left behind.                                                   *)
CopyKernel(c) ==
  \/ ~Present("vmlinuz") /\ Writes(c, "kernel", {}, "vmlinuz", "disks")
  \/ /\ pc[c] = "kernel" /\ Goto(c, "undo")
     /\ UNCHANGED << onDisk, domVars, hostVars >>

WriteDiskCfg(c) == \/ Writes(c, "disks", {}, "disks.cfg", "start")
                   \/ Fails(c, "disks", {}, "disks.cfg")

(* gvir_connection_start_domain, with AUTODESTROY.                         *)
StartDomain(c) ==
  /\ pc[c] = "start"
  /\ \/ /\ domain = None /\ \A f \in Boot : Present(f)
        /\ domain' = c /\ guest' = "boot" /\ saw' = {files[f] : f \in Boot}
        /\ Goto(c, "poststart")
     \/ /\ Goto(c, "undo") /\ UNCHANGED domVars
  /\ UNCHANGED << onDisk, hostVars >>

(* A mutant: the kernel is forgotten.                                      *)
CleansInitrdOnly(c) ==
  /\ pc[c] \in {"poststart", "undo"}
  /\ Removes({"initrd.img"})
  /\ Goto(c, IF pc[c] = "undo" THEN "cleanBuilder" ELSE "log")
  /\ UNCHANGED << cut, domVars, hostVars >>

(* gvir_sandbox_builder_machine_clean_post_start, also of a failed start.  *)
CleanPostStart(c) ==
  /\ pc[c] \in {"poststart", "undo"}
  /\ Removes(Boot)
  /\ Goto(c, IF pc[c] = "undo" THEN "cleanBuilder" ELSE "log")
  /\ UNCHANGED << cut, domVars, hostVars >>
-----------------------------------------------------------------------------
(* main: attach the log console, then the application's, then loop.        *)

AttachLog(c) ==
  /\ pc[c] = "log"
  /\ \/ /\ domain = c /\ log' = [log EXCEPT ![c] = "open"] /\ Goto(c, "app")
        /\ UNCHANGED faulty
     \/ /\ Goto(c, "stop") /\ faulty' = faulty \cup {c} /\ UNCHANGED log
  /\ UNCHANGED << onDisk, domVars, con, timer, ret, shared >>

AttachApp(c) ==
  /\ pc[c] = "app"
  /\ \/ /\ domain = c /\ con' = [con EXCEPT ![c] = "open"] /\ Goto(c, "loop")
        /\ UNCHANGED faulty
     \/ /\ Goto(c, "stop") /\ faulty' = faulty \cup {c} /\ UNCHANGED con
  /\ UNCHANGED << onDisk, domVars, log, timer, ret, shared >>

(* WEXITSTATUS of what waitpid said: of a death by a signal it is 0.       *)
ExitCode(status) == IF status = "signal" THEN "0" ELSE status

(* do_exited: the EXIT packet has come, QUIT has not been sent yet.        *)
ConsoleExited(c) ==
  /\ pc[c] = "loop" /\ con[c] = "open"
  /\ domain = c /\ guest \in Statuses
  /\ ret' = [ret EXCEPT ![c] = ExitCode(guest)]
  /\ con' = [con EXCEPT ![c] = "exited"]
  /\ UNCHANGED << pc, onDisk, domVars, log, timer, shared, faulty >>

(* A mutant: no timer is started.                                          *)
NoPendingClose(c) == UNCHANGED timer

(* do_pending_close.                                                       *)
PendingClose(c) == timer' = [timer EXCEPT ![c] = TRUE]

(* The console of the application says "closed", after QUIT or for an      *)
(* error or the escape key.                                                *)
ConsoleClosed(c) ==
  /\ pc[c] = "loop" /\ con[c] \in {"open", "exited"}
  /\ \/ con[c] = "exited" /\ con' = [con EXCEPT ![c] = "quit"] /\ UNCHANGED faulty
     \/ con' = [con EXCEPT ![c] = "broken"] /\ faulty' = faulty \cup {c}
  /\ PendingClose(c)
  /\ UNCHANGED << pc, onDisk, domVars, log, ret, shared >>

(* do_close: the log console has reached its end, or failed.               *)
LogClosed(c) ==
  /\ pc[c] = "loop" /\ log[c] = "open"
  /\ log' = [log EXCEPT ![c] = "closed"] /\ Goto(c, "stop")
  /\ IF domain = c THEN faulty' = faulty \cup {c} ELSE UNCHANGED faulty
  /\ UNCHANGED << onDisk, domVars, con, timer, ret, shared >>

(* do_delayed_close.                                                       *)
DelayedClose(c) ==
  /\ pc[c] = "loop" /\ timer[c]
  /\ timer' = [timer EXCEPT ![c] = FALSE] /\ Goto(c, "stop")
  /\ UNCHANGED << onDisk, domVars, log, con, ret, shared, faulty >>

(* A mutant: stop leaves a domain that still boots.                        *)
StopsLater(c) ==
  /\ pc[c] = "stop"
  /\ IF domain = c /\ guest # "boot" THEN domain' = None /\ guest' = "off" /\ saw' = {}
                   ELSE UNCHANGED domVars
  /\ Goto(c, "cleanBuilder")
  /\ UNCHANGED << onDisk, hostVars >>

(* gvir_sandbox_context_interactive_stop, up to the clean-up.              *)
StopDomain(c) ==
  /\ pc[c] = "stop"
  /\ IF domain = c THEN domain' = None /\ guest' = "off" /\ saw' = {}
                   ELSE UNCHANGED domVars
  /\ Goto(c, "cleanBuilder")
  /\ UNCHANGED << onDisk, hostVars >>
-----------------------------------------------------------------------------
(* gvir_sandbox_context_clean_post_stop.                                   *)

(* gvir_sandbox_builder_clean_post_stop.  Both of its callers pass a NULL  *)
(* error, which it dereferences when there is no .libs to enumerate.       *)
CleanBuilder(c) ==
  /\ pc[c] = "cleanBuilder"
  /\ Removes({"mounts.cfg", "disks.cfg", ".libs"}) /\ cut' = FALSE
  /\ Goto(c, IF Present(".libs") THEN "cleanContext" ELSE "crashed")
  /\ UNCHANGED << domVars, hostVars >>

Gone(rm, d) == {f \in Files \ {d} : Present(f) /\ f # "state" /\ Parent(f) = d} \subseteq rm

(* unlink the configuration, then rmdir from the inside out.               *)
CleanContext(c) ==
  /\ pc[c] = "cleanContext"
  /\ LET inner == {"sandbox.cfg", "empty"}
         middle == IF Gone(inner, "config") THEN inner \cup {"config"} ELSE inner
         outer == IF Gone(middle, "state") THEN middle \cup {"state"} ELSE middle
     IN  Removes(outer)
  /\ Goto(c, "done")
  /\ UNCHANGED << cut, domVars, hostVars >>
-----------------------------------------------------------------------------
(* The guest: init-qemu reads mounts.cfg, init-common, which is run from   *)
(* .libs, the rest; without its files, all of them whole, it powers off.    *)
GuestReads(from, fs, to) ==
  /\ guest = from
  /\ \/ /\ \A f \in fs : Present(f)
        /\ ".libs" \in fs => ~cut
        /\ guest' = to /\ saw' = saw \cup {files[f] : f \in fs \ {".libs"}}
        /\ UNCHANGED << domain, faulty >>
     \/ /\ (\E f \in fs : ~Present(f)) \/ (".libs" \in fs /\ cut)
        /\ domain' = None /\ guest' = "off" /\ saw' = {} /\ faulty' = faulty \cup {domain}
  /\ UNCHANGED << pc, onDisk, log, con, timer, ret, shared >>

GuestInit == GuestReads("boot", {"mounts.cfg"}, "init")
GuestCommon == GuestReads("init", {"sandbox.cfg", "disks.cfg", ".libs"}, "app")

GuestExits ==
  /\ guest = "app" /\ guest' \in Statuses
  /\ UNCHANGED << pc, onDisk, domain, saw, hostVars >>

(* A mutant: the guest powers off as soon as it has written EXIT.          *)
ExitSuffices == TRUE

(* The guest stays until the console has sent it QUIT.                     *)
QuitSeen == con[domain] = "quit"

GuestPowersOff ==
  /\ guest \in Statuses /\ QuitSeen
  /\ domain' = None /\ guest' = "off" /\ saw' = {}
  /\ UNCHANGED << pc, onDisk, hostVars >>

(* The guest panics, or an administrator destroys the domain.              *)
GuestDies ==
  /\ domain # None
  /\ domain' = None /\ guest' = "off" /\ saw' = {} /\ faulty' = faulty \cup {domain}
  /\ UNCHANGED << pc, onDisk, log, con, timer, ret, shared >>

(* The client is killed; libvirt destroys its domain when it notices.      *)
Killed(c) ==
  /\ c \in Active /\ Goto(c, "dead") /\ faulty' = faulty \cup {c}
  /\ UNCHANGED << onDisk, domVars, log, con, timer, ret, shared >>

AutoDestroy ==
  /\ domain # None /\ pc[domain] \in Ended
  /\ domain' = None /\ guest' = "off" /\ saw' = {}
  /\ UNCHANGED << pc, onDisk, hostVars >>
-----------------------------------------------------------------------------
Start(c) == \/ SaveConfig(c) \/ WriteMountCfg(c) \/ CopyInit(c) \/ Copied(c) \/ MakeInitrd(c)
            \/ CopyKernel(c) \/ WriteDiskCfg(c) \/ StartDomain(c) \/ CleanPostStart(c)
Main(c) == \/ AttachLog(c) \/ AttachApp(c)
           \/ ConsoleExited(c) \/ ConsoleClosed(c) \/ LogClosed(c) \/ DelayedClose(c)
Stop(c) == StopDomain(c) \/ CleanBuilder(c) \/ CleanContext(c)
Guest == \/ GuestInit \/ GuestCommon \/ GuestExits \/ GuestPowersOff \/ GuestDies
         \/ AutoDestroy

Next == Guest \/ \E c \in Clients : \/ Launch(c) \/ Start(c) \/ Main(c) \/ Stop(c)
                                    \/ Killed(c)

Spec == Init /\ [][Next]_vars

(* Nothing holds up a client's own steps, and the 2s timer of its main     *)
(* loop runs out; no fairness is asked of guest, consoles or launches.     *)
Fairness == \A c \in Clients : WF_vars(Start(c) \/ Stop(c) \/ DelayedClose(c))

FairSpec == Spec /\ Fairness
-----------------------------------------------------------------------------
Steps == {"idle", "save", "mounts", "libs", "copying", "rest", "initrd", "kernel", "disks", "start",
          "poststart", "undo", "log", "app", "loop", "stop", "cleanBuilder",
          "cleanContext"} \cup Ended

(* Types; a client owns the domain only between its start and its stop, or *)
(* when it was killed and libvirt has yet to notice.                       *)
TypeOK ==
  /\ pc \in [Clients -> Steps]
  /\ files \in [Files -> Clients \cup {None}]
  /\ cut => Present(".libs")
  /\ domain \in Clients \cup {None}
  /\ guest \in {"off", "boot", "init", "app"} \cup Statuses
  /\ guest = "off" <=> domain = None
  /\ domain # None => pc[domain] \in {"poststart", "log", "app", "loop", "stop", "dead"}
  /\ shared \subseteq Clients /\ faulty \subseteq Clients

(* A client alone with its name boots the kernel and initrd it built, and  *)
(* its guest reads the configuration it saved, whatever clients that were  *)
(* killed before it have left in the directory                             *)
(* (context-interactive.c:246-271).                                        *)
OwnFilesOnly == domain \in Active \ shared => saw \subseteq {domain}

(* A client alone with its name that reaches the end of main has removed   *)
(* all there was in the directory, its predecessors' files as well, a      *)
(* library cut short among them, and leaves no domain: what a dead client  *)
(* left costs one retry, not the name                                      *)
(* ("Cleanup temporary files", builder.c:700-706).                         *)
CleanExit ==
  [][\A c \in Clients \ shared :
       pc[c] = "cleanContext" /\ pc'[c] = "done" =>
         /\ \A f \in Files : files'[f] = None
         /\ ~cut' /\ domain' # c]_vars

(* Once the application has exited and no console, guest or client has     *)
(* failed, virt-sandbox ends with the application's status, whichever of   *)
(* the timer and the two consoles ends its loop (virt-sandbox.c:309-317).  *)
ExitCodeKept ==
  \A c \in Clients : pc[c] \in {"stop", "cleanBuilder", "cleanContext"} /\ log[c] # "off"
                     /\ c \notin faulty => ret[c] # "failure"

(* When the application's console has closed the client ends, also when    *)
(* the log console never closes (the timer "just in case",                 *)
(* virt-sandbox.c:309-313).                                                *)
ClosedConsoleEnds ==
  \A c \in Clients : con[c] \in {"quit", "broken"} ~> pc[c] \in Ended

(* A failure is an error the caller is told of ("Returns: TRUE on success, *)
(* FALSE on error", builder.c:706), not the end of the process.            *)
FailureIsReported == \A c \in Clients : pc[c] # "crashed"
=============================================================================
