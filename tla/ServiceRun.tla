----------------------------- MODULE ServiceRun -----------------------------
(***************************************************************************)
(* Service sandboxes (libvirt-sandbox-context-service.c): a domain that is  *)
(* defined once, started and stopped by whoever attaches to it, and         *)
(* undefined in the end, with the files a builder keeps for it in the       *)
(* directory of the service.  Several contexts use one service name, from    *)
(* processes that may be killed between any two steps.                      *)
(*                                                                          *)
(* A definition is known by the context that made it.  unlink and rmdir     *)
(* fail for want of the file or for a directory that is not empty.          *)
(***************************************************************************)
EXTENDS FiniteSets, Naturals

CONSTANTS Contexts,     \* GVirSandboxContextService objects, each in a process of its own
          Builders,     \* "machine" (QEMU) and "container" (LXC)
          MaxCalls,     \* a bound on the calls made of the contexts
          None

ASSUME ServiceAssumption == /\ None \notin Contexts /\ MaxCalls \in Nat
                            /\ Builders \subseteq {"machine", "container"}

VARIABLES
  builder,   \* the builder for the connection
  pc, calls, \* where each context is in its call, and how many calls there were
  ret,       \* what its call of undefine is to return
  held,      \* priv->domain: "none", "current", or "gone" if libvirt has it no more
  files,     \* who wrote each file or made each directory, None if absent
  cut,       \* a file of .libs is not whole
  defined,   \* who defined the domain libvirt keeps under the name, or None
  guest,     \* "off", "boot", "init" or "app"
  saw,       \* whose files the guest has been started with or has read
  \* history
  intact,    \* the definer, once define has returned TRUE and until the next call
             \* of define or undefine
  from,      \* what intact was when the guest was started
  met        \* contexts whose define or undefine met another one's

vars == << builder, pc, calls, ret, held, files, cut, defined, guest, saw, intact, from, met >>
onDisk == << files, cut >>
atLibvirt == << defined, guest, saw, from >>

Dirs == {"state", "config", "empty"}
Boot == {"initrd.img", "vmlinuz"}
Config == {"sandbox.cfg", "mounts.cfg", "disks.cfg", ".libs"}
Files == Dirs \cup Boot \cup Config

(* What the builder writes for a service besides its directories.          *)
Written == IF builder = "machine" THEN Boot \cup Config ELSE Config \ {"mounts.cfg"}

Parent(f) == IF f \in Boot \cup {"config"} THEN "state" ELSE "config"
Present(f) == files[f] # None
Makes(c, ds, fs) ==
  files' = [g \in Files |-> IF g \in fs \/ (g \in ds /\ ~Present(g)) THEN c ELSE files[g]]
Removes(fs) == files' = [g \in Files |-> IF g \in fs THEN None ELSE files[g]]

DefineSteps == {"mounts", "libs", "copying", "rest", "initrd", "kernel", "disks", "create", "save", "empty"}
UndefineSteps == {"find", "unlink", "clean"}
Changing == {c \in Contexts : pc[c] \in DefineSteps \cup UndefineSteps}

NameInUse == defined # None \/ guest # "off"

(* The state of the pointers when libvirt drops the domain.                *)
Forgotten == [c \in Contexts |-> IF held[c] = "current" THEN "gone" ELSE held[c]]

Init ==
  /\ builder \in Builders
  /\ pc = [c \in Contexts |-> "idle"] /\ calls = 0
  /\ ret = [c \in Contexts |-> TRUE] /\ held = [c \in Contexts |-> "none"]
  /\ files = [f \in Files |-> None] /\ cut = FALSE
  /\ defined = None /\ guest = "off" /\ saw = {}
  /\ intact = None /\ from = None /\ met = {}
-----------------------------------------------------------------------------
Goto(c, step) == pc' = [pc EXCEPT ![c] = step]

Calls(c) == pc[c] = "idle" /\ calls < MaxCalls /\ calls' = calls + 1

(* A call of define or undefine begins.                                    *)
Begins(c, step) ==
  /\ Calls(c) /\ Goto(c, step)
  /\ intact' = None
  /\ met' = IF Changing = {} THEN met \ {c} ELSE met \cup {c} \cup Changing

-----------------------------------------------------------------------------
(* gvir_sandbox_context_service_define_default.                            *)

(* An unsupported URI or a configuration the builder refuses ends it at     *)
(* once.  A define that fails unlinks sandbox.cfg, whoever wrote it.         *)
DefineRefused(c) ==
  /\ Begins(c, "idle")
  /\ Removes({"sandbox.cfg"})
  /\ UNCHANGED << builder, ret, held, cut, atLibvirt >>

(* A mutant: a container is given a mounts.cfg too.                         *)
FirstFileMounts == "mounts"

(* Only the machine builder has a mounts.cfg to write.                      *)
FirstFile == IF builder = "machine" THEN "mounts" ELSE "libs"

Define(c) ==
  /\ Begins(c, FirstFile)
  /\ Makes(c, {"state", "config"}, {})
  /\ UNCHANGED << builder, ret, held, cut, atLibvirt >>

(* A step of define writes its file, or fails: what it was writing is       *)
(* deleted, but for the kernel, and define ends.                            *)
Writes(c, step, f, next) ==
  /\ pc[c] = step /\ Present(Parent(f))
  /\ Makes(c, {}, {f}) /\ Goto(c, next)
  /\ UNCHANGED << builder, calls, ret, held, cut, atLibvirt, intact, met >>

Fails(c, step, fs) ==
  /\ pc[c] = step
  /\ Removes(fs \cup {"sandbox.cfg"}) /\ Goto(c, "idle")
  /\ UNCHANGED << builder, calls, ret, held, cut, atLibvirt, intact, met >>

WriteMountCfg(c) == Writes(c, "mounts", "mounts.cfg", "libs") \/ Fails(c, "mounts", {"mounts.cfg"})

(* gvir_sandbox_builder_copy_init, as in SandboxRun.                        *)
CopyInit(c) ==
  /\ pc[c] = "libs"
  /\ Makes(c, {"state", "config", ".libs"}, {})
  /\ cut' = (cut \/ ~Present(".libs"))
  /\ Goto(c, IF Present(".libs") THEN "rest" ELSE "copying")
  /\ UNCHANGED << builder, calls, ret, held, atLibvirt, intact, met >>

Copied(c) ==
  /\ \/ /\ pc[c] \in {"copying", "rest"} /\ Present(".libs")
        /\ Goto(c, IF builder = "machine" THEN "initrd" ELSE "disks")
        /\ cut' \in IF pc[c] = "copying" THEN {FALSE} ELSE {FALSE, cut}
        /\ UNCHANGED << builder, calls, ret, held, files, atLibvirt, intact, met >>
     \/ Fails(c, "copying", {}) \/ Fails(c, "rest", {})

MakeInitrd(c) == Writes(c, "initrd", "initrd.img", "kernel") \/ Fails(c, "initrd", {"initrd.img"})

(* A mutant: the copy leaves a kernel that is there already.               *)
KeepKernel(c) ==
  \/ Writes(c, "kernel", "vmlinuz", "disks") /\ ~Present("vmlinuz")
  \/ /\ pc[c] = "kernel" /\ Present("vmlinuz") /\ Goto(c, "disks")
     /\ UNCHANGED << builder, calls, ret, held, onDisk, atLibvirt, intact, met >>

(* copykern does not overwrite.                                            *)
CopyKernel(c) ==
  \/ Writes(c, "kernel", "vmlinuz", "disks") /\ ~Present("vmlinuz")
  \/ Fails(c, "kernel", {})

WriteDiskCfg(c) == Writes(c, "disks", "disks.cfg", "create") \/ Fails(c, "disks", {"disks.cfg"})

(* gvir_connection_create_domain.  The configuration has no UUID, so        *)
(* libvirt refuses a name that it has.                                      *)
CreateDomain(c) ==
  \/ /\ pc[c] = "create" /\ ~NameInUse
     /\ defined' = c /\ Goto(c, "save")
     /\ UNCHANGED << builder, calls, ret, held, onDisk, guest, saw, from, intact, met >>
  \/ Fails(c, "create", {})

SaveConfig(c) == Writes(c, "save", "sandbox.cfg", "empty") \/ Fails(c, "save", {})

Defined(c) ==
  /\ pc[c] = "empty"
  /\ Makes(c, {"state", "config", "empty"}, {}) /\ Goto(c, "idle")
  /\ intact' = IF c \in met THEN intact ELSE c
  /\ UNCHANGED << builder, calls, ret, held, cut, atLibvirt, met >>
-----------------------------------------------------------------------------
(* gvir_sandbox_context_service_undefine_default.                          *)

Undefine(c) ==
  /\ Begins(c, "find")
  /\ UNCHANGED << builder, ret, held, onDisk, atLibvirt >>

(* If the domains cannot be listed the rest is left out, and TRUE returned.  *)
FetchFails(c) ==
  /\ pc[c] = "find" /\ Goto(c, "idle")
  /\ UNCHANGED << builder, calls, ret, held, onDisk, atLibvirt, intact, met >>

(* gvir_domain_delete leaves a domain that runs without its definition.      *)
DeleteDomain(c) ==
  /\ pc[c] = "find" /\ Goto(c, "unlink")
  /\ \/ /\ defined' = None
        /\ held' = IF guest = "off" THEN Forgotten ELSE held
        /\ UNCHANGED ret
     \/ /\ NameInUse
        /\ ret' = [ret EXCEPT ![c] = FALSE] /\ UNCHANGED << defined, held >>
  /\ UNCHANGED << builder, calls, onDisk, guest, saw, from, intact, met >>

(* What can be removed: sandbox.cfg, then each directory if it is empty.    *)
Gone(rm, d) == {f \in Files \ {d} : Present(f) /\ f # "state" /\ Parent(f) = d} \subseteq rm

(* A mutant: only the inner directories count.                              *)
LeavesNoneInside(rm) == {f \in Files : Present(f)} \cap {"config", "empty"} \subseteq rm

(* Every directory that stays makes undefine return FALSE.                 *)
LeavesNone(rm) == {f \in Files : Present(f)} \cap Dirs \subseteq rm

Unlink(c) ==
  /\ pc[c] = "unlink" /\ Goto(c, "clean")
  /\ LET inner == {"sandbox.cfg", "empty"}
         middle == IF Gone(inner, "config") THEN inner \cup {"config"} ELSE inner
         outer == IF Gone(middle, "state") THEN middle \cup {"state"} ELSE middle
     IN  /\ Removes(outer)
         /\ ret' = [ret EXCEPT ![c] = @ /\ LeavesNone(outer)]
  /\ UNCHANGED << builder, calls, held, cut, atLibvirt, intact, met >>

(* gvir_sandbox_builder_clean_post_stop, called with an error to set.       *)
Clean(c) ==
  /\ pc[c] = "clean" /\ Goto(c, "idle") /\ ret' = [ret EXCEPT ![c] = TRUE]
  /\ Removes({"disks.cfg", ".libs"} \cup (IF builder = "machine" THEN {"mounts.cfg"} ELSE {}))
  /\ cut' = FALSE
  /\ UNCHANGED << builder, calls, held, atLibvirt, intact, met >>
-----------------------------------------------------------------------------
(* start, stop, attach and detach.  Each is one call of libvirt.  One that    *)
(* fails, or is made on a context that is, or is not, attached, changes        *)
(* nothing, but for stop.                                                       *)

(* What libvirt needs on the host.                                         *)
CanStart ==
  /\ defined # None /\ guest = "off"
  /\ IF builder = "machine" THEN \A f \in Boot : Present(f) ELSE Present("config")

(* A mutant: the boot files are cleaned up, as the interactive context does. *)
CleansPostStart == Removes(Boot)

CleanPostStart == UNCHANGED files

Start(c) ==
  /\ Calls(c) /\ held[c] = "none" /\ CanStart
  /\ guest' = IF builder = "machine" THEN "boot" ELSE "init"
  /\ saw' = IF builder = "machine" THEN {files[f] : f \in Boot} ELSE {}
  /\ from' = intact
  /\ held' = [held EXCEPT ![c] = "current"]
  /\ CleanPostStart
  /\ UNCHANGED << builder, pc, ret, cut, defined, intact, met >>

Off == guest' = "off" /\ saw' = {} /\ from' = None

(* The pointer goes although the domain may have stayed.                   *)
Stop(c) ==
  /\ Calls(c) /\ held[c] # "none"
  /\ \/ /\ held[c] = "current" /\ guest # "off"
        /\ Off
        /\ held' = [(IF defined = None THEN Forgotten ELSE held) EXCEPT ![c] = "none"]
     \/ /\ held' = [held EXCEPT ![c] = "none"]
        /\ UNCHANGED << guest, saw, from >>
  /\ UNCHANGED << builder, pc, ret, onDisk, defined, intact, met >>

Attach(c) ==
  /\ Calls(c) /\ held[c] = "none" /\ NameInUse
  /\ held' = [held EXCEPT ![c] = "current"]
  /\ UNCHANGED << builder, pc, ret, onDisk, atLibvirt, intact, met >>

Detach(c) ==
  /\ Calls(c) /\ held[c] # "none"
  /\ held' = [held EXCEPT ![c] = "none"]
  /\ UNCHANGED << builder, pc, ret, onDisk, atLibvirt, intact, met >>

(* The process is killed, and a new one starts from a context that holds       *)
(* nothing.                                                                    *)
Killed(c) ==
  /\ pc[c] # "idle"
  /\ Goto(c, "idle")
  /\ held' = [held EXCEPT ![c] = "none"] /\ ret' = [ret EXCEPT ![c] = TRUE]
  /\ UNCHANGED << builder, calls, onDisk, atLibvirt, intact, met >>
-----------------------------------------------------------------------------
(* The guest, as in SandboxRun; run_service replaces init-common by the      *)
(* service, which runs until it ends or is stopped.                           *)

PowersOff ==
  /\ Off
  /\ held' = IF defined = None THEN Forgotten ELSE held

GuestReads(at, fs, to) ==
  /\ guest = at
  /\ \/ /\ \A f \in fs : Present(f)
        /\ ".libs" \in fs => ~cut
        /\ guest' = to /\ saw' = saw \cup {files[f] : f \in fs \ {".libs"}}
        /\ UNCHANGED << held, from >>
     \/ /\ (\E f \in fs : ~Present(f)) \/ (".libs" \in fs /\ cut)
        /\ PowersOff
  /\ UNCHANGED << builder, pc, calls, ret, onDisk, defined, intact, met >>

GuestInit == GuestReads("boot", {"mounts.cfg"}, "init")
GuestCommon == GuestReads("init", {"sandbox.cfg", "disks.cfg", ".libs"}, "app")

GuestEnds ==
  /\ guest # "off" /\ PowersOff
  /\ UNCHANGED << builder, pc, calls, ret, onDisk, defined, intact, met >>
-----------------------------------------------------------------------------
Next ==
  \/ \E c \in Contexts :
       \/ DefineRefused(c) \/ Define(c) \/ WriteMountCfg(c) \/ CopyInit(c) \/ Copied(c)
       \/ MakeInitrd(c) \/ CopyKernel(c) \/ WriteDiskCfg(c)
       \/ CreateDomain(c) \/ SaveConfig(c) \/ Defined(c)
       \/ Undefine(c) \/ FetchFails(c) \/ DeleteDomain(c) \/ Unlink(c) \/ Clean(c)
       \/ Start(c) \/ Stop(c) \/ Attach(c) \/ Detach(c) \/ Killed(c)
  \/ GuestInit \/ GuestCommon \/ GuestEnds

Spec == Init /\ [][Next]_vars
-----------------------------------------------------------------------------
(* Types; a container has neither kernel nor mounts.cfg, which its builder     *)
(* would never remove, and a pointer to a domain that libvirt still has is      *)
(* never one to nothing.                                                        *)
TypeOK ==
  /\ builder \in Builders
  /\ pc \in [Contexts -> {"idle"} \cup DefineSteps \cup UndefineSteps]
  /\ calls \in 0 .. MaxCalls /\ ret \in [Contexts -> BOOLEAN]
  /\ held \in [Contexts -> {"none", "current", "gone"}]
  /\ files \in [Files -> Contexts \cup {None}]
  /\ \A f \in Files \ (Dirs \cup Written) : ~Present(f)
  /\ cut => Present(".libs")
  /\ defined \in Contexts \cup {None}
  /\ guest \in {"off", "boot", "init", "app"}
  /\ {intact, from} \subseteq Contexts \cup {None} /\ met \subseteq Contexts
  /\ (\E c \in Contexts : held[c] = "current") => NameInUse

(* A service whose definition returned TRUE, alone, can be started again and *)
(* again until somebody calls define or undefine: libvirt has its domain, and *)
(* every file the guest will ask for is there and its definer's, whatever     *)
(* earlier definitions left behind and however often it was started and       *)
(* stopped since (context-service.c:143-160, 271-331).  Only .libs may be      *)
(* what another one copied.                                                    *)
DefinitionIntact ==
  intact # None =>
    /\ defined = intact
    /\ \A f \in Written : Present(f)
    /\ \A f \in Written \ {".libs"} : files[f] = intact

(* A guest started from such a definition, and not touched by define or      *)
(* undefine since, boots the kernel and reads the configuration of one and    *)
(* the same definer.                                                           *)
BootsWhatWasDefined == intact # None /\ from = intact => saw \subseteq {intact}

(* An undefine that got through to libvirt, alone, and returns TRUE has left  *)
(* neither a file nor a definition, so that a new service of that name is not *)
(* built on the old one's files (context-service.c:226-250).                   *)
UndefineSaysTrue ==
  [][\A c \in Contexts \ met :
       pc[c] = "clean" /\ Clean(c) /\ ret[c] =>
         defined = None /\ \A f \in Files : files'[f] = None]_vars

(* A define that fails for a name in use leaves the service of that name as   *)
(* it was.  The code does not promise it, and TLC refutes it at once.           *)
RefusedDefineHarmless ==
  \A c \in Contexts : pc[c] = "create" /\ defined \notin {c, None} =>
    \A f \in Written : files[f] = defined
=============================================================================
