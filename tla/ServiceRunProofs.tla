-------------------------- MODULE ServiceRunProofs --------------------------
(***************************************************************************)
(* Theorems about service sandboxes, for every number of contexts, calls    *)
(* and kills, and both builders.                                            *)
(***************************************************************************)
EXTENDS ServiceRun, TLAPS

USE ServiceAssumption

(* What lies in a directory has the directory.                             *)
Tree == \A f \in Files \ {"state"} : Present(f) => Present(Parent(f))

(* Only a machine has a mounts.cfg, a kernel and an initrd to write, and a  *)
(* kernel that boots.                                                       *)
MachineOnly ==
  /\ \A c \in Contexts : pc[c] \in {"mounts", "initrd", "kernel"} => builder = "machine"
  /\ guest = "boot" => builder = "machine"

(* The files that a define has still to write.                             *)
ToCome(step) ==
  CASE step = "mounts" -> Boot \cup Config
    [] step \in {"libs", "copying", "rest"} -> (Boot \cup Config) \ {"mounts.cfg"}
    [] step = "initrd" -> Boot \cup {"disks.cfg", "sandbox.cfg"}
    [] step = "kernel" -> {"vmlinuz", "disks.cfg", "sandbox.cfg"}
    [] step = "disks"  -> {"disks.cfg", "sandbox.cfg"}
    [] step \in {"create", "save"} -> {"sandbox.cfg"}
    [] step = "empty"  -> {}

(* A call of define or undefine that has met no other one is the only one,  *)
(* and a definition that is whole is not being changed.                     *)
Undisturbed == Changing \ met
AloneInCall == \A c \in Undisturbed : Changing = {c}
Quiet == intact # None => Changing = {}

(* What such a define has written is there and its own, and once it has     *)
(* created the domain this is libvirt's, and no guest of an earlier          *)
(* definition runs.  What such an undefine will return is true of what it   *)
(* has done.                                                                *)
Progress(c) ==
  /\ pc[c] \in DefineSteps =>
       \A f \in Written \ ToCome(pc[c]) : Present(f) /\ (f # ".libs" => files[f] = c)
  /\ pc[c] \in {"save", "empty"} => defined = c /\ from = None
  /\ pc[c] \in {"unlink", "clean"} /\ ret[c] => defined = None
  /\ pc[c] = "clean" /\ ret[c] => \A f \in Files : ~Present(f)
ProgressTrue == \A c \in Undisturbed : Progress(c)

OffIsNew == guest = "off" => from = None

ServiceInv ==
  /\ TypeOK /\ MachineOnly /\ Tree /\ OffIsNew
  /\ AloneInCall /\ Quiet /\ ProgressTrue
  /\ DefinitionIntact /\ BootsWhatWasDefined
-----------------------------------------------------------------------------
(* What the helpers on files and on the steps of calls do.                 *)

(* The files written are the writer's, a directory is made only where there *)
(* was none, and nothing goes.                                              *)
LEMMA MakesEffect ==
  ASSUME TypeOK, NEW c \in Contexts, NEW ds, NEW fs, Makes(c, ds, fs)
  PROVE  /\ files' \in [Files -> Contexts \cup {None}]
         /\ \A f \in Files : /\ f \in fs => files'[f] = c
                             /\ f \in ds => files'[f] # None
                             /\ Present(f) => files'[f] # None
                             /\ f \notin fs /\ Present(f) => files'[f] = files[f]
                             /\ f \notin ds \cup fs => files'[f] = files[f]
BY DEF TypeOK, Makes, Present

(* The files removed are gone, the others as they were.                    *)
LEMMA RemovesEffect ==
  ASSUME TypeOK, NEW fs, Removes(fs)
  PROVE  /\ files' \in [Files -> Contexts \cup {None}]
         /\ \A f \in Files : files'[f] = IF f \in fs THEN None ELSE files[f]
BY DEF TypeOK, Removes

(* One context goes to a step, the others stay where they are.             *)
LEMMA GotoEffect ==
  ASSUME TypeOK, NEW c \in Contexts, NEW step, Goto(c, step)
  PROVE  /\ pc'[c] = step /\ \A d \in Contexts \ {c} : pc'[d] = pc[d]
         /\ Changing' = IF step \in DefineSteps \cup UndefineSteps
                        THEN Changing \cup {c} ELSE Changing \ {c}
         /\ step \in {"idle"} \cup DefineSteps \cup UndefineSteps
              => pc' \in [Contexts -> {"idle"} \cup DefineSteps \cup UndefineSteps]
BY DEF TypeOK, Goto, Changing
-----------------------------------------------------------------------------
(* Type correctness, with MachineOnly, which says why a container has no     *)
(* boot files.                                                              *)

(* The host starts with an empty directory.                                *)
LEMMA InitTyped == Init => TypeOK /\ MachineOnly
BY DEF Init, TypeOK, MachineOnly, Present, Files, Dirs, Boot, Config, Written

(* A step that disturbs only what is on disk keeps the types, if what it   *)
(* leaves there is typed.                                                   *)
LEMMA DiskStepTyped ==
  ASSUME TypeOK, MachineOnly,
         NEW c \in Contexts, NEW next \in {"idle"} \cup DefineSteps \cup UndefineSteps,
         Goto(c, next), next \in {"mounts", "initrd", "kernel"} => builder = "machine",
         files' \in [Files -> Contexts \cup {None}],
         \A f \in Files \ (Dirs \cup Written) : files'[f] = None,
         cut' => files'[".libs"] # None,
         calls' \in 0 .. MaxCalls, ret' \in [Contexts -> BOOLEAN],
         {intact', from'} \subseteq Contexts \cup {None}, met' \subseteq Contexts,
         UNCHANGED << builder, held, atLibvirt >>
  PROVE  TypeOK' /\ MachineOnly'
<1>1. Written' = Written /\ NameInUse' = NameInUse
  BY DEF Written, NameInUse, atLibvirt
<1>2. /\ pc' \in [Contexts -> {"idle"} \cup DefineSteps \cup UndefineSteps]
      /\ pc'[c] = next /\ \A d \in Contexts \ {c} : pc'[d] = pc[d]
  BY GotoEffect
<1>3. MachineOnly'
  BY <1>2 DEF MachineOnly, atLibvirt
<1>4. TypeOK'
  BY <1>1, <1>2 DEF TypeOK, atLibvirt, Present
<1> QED
  BY <1>3, <1>4

(* A step of define that writes its file keeps the types.                   *)
LEMMA WritesTyped ==
  ASSUME TypeOK, MachineOnly, NEW c \in Contexts,
         NEW step, NEW next \in DefineSteps,
         next \in {"mounts", "initrd", "kernel"} => builder = "machine",
         NEW f \in Written, Writes(c, step, f, next)
  PROVE  TypeOK' /\ MachineOnly'
<1>1. f \in Files /\ f \notin Dirs
  BY DEF Written, Files, Dirs, Boot, Config
<1>2. /\ files' \in [Files -> Contexts \cup {None}]
      /\ \A g \in Files : Present(g) => files'[g] # None
      /\ \A g \in Files \ {f} : files'[g] = files[g]
  BY MakesEffect DEF Writes
<1>3. /\ \A g \in Files \ (Dirs \cup Written) : files'[g] = None
      /\ cut' => files'[".libs"] # None
  BY <1>2 DEF TypeOK, Present, Writes, Files, Config
<1> QED
  BY <1>2, <1>3, DiskStepTyped DEF Writes, TypeOK, atLibvirt

(* A step of define that fails removes files that are not .libs, and keeps  *)
(* the types.                                                               *)
LEMMA FailsTyped ==
  ASSUME TypeOK, MachineOnly, NEW c \in Contexts,
         NEW step, NEW fs, ".libs" \notin fs, Fails(c, step, fs)
  PROVE  TypeOK' /\ MachineOnly'
<1>1. /\ files' \in [Files -> Contexts \cup {None}]
      /\ \A g \in Files : files'[g] = IF g \in fs \cup {"sandbox.cfg"} THEN None ELSE files[g]
  BY RemovesEffect DEF Fails
<1>2. /\ \A g \in Files \ (Dirs \cup Written) : files'[g] = None
      /\ cut' => files'[".libs"] # None
  BY <1>1 DEF TypeOK, Present, Fails, Files, Config
<1> QED
  BY <1>1, <1>2, DiskStepTyped DEF Fails, TypeOK, atLibvirt

(* The calls of define and undefine, and how they begin.                    *)
LEMMA BeginsTyped ==
  ASSUME TypeOK, NEW c \in Contexts, NEW step, Begins(c, step)
  PROVE  /\ calls' \in 0 .. MaxCalls /\ intact' = None /\ met' \subseteq Contexts
         /\ from \in Contexts \cup {None}
BY DEF TypeOK, Begins, Calls, Changing

(* A define that is refused keeps types.                                   *)
LEMMA DefineRefusedTyped ==
  ASSUME TypeOK, MachineOnly, NEW c \in Contexts, DefineRefused(c)
  PROVE  TypeOK' /\ MachineOnly'
<1>1. /\ files' \in [Files -> Contexts \cup {None}]
      /\ \A g \in Files : files'[g] = IF g = "sandbox.cfg" THEN None ELSE files[g]
  BY RemovesEffect DEF DefineRefused
<1>2. /\ \A g \in Files \ (Dirs \cup Written) : files'[g] = None
      /\ cut' => files'[".libs"] # None
  BY <1>1 DEF TypeOK, Present, DefineRefused, Files, Config
<1>3. Goto(c, "idle")
  BY DEF DefineRefused, Begins
<1> QED
  BY <1>1, <1>2, <1>3, BeginsTyped, DiskStepTyped DEF DefineRefused, TypeOK, atLibvirt

(* Starting a define keeps types.                                          *)
LEMMA DefineTyped ==
  ASSUME TypeOK, MachineOnly, NEW c \in Contexts, Define(c)
  PROVE  TypeOK' /\ MachineOnly'
<1>1. /\ files' \in [Files -> Contexts \cup {None}]
      /\ \A g \in Files : g \notin {"state", "config"} => files'[g] = files[g]
  BY MakesEffect DEF Define
<1>2. /\ \A g \in Files \ (Dirs \cup Written) : files'[g] = None
      /\ cut' => files'[".libs"] # None
  BY <1>1 DEF TypeOK, Present, Define, Files, Config, Dirs
<1>3. /\ Goto(c, FirstFile) /\ FirstFile \in DefineSteps
      /\ FirstFile \in {"mounts", "initrd", "kernel"} => builder = "machine"
  BY DEF Define, Begins, FirstFile, DefineSteps
<1> QED
  BY <1>1, <1>2, <1>3, BeginsTyped, DiskStepTyped DEF Define, TypeOK, atLibvirt

(* Copying the init program keeps types.                                   *)
LEMMA CopyInitTyped ==
  ASSUME TypeOK, MachineOnly, NEW c \in Contexts, CopyInit(c)
  PROVE  TypeOK' /\ MachineOnly'
<1>0. Makes(c, {"state", "config", ".libs"}, {}) /\ ".libs" \in Files
  BY DEF CopyInit, Files, Config
<1>1. /\ files' \in [Files -> Contexts \cup {None}]
      /\ files'[".libs"] # None
      /\ \A g \in Files : g \notin {"state", "config", ".libs"} => files'[g] = files[g]
  BY <1>0, MakesEffect
<1>2. ".libs" \in Written
  BY DEF Written, Config
<1>3. \A g \in Files \ (Dirs \cup Written) : files'[g] = None
  BY <1>1, <1>2 DEF TypeOK, Present, Dirs
<1>4. Goto(c, "copying") \/ Goto(c, "rest")
  BY DEF CopyInit
<1> QED
  BY <1>1, <1>3, <1>4, DiskStepTyped DEF CopyInit, TypeOK, DefineSteps, atLibvirt

(* Finishing the copies keeps types.                                       *)
LEMMA CopiedTyped ==
  ASSUME TypeOK, MachineOnly, NEW c \in Contexts, Copied(c)
  PROVE  TypeOK' /\ MachineOnly'
<1>1. CASE Fails(c, "copying", {}) \/ Fails(c, "rest", {})
  BY <1>1, FailsTyped
<1>2. CASE ~(Fails(c, "copying", {}) \/ Fails(c, "rest", {}))
  <2> DEFINE next == IF builder = "machine" THEN "initrd" ELSE "disks"
  <2>1. /\ Goto(c, next) /\ next \in DefineSteps
        /\ next \in {"mounts", "initrd", "kernel"} => builder = "machine"
    BY <1>2 DEF Copied, DefineSteps
  <2>2. /\ UNCHANGED << builder, calls, ret, held, files, atLibvirt, intact, met >>
        /\ Present(".libs")
    BY <1>2 DEF Copied
  <2> HIDE DEF next
  <2> QED
    BY <2>1, <2>2, DiskStepTyped DEF TypeOK, Present, atLibvirt
<1> QED
  BY <1>1, <1>2

(* Building the domain keeps types.                                        *)
LEMMA CreateDomainTyped ==
  ASSUME TypeOK, MachineOnly, NEW c \in Contexts, CreateDomain(c)
  PROVE  TypeOK' /\ MachineOnly'
<1>1. CASE Fails(c, "create", {})
  BY <1>1, FailsTyped
<1>2. CASE ~Fails(c, "create", {})
  <2>1. /\ Goto(c, "save") /\ defined' = c
        /\ UNCHANGED << builder, calls, ret, held, files, cut, guest, saw, from, intact, met >>
    BY <1>2 DEF CreateDomain, onDisk
  <2>2. /\ pc' \in [Contexts -> {"idle"} \cup DefineSteps \cup UndefineSteps]
        /\ MachineOnly'
    BY <2>1, GotoEffect DEF MachineOnly, DefineSteps
  <2>3. Written' = Written /\ NameInUse'
    BY <2>1 DEF Written, NameInUse, TypeOK
  <2> QED
    BY <2>1, <2>2, <2>3 DEF TypeOK, Present
<1> QED
  BY <1>1, <1>2

(* Defining it at libvirt keeps types.                                     *)
LEMMA DefinedTyped ==
  ASSUME TypeOK, MachineOnly, NEW c \in Contexts, Defined(c)
  PROVE  TypeOK' /\ MachineOnly'
<1>1. /\ files' \in [Files -> Contexts \cup {None}]
      /\ \A g \in Files : g \notin Dirs => files'[g] = files[g]
  BY MakesEffect DEF Defined, Dirs
<1>2. /\ \A g \in Files \ (Dirs \cup Written) : files'[g] = None
      /\ cut' => files'[".libs"] # None
  BY <1>1 DEF TypeOK, Present, Defined, Files, Config, Dirs
<1> QED
  BY <1>1, <1>2, DiskStepTyped DEF Defined, TypeOK, atLibvirt

(* What undefine and the clean-up remove.                                   *)
LEMMA UnlinkTyped ==
  ASSUME TypeOK, MachineOnly, NEW c \in Contexts, Unlink(c)
  PROVE  TypeOK' /\ MachineOnly'
<1>1. PICK outer \in SUBSET {"sandbox.cfg", "empty", "config", "state"} :
        Removes(outer) /\ ret' = [ret EXCEPT ![c] = @ /\ LeavesNone(outer)]
  BY DEF Unlink
<1>2. /\ files' \in [Files -> Contexts \cup {None}]
      /\ \A g \in Files : files'[g] = IF g \in outer THEN None ELSE files[g]
  BY <1>1, RemovesEffect
<1>3. /\ \A g \in Files \ (Dirs \cup Written) : files'[g] = None
      /\ cut' => files'[".libs"] # None
  BY <1>2 DEF TypeOK, Present, Unlink, Files, Config
<1>4. ret' \in [Contexts -> BOOLEAN]
  BY <1>1 DEF TypeOK, LeavesNone
<1> QED
  BY <1>2, <1>3, <1>4, DiskStepTyped DEF Unlink, TypeOK, UndefineSteps, atLibvirt

(* Cleaning up after a failure keeps types.                                *)
LEMMA CleanTyped ==
  ASSUME TypeOK, MachineOnly, NEW c \in Contexts, Clean(c)
  PROVE  TypeOK' /\ MachineOnly'
<1>1. /\ files' \in [Files -> Contexts \cup {None}]
      /\ \A g \in Files : files'[g] = None \/ files'[g] = files[g]
  BY RemovesEffect DEF Clean
<1>2. \A g \in Files \ (Dirs \cup Written) : files'[g] = None
  BY <1>1 DEF TypeOK, Present
<1>3. ret' \in [Contexts -> BOOLEAN] /\ ~cut'
  BY DEF TypeOK, Clean
<1> QED
  BY <1>1, <1>2, <1>3, DiskStepTyped DEF Clean, TypeOK, atLibvirt
(* The steps that change neither files nor definers: the rest of undefine,   *)
(* starting, stopping, attaching, a kill.                                    *)

(* A domain that is not found keeps types.                                 *)
LEMMA FetchFailsTyped ==
  ASSUME TypeOK, MachineOnly, NEW c \in Contexts, FetchFails(c)
  PROVE  TypeOK' /\ MachineOnly'
BY DiskStepTyped DEF FetchFails, TypeOK, Present, onDisk, atLibvirt

(* Starting an undefine keeps types.                                       *)
LEMMA UndefineTyped ==
  ASSUME TypeOK, MachineOnly, NEW c \in Contexts, Undefine(c)
  PROVE  TypeOK' /\ MachineOnly'
<1>1. Goto(c, "find")
  BY DEF Undefine, Begins
<1> QED
  BY <1>1, BeginsTyped, DiskStepTyped DEF Undefine, TypeOK, Present, onDisk, atLibvirt, UndefineSteps

(* What a pointer to a domain becomes.                                      *)
LEMMA ForgottenTyped ==
  ASSUME TypeOK
  PROVE  /\ Forgotten \in [Contexts -> {"none", "current", "gone"}]
         /\ \A c \in Contexts : Forgotten[c] # "current"
BY DEF TypeOK, Forgotten

(* Undefining at libvirt keeps types.                                      *)
LEMMA DeleteDomainTyped ==
  ASSUME TypeOK, MachineOnly, NEW c \in Contexts, DeleteDomain(c)
  PROVE  TypeOK' /\ MachineOnly'
<1>1. /\ Goto(c, "unlink")
      /\ UNCHANGED << builder, calls, files, cut, guest, saw, from, intact, met >>
  BY DEF DeleteDomain, onDisk
<1>2. /\ pc' \in [Contexts -> {"idle"} \cup DefineSteps \cup UndefineSteps]
      /\ MachineOnly'
  BY <1>1, GotoEffect DEF MachineOnly, UndefineSteps
<1>3. Written' = Written
  BY <1>1 DEF Written
<1>4. CASE defined' = None /\ UNCHANGED ret
           /\ held' = IF guest = "off" THEN Forgotten ELSE held
  <2>1. /\ held' \in [Contexts -> {"none", "current", "gone"}]
        /\ (\E d \in Contexts : held'[d] = "current") => guest # "off"
    BY <1>4, ForgottenTyped DEF TypeOK
  <2> QED
    BY <1>1, <1>2, <1>3, <1>4, <2>1 DEF TypeOK, Present, NameInUse
<1>5. CASE NameInUse /\ ret' = [ret EXCEPT ![c] = FALSE] /\ UNCHANGED << defined, held >>
  BY <1>1, <1>2, <1>3, <1>5 DEF TypeOK, Present, NameInUse
<1> QED
  BY <1>4, <1>5 DEF DeleteDomain

(* A step that keeps files and places of the contexts keeps the types, if   *)
(* the pointers fit what libvirt then has.                                   *)
LEMMA LibvirtStepTyped ==
  ASSUME TypeOK, MachineOnly,
         UNCHANGED << builder, pc, ret, onDisk, defined, intact, met >>,
         calls' \in 0 .. MaxCalls,
         held' \in [Contexts -> {"none", "current", "gone"}],
         guest' \in {"off", "boot", "init", "app"}, guest' = "boot" => builder = "machine",
         from' \in Contexts \cup {None},
         (\E c \in Contexts : held'[c] = "current") => defined # None \/ guest' # "off"
  PROVE  TypeOK' /\ MachineOnly'
<1>1. Written' = Written
  BY DEF Written
<1>2. MachineOnly'
  BY DEF MachineOnly
<1>3. TypeOK'
  BY <1>1 DEF TypeOK, onDisk, Present, NameInUse
<1> QED
  BY <1>2, <1>3

(* Starting the service keeps types.                                       *)
LEMMA StartTyped ==
  ASSUME TypeOK, MachineOnly, NEW c \in Contexts, Start(c)
  PROVE  TypeOK' /\ MachineOnly'
<1>1. UNCHANGED << builder, pc, ret, onDisk, defined, intact, met >>
  BY DEF Start, CleanPostStart, onDisk
<1>2. /\ held' \in [Contexts -> {"none", "current", "gone"}]
      /\ calls' \in 0 .. MaxCalls /\ from' \in Contexts \cup {None} /\ defined # None
  BY DEF Start, TypeOK, Calls, CanStart
<1>3. guest' \in {"off", "boot", "init", "app"} /\ (guest' = "boot" => builder = "machine")
  BY DEF Start
<1> QED
  BY <1>1, <1>2, <1>3, LibvirtStepTyped

(* Stopping it keeps types.                                                *)
LEMMA StopTyped ==
  ASSUME TypeOK, MachineOnly, NEW c \in Contexts, Stop(c)
  PROVE  TypeOK' /\ MachineOnly'
<1>1. UNCHANGED << builder, pc, ret, onDisk, defined, intact, met >> /\ calls' \in 0 .. MaxCalls
  BY DEF Stop, TypeOK, Calls
<1>2. CASE Off /\ held' = [(IF defined = None THEN Forgotten ELSE held) EXCEPT ![c] = "none"]
  <2>1. CASE defined = None
    <3>1. /\ held' \in [Contexts -> {"none", "current", "gone"}]
          /\ \A d \in Contexts : held'[d] # "current"
      BY <1>2, <2>1, ForgottenTyped
    <3> QED
      BY <1>1, <1>2, <3>1, LibvirtStepTyped DEF Off
  <2>2. CASE defined # None
    BY <1>1, <1>2, <2>2, LibvirtStepTyped DEF Off, TypeOK
  <2> QED
    BY <2>1, <2>2
<1>3. CASE held' = [held EXCEPT ![c] = "none"] /\ UNCHANGED << guest, saw, from >>
  <2>1. /\ held' \in [Contexts -> {"none", "current", "gone"}]
        /\ \A d \in Contexts : held'[d] = "current" => held[d] = "current"
    BY <1>3 DEF TypeOK
  <2> QED
    BY <1>1, <1>3, <2>1, LibvirtStepTyped DEF TypeOK, NameInUse, MachineOnly
<1> QED
  BY <1>2, <1>3 DEF Stop

(* Attaching keeps types.                                                  *)
LEMMA AttachTyped ==
  ASSUME TypeOK, MachineOnly, NEW c \in Contexts, Attach(c)
  PROVE  TypeOK' /\ MachineOnly'
BY LibvirtStepTyped DEF Attach, Calls, TypeOK, MachineOnly, NameInUse, atLibvirt

(* Detaching keeps types.                                                  *)
LEMMA DetachTyped ==
  ASSUME TypeOK, MachineOnly, NEW c \in Contexts, Detach(c)
  PROVE  TypeOK' /\ MachineOnly'
BY LibvirtStepTyped DEF Detach, Calls, TypeOK, MachineOnly, NameInUse, atLibvirt

(* The death of a client keeps types.                                      *)
LEMMA KilledTyped ==
  ASSUME TypeOK, MachineOnly, NEW c \in Contexts, Killed(c)
  PROVE  TypeOK' /\ MachineOnly'
<1>1. /\ pc' \in [Contexts -> {"idle"} \cup DefineSteps \cup UndefineSteps]
      /\ pc'[c] = "idle" /\ \A d \in Contexts \ {c} : pc'[d] = pc[d]
  BY GotoEffect DEF Killed
<1>2. /\ held' \in [Contexts -> {"none", "current", "gone"}]
      /\ \A d \in Contexts : held'[d] = "current" => held[d] = "current"
  BY DEF Killed, TypeOK
<1>3. Written' = Written /\ NameInUse' = NameInUse
  BY DEF Killed, Written, NameInUse, atLibvirt
<1>4. MachineOnly'
  BY <1>1 DEF Killed, MachineOnly, atLibvirt
<1>5. TypeOK'
  BY <1>1, <1>2, <1>3 DEF Killed, TypeOK, Present, onDisk, atLibvirt
<1> QED
  BY <1>4, <1>5

(* The steps of the guest.                                                  *)
LEMMA PowersOffTyped ==
  ASSUME TypeOK, MachineOnly, PowersOff,
         UNCHANGED << builder, pc, calls, ret, onDisk, defined, intact, met >>
  PROVE  TypeOK' /\ MachineOnly'
BY ForgottenTyped, LibvirtStepTyped DEF PowersOff, Off, TypeOK

(* What the guest reads keeps types.                                       *)
LEMMA GuestReadsTyped ==
  ASSUME TypeOK, MachineOnly, NEW at \in {"boot", "init"}, NEW fs, NEW to \in {"init", "app"},
         GuestReads(at, fs, to)
  PROVE  TypeOK' /\ MachineOnly'
<1>1. UNCHANGED << builder, pc, calls, ret, onDisk, defined, intact, met >>
  BY DEF GuestReads
<1>2. CASE PowersOff
  BY <1>1, <1>2, PowersOffTyped
<1>3. CASE guest' = to /\ UNCHANGED << held, from >>
  BY <1>1, <1>3, LibvirtStepTyped DEF TypeOK
<1> QED
  BY <1>2, <1>3 DEF GuestReads

(* No step breaks the types.                                                *)
LEMMA TypeStep ==
  ASSUME TypeOK, MachineOnly, [Next]_vars
  PROVE  TypeOK' /\ MachineOnly'
<1>1. ASSUME NEW c \in Contexts,
             WriteMountCfg(c) \/ MakeInitrd(c) \/ CopyKernel(c) \/ WriteDiskCfg(c) \/ SaveConfig(c)
      PROVE  TypeOK' /\ MachineOnly'
  <2>1. CASE \E step, fs : ".libs" \notin fs /\ Fails(c, step, fs)
    BY <2>1, FailsTyped
  <2>2. CASE Writes(c, "mounts", "mounts.cfg", "libs")
    <3>1. builder = "machine"
      BY <2>2 DEF Writes, MachineOnly
    <3> QED
      BY <2>2, <3>1, WritesTyped DEF Written, DefineSteps, Config
  <2>3. CASE Writes(c, "initrd", "initrd.img", "kernel")
    <3>1. builder = "machine"
      BY <2>3 DEF Writes, MachineOnly
    <3> QED
      BY <2>3, <3>1, WritesTyped DEF Written, DefineSteps, Boot
  <2>4. CASE Writes(c, "kernel", "vmlinuz", "disks")
    <3>1. builder = "machine"
      BY <2>4 DEF Writes, MachineOnly
    <3> QED
      BY <2>4, <3>1, WritesTyped DEF Written, DefineSteps, Boot
  <2>5. CASE Writes(c, "disks", "disks.cfg", "create")
    BY <2>5, WritesTyped DEF Written, DefineSteps, Config
  <2>6. CASE Writes(c, "save", "sandbox.cfg", "empty")
    BY <2>6, WritesTyped DEF Written, DefineSteps, Config
  <2> QED
    BY <1>1, <2>1, <2>2, <2>3, <2>4, <2>5, <2>6
       DEF WriteMountCfg, MakeInitrd, CopyKernel, WriteDiskCfg, SaveConfig
<1>2. ASSUME GuestInit \/ GuestCommon \/ GuestEnds
      PROVE  TypeOK' /\ MachineOnly'
  BY <1>2, GuestReadsTyped, PowersOffTyped DEF GuestInit, GuestCommon, GuestEnds
<1>3. CASE UNCHANGED vars
  BY <1>3 DEF vars, onDisk, atLibvirt, TypeOK, MachineOnly, Present, Written, NameInUse
<1> QED
  BY <1>1, <1>2, <1>3, DefineRefusedTyped, DefineTyped, CopyInitTyped, CopiedTyped,
     CreateDomainTyped, DefinedTyped, UndefineTyped, FetchFailsTyped, DeleteDomainTyped,
     UnlinkTyped, CleanTyped, StartTyped, StopTyped, AttachTyped, DetachTyped, KilledTyped
     DEF Next

(* Types hold in every state of every behaviour.                           *)
LEMMA TypeInvariant == Spec => [](TypeOK /\ MachineOnly)
<1>1. TypeOK /\ MachineOnly /\ [Next]_vars => (TypeOK /\ MachineOnly)'
  BY TypeStep
<1> QED
  BY <1>1, InitTyped, PTL DEF Spec

(* Every state is well typed: in particular a container never has boot files *)
(* or a mounts.cfg, which nothing would remove, and no context keeps a       *)
(* pointer to a domain that libvirt has not (context-service.c:143-250).     *)
THEOREM TypeCorrect == Spec => []TypeOK
BY TypeInvariant, PTL
-----------------------------------------------------------------------------
(* What is in a directory keeps its directory.                              *)

(* An empty directory has no file without its parents.                     *)
LEMMA InitTree == Init => Tree
BY DEF Init, Tree, Present

(* Removing what is no directory with anything in it cannot harm.            *)
LEMMA RemovesKeepsTree ==
  ASSUME TypeOK, Tree, NEW fs, Removes(fs), {"state", "config"} \cap fs = {}
  PROVE  Tree'
<1>1. \A f \in Files : files'[f] = IF f \in fs THEN None ELSE files[f]
  BY RemovesEffect
<1>2. \A f \in Files : Parent(f) \in {"state", "config"} /\ Parent(f) \in Files
  BY DEF Parent, Files, Dirs
<1> QED
  BY <1>1, <1>2 DEF Tree, Present

(* Writing into a directory that is there, or making it, cannot either.      *)
LEMMA MakesKeepsTree ==
  ASSUME TypeOK, Tree, NEW c \in Contexts, NEW ds, NEW fs, Makes(c, ds, fs),
         \A f \in ((ds \cup fs) \cap Files) \ {"state"} : Parent(f) \in ds \/ Present(Parent(f))
  PROVE  Tree'
<1>1. \A f \in Files : /\ f \in ds \/ Present(f) => files'[f] # None
                       /\ f \notin ds \cup fs => files'[f] = files[f]
  BY MakesEffect
<1>2. \A f \in Files : Parent(f) \in Files
  BY DEF Parent, Files, Dirs
<1> QED
  BY <1>1, <1>2 DEF Tree, Present

(* rmdir removes directories from the inside out, each only if empty.        *)
LEMMA UnlinkKeepsTree ==
  ASSUME TypeOK, Tree, NEW c \in Contexts, Unlink(c)
  PROVE  Tree'
<1> DEFINE inner == {"sandbox.cfg", "empty"}
           middle == IF Gone(inner, "config") THEN inner \cup {"config"} ELSE inner
           outer == IF Gone(middle, "state") THEN middle \cup {"state"} ELSE middle
<1>1. Removes(outer)
  BY DEF Unlink
<1>2. \A f \in Files : files'[f] = IF f \in outer THEN None ELSE files[f]
  BY <1>1, RemovesEffect
<1> SUFFICES ASSUME NEW f \in Files \ {"state"}, files'[f] # None
             PROVE  files'[Parent(f)] # None
  BY DEF Tree, Present
<1>3. Present(f) /\ f \notin outer
  BY <1>2 DEF Present
<1>4. Present(Parent(f)) /\ Parent(f) \in Files
  BY <1>3 DEF Tree, Parent, Files, Dirs
<1>5. CASE Parent(f) = "state"
  <2>1. ~Gone(middle, "state")
    <3>1. SUFFICES ASSUME Gone(middle, "state") PROVE FALSE
      OBVIOUS
    <3>2. f \in middle
      BY <1>3, <1>5, <3>1 DEF Gone
    <3> QED
      BY <1>3, <3>2
  <2>2. "state" \notin outer
    BY <2>1
  <2> QED
    BY <1>2, <1>4, <1>5, <2>2 DEF Present
<1>6. CASE Parent(f) = "config"
  <2>1. ~Gone(inner, "config")
    <3>1. SUFFICES ASSUME Gone(inner, "config") PROVE FALSE
      OBVIOUS
    <3>2. f # "config"
      BY <1>6 DEF Parent
    <3>3. f \in inner
      BY <1>3, <1>6, <3>1, <3>2 DEF Gone
    <3> QED
      BY <1>3, <3>3
  <2>2. "config" \notin outer
    BY <2>1
  <2> QED
    BY <1>2, <1>4, <1>6, <2>2 DEF Present
<1> QED
  BY <1>5, <1>6 DEF Parent

(* What a step does to the files: nothing, a removal of plain files, a write *)
(* in a directory that is there or made, or undefine's rmdir.               *)
LEMMA FilesStep ==
  ASSUME TypeOK, [Next]_vars
  PROVE  \/ UNCHANGED files
         \/ \E fs : Removes(fs) /\ {"state", "config"} \cap fs = {}
         \/ \E c \in Contexts : \E ds, fs :
              /\ Makes(c, ds, fs)
              /\ \A f \in ((ds \cup fs) \cap Files) \ {"state"} : Parent(f) \in ds \/ Present(Parent(f))
         \/ \E c \in Contexts : Unlink(c)
<1> DEFINE Made(c, ds, fs) ==
             /\ Makes(c, ds, fs)
             /\ \A f \in ((ds \cup fs) \cap Files) \ {"state"} : Parent(f) \in ds \/ Present(Parent(f))
           Gentle(fs) == Removes(fs) /\ {"state", "config"} \cap fs = {}
           Goal == UNCHANGED files \/ (\E fs : Gentle(fs))
                     \/ (\E c \in Contexts : \E ds, fs : Made(c, ds, fs))
                     \/ (\E c \in Contexts : Unlink(c))
<1>1. ASSUME NEW c \in Contexts, NEW step, NEW f, NEW next, Writes(c, step, f, next)
      PROVE  Made(c, {}, {f})
  BY <1>1 DEF Writes
<1>2. ASSUME NEW c, NEW step, NEW fs, Fails(c, step, fs), {"state", "config"} \cap fs = {}
      PROVE  Gentle(fs \cup {"sandbox.cfg"})
  BY <1>2 DEF Fails
<1>3. ASSUME NEW c \in Contexts, Define(c) PROVE Made(c, {"state", "config"}, {})
  BY <1>3 DEF Define, Parent
<1>4. ASSUME NEW c \in Contexts, Defined(c) PROVE Made(c, {"state", "config", "empty"}, {})
  BY <1>4 DEF Defined, Parent, Boot
<1>5. ASSUME NEW c \in Contexts, CopyInit(c) PROVE Made(c, {"state", "config", ".libs"}, {})
  <2>1. Makes(c, {"state", "config", ".libs"}, {})
    BY <1>5 DEF CopyInit
  <2> QED
    BY <2>1 DEF Parent, Boot
<1>6. ASSUME NEW c \in Contexts, DefineRefused(c) PROVE Gentle({"sandbox.cfg"})
  BY <1>6 DEF DefineRefused
<1>7. ASSUME NEW c \in Contexts, Clean(c) PROVE \E fs : Gentle(fs)
  BY <1>7 DEF Clean
<1> HIDE DEF Made, Gentle
<1>8. ASSUME NEW c \in Contexts,
             WriteMountCfg(c) \/ MakeInitrd(c) \/ CopyKernel(c) \/ WriteDiskCfg(c) \/ SaveConfig(c)
      PROVE  Goal
  BY <1>1, <1>2, <1>8 DEF WriteMountCfg, MakeInitrd, CopyKernel, WriteDiskCfg, SaveConfig
<1>9. ASSUME NEW c \in Contexts, Copied(c) \/ CreateDomain(c) PROVE Goal
  BY <1>2, <1>9 DEF Copied, CreateDomain, onDisk
<1>10. ASSUME NEW c \in Contexts,
              \/ Undefine(c) \/ FetchFails(c) \/ DeleteDomain(c) \/ Start(c) \/ Stop(c)
              \/ Attach(c) \/ Detach(c) \/ Killed(c)
       PROVE  UNCHANGED files
  BY <1>10 DEF Undefine, FetchFails, DeleteDomain, Start, CleanPostStart, Stop, Attach, Detach,
     Killed, onDisk
<1>11. GuestInit \/ GuestCommon \/ GuestEnds \/ UNCHANGED vars => UNCHANGED files
  BY DEF GuestInit, GuestCommon, GuestReads, GuestEnds, vars, onDisk
<1>12. Goal
  BY <1>3, <1>4, <1>5, <1>6, <1>7, <1>8, <1>9, <1>10, <1>11 DEF Next
<1> QED
  BY <1>12 DEF Made, Gentle

(* Every step keeps the tree a tree.                                       *)
LEMMA TreeStep ==
  ASSUME TypeOK, Tree, [Next]_vars
  PROVE  Tree'
BY FilesStep, RemovesKeepsTree, MakesKeepsTree, UnlinkKeepsTree DEF Tree, Present
-----------------------------------------------------------------------------
(* Who is in a call of define or undefine.                                  *)

(* Every step begins a call, goes on with one, or leaves the calls alone.  *)
LEMMA StepKinds ==
  ASSUME TypeOK, [Next]_vars
  PROVE  \/ \E c \in Contexts : \E step : Begins(c, step)
         \/ \E c \in Changing : \E step :
              /\ Goto(c, step) /\ met' = met
              /\ intact' # intact => step = "idle" /\ c \notin met
         \/ UNCHANGED << pc, met, intact >>
<1> DEFINE GoesOn(c, step) == /\ Goto(c, step) /\ met' = met
                              /\ intact' # intact => step = "idle" /\ c \notin met
<1>1. ASSUME NEW c \in Contexts, DefineRefused(c) \/ Define(c) \/ Undefine(c)
      PROVE  \E step : Begins(c, step)
  BY <1>1 DEF DefineRefused, Define, Undefine
<1>2. ASSUME NEW c \in Contexts,
             \/ WriteMountCfg(c) \/ CopyInit(c) \/ Copied(c) \/ MakeInitrd(c) \/ CopyKernel(c)
             \/ WriteDiskCfg(c) \/ CreateDomain(c) \/ SaveConfig(c) \/ Defined(c)
             \/ FetchFails(c) \/ DeleteDomain(c) \/ Unlink(c) \/ Clean(c) \/ Killed(c)
      PROVE  c \in Changing /\ \E step : GoesOn(c, step)
  <2>1. c \in Changing <=> pc[c] # "idle"
    BY DEF TypeOK, Changing, DefineSteps, UndefineSteps
  <2>2. ASSUME NEW step, NEW f, NEW next, Writes(c, step, f, next), step # "idle"
        PROVE  pc[c] # "idle" /\ GoesOn(c, next)
    BY <2>2 DEF Writes
  <2>3. ASSUME NEW step, NEW fs, Fails(c, step, fs), step # "idle"
        PROVE  pc[c] # "idle" /\ GoesOn(c, "idle")
    BY <2>3 DEF Fails
  <2>4. CASE WriteMountCfg(c) \/ MakeInitrd(c) \/ CopyKernel(c) \/ WriteDiskCfg(c) \/ SaveConfig(c)
    BY <2>1, <2>2, <2>3, <2>4 DEF WriteMountCfg, MakeInitrd, CopyKernel, WriteDiskCfg, SaveConfig
  <2>5. CASE CopyInit(c) \/ Copied(c) \/ CreateDomain(c)
    BY <2>1, <2>3, <2>5 DEF CopyInit, Copied, CreateDomain
  <2>6. CASE Defined(c)
    BY <2>1, <2>6 DEF Defined
  <2>7. CASE FetchFails(c) \/ DeleteDomain(c) \/ Unlink(c) \/ Clean(c) \/ Killed(c)
    BY <2>1, <2>7 DEF FetchFails, DeleteDomain, Unlink, Clean, Killed
  <2> QED
    BY <1>2, <2>4, <2>5, <2>6, <2>7
<1>3. ASSUME NEW c \in Contexts, Start(c) \/ Stop(c) \/ Attach(c) \/ Detach(c)
      PROVE  UNCHANGED << pc, met, intact >>
  BY <1>3 DEF Start, Stop, Attach, Detach
<1>4. GuestInit \/ GuestCommon \/ GuestEnds \/ UNCHANGED vars => UNCHANGED << pc, met, intact >>
  BY DEF GuestInit, GuestCommon, GuestReads, GuestEnds, vars
<1> HIDE DEF GoesOn
<1>5. \/ \E c \in Contexts : \E step : Begins(c, step)
      \/ \E c \in Changing : \E step : GoesOn(c, step)
      \/ UNCHANGED << pc, met, intact >>
  BY <1>1, <1>2, <1>3, <1>4 DEF Next
<1> QED
  BY <1>5 DEF GoesOn

(* A call that has met none stays alone, and ends before a definition is     *)
(* taken for whole.                                                         *)
LEMMA CallStep ==
  ASSUME TypeOK, AloneInCall, Quiet, [Next]_vars
  PROVE  AloneInCall' /\ Quiet'
<1>1. ASSUME NEW c \in Contexts, NEW step, Begins(c, step)
      PROVE  AloneInCall' /\ Quiet'
  <2>1. Changing' \subseteq Changing \cup {c} /\ intact' = None
    BY <1>1, GotoEffect DEF Begins
  <2>2. met' = IF Changing = {} THEN met \ {c} ELSE met \cup {c} \cup Changing
    BY <1>1 DEF Begins
  <2> QED
    BY <2>1, <2>2 DEF AloneInCall, Undisturbed, Quiet
<1>2. ASSUME NEW c \in Changing, NEW step, Goto(c, step), met' = met,
             intact' # intact => step = "idle" /\ c \notin met
      PROVE  AloneInCall' /\ Quiet'
  <2>1. Changing' \subseteq Changing /\ (step = "idle" => Changing' = Changing \ {c})
    BY <1>2, GotoEffect DEF Changing, DefineSteps, UndefineSteps
  <2>2. AloneInCall'
    BY <1>2, <2>1 DEF AloneInCall, Undisturbed
  <2>3. Quiet'
    BY <1>2, <2>1 DEF AloneInCall, Undisturbed, Quiet
  <2> QED
    BY <2>2, <2>3
<1>3. CASE UNCHANGED << pc, met, intact >>
  BY <1>3 DEF AloneInCall, Undisturbed, Quiet, Changing
<1>4. CASE \E c \in Contexts : \E step : Begins(c, step)
  BY <1>1, <1>4
<1>5. CASE \E c \in Changing : \E step :
             /\ Goto(c, step) /\ met' = met
             /\ intact' # intact => step = "idle" /\ c \notin met
  BY <1>2, <1>5
<1> QED
  BY <1>3, <1>4, <1>5, StepKinds
-----------------------------------------------------------------------------
(* What a call that has met no other one has done.                          *)

(* A call begins having written nothing.                                    *)
LEMMA BeginsProgress ==
  ASSUME TypeOK, NEW c \in Contexts, DefineRefused(c) \/ Define(c) \/ Undefine(c)
  PROVE  ProgressTrue'
<1>1. PICK step \in {"idle", FirstFile, "find"} : Begins(c, step)
  BY DEF DefineRefused, Define, Undefine
<1>2. UNCHANGED << builder, ret >>
  BY DEF DefineRefused, Define, Undefine
<1> SUFFICES ASSUME NEW d \in Undisturbed' PROVE Progress(d)'
  BY DEF ProgressTrue
<1>3. d = c
  <2>1. met' = IF Changing = {} THEN met \ {c} ELSE met \cup {c} \cup Changing
    BY <1>1 DEF Begins
  <2>2. Changing' \subseteq Changing \cup {c}
    BY <1>1, GotoEffect DEF Begins
  <2> QED
    BY <2>1, <2>2 DEF Undisturbed
<1>4. pc'[d] = step /\ step # "idle"
  BY <1>1, <1>3, GotoEffect DEF Begins, Undisturbed, Changing, DefineSteps, UndefineSteps
<1>5. CASE step = "find"
  BY <1>4, <1>5 DEF Progress, DefineSteps
<1>6. CASE step = FirstFile
  <2>1. (Written \ ToCome(step))' = {}
    BY <1>2, <1>6 DEF FirstFile, Written, ToCome, Config, Boot
  <2>2. step \in {"mounts", "libs"}
    BY <1>6 DEF FirstFile
  <2> QED
    BY <1>4, <2>1, <2>2 DEF Progress
<1> QED
  BY <1>4, <1>5, <1>6

(* A step of one that goes on alone need only be true of that one.           *)
LEMMA AloneSuffices ==
  ASSUME TypeOK, AloneInCall, ProgressTrue, NEW c \in Changing,
         NEW step, Goto(c, step), met' = met,
         c \in Undisturbed /\ c \in Undisturbed' /\ Progress(c) => Progress(c)'
  PROVE  ProgressTrue'
<1>1. Changing' \subseteq Changing
  BY GotoEffect DEF Changing
<1> SUFFICES ASSUME NEW d \in Undisturbed' PROVE Progress(d)'
  BY DEF ProgressTrue
<1>2. d \in Undisturbed /\ d = c
  BY <1>1 DEF Undisturbed, AloneInCall
<1> QED
  BY <1>2 DEF ProgressTrue

(* A file written is one file less to come.                                 *)
LEMMA WritesProgress ==
  ASSUME TypeOK, MachineOnly, AloneInCall, ProgressTrue, NEW c \in Contexts,
         NEW step \in DefineSteps, NEW next \in DefineSteps, NEW f \in Written,
         Writes(c, step, f, next),
         Written \ ToCome(next) = (Written \ ToCome(step)) \cup {f},
         next = "empty" => step = "save", next # "save"
  PROVE  ProgressTrue'
<1>1. c \in Changing /\ Goto(c, next) /\ met' = met
  BY DEF Writes, Changing
<1>2. SUFFICES ASSUME c \in Undisturbed, Progress(c) PROVE Progress(c)'
  BY <1>1, AloneSuffices
<1>3. pc[c] = step /\ pc'[c] = next
  BY <1>1, GotoEffect DEF Writes
<1>4. f \in Files /\ Written \subseteq Files
  BY DEF Written, Files
<1>5. /\ files'[f] = c
      /\ \A g \in Files \ {f} : files'[g] = files[g]
  BY <1>4, MakesEffect DEF Writes
<1>6. Written' = Written /\ UNCHANGED << defined, from, ret >>
  BY DEF Writes, Written, atLibvirt
<1>7. ASSUME NEW g \in Written \ ToCome(next)
      PROVE  files'[g] # None /\ (g # ".libs" => files'[g] = c)
  BY <1>2, <1>3, <1>4, <1>5, <1>7 DEF Progress, Present
<1>8. next \notin {"unlink", "clean"}
  BY DEF DefineSteps
<1> QED
  BY <1>2, <1>3, <1>6, <1>7, <1>8 DEF Progress, Present

(* One that fails or is killed has nothing left to be true of.               *)
LEMMA EndsProgress ==
  ASSUME TypeOK, AloneInCall, ProgressTrue, NEW c \in Changing, Goto(c, "idle"), met' = met
  PROVE  ProgressTrue'
<1>1. Changing' = Changing \ {c}
  BY GotoEffect DEF Changing, DefineSteps, UndefineSteps
<1> QED
  BY <1>1, AloneSuffices DEF Undisturbed

(* Copying the init program keeps what the call has done so far.           *)
LEMMA CopyInitProgress ==
  ASSUME TypeOK, AloneInCall, ProgressTrue, NEW c \in Contexts, CopyInit(c)
  PROVE  ProgressTrue'
<1>1. PICK step \in {"copying", "rest"} : Goto(c, step)
  BY DEF CopyInit
<1>2. c \in Changing /\ met' = met
  BY DEF CopyInit, Changing, DefineSteps
<1>3. SUFFICES ASSUME c \in Undisturbed, Progress(c) PROVE Progress(c)'
  BY <1>1, <1>2, AloneSuffices
<1>4. pc[c] = "libs" /\ pc'[c] = step
  BY <1>1, GotoEffect DEF CopyInit
<1>5. Makes(c, {"state", "config", ".libs"}, {})
  BY DEF CopyInit
<1>6. \A g \in Files : Present(g) => files'[g] = files[g]
  BY <1>5, MakesEffect
<1>7. Written' = Written /\ Written \subseteq Files
  BY DEF CopyInit, Written, Files
<1>8. ToCome(step) = ToCome("libs")
  BY DEF ToCome
<1> QED
  BY <1>3, <1>4, <1>6, <1>7, <1>8 DEF Progress, Present, DefineSteps

(* So do the copies that follow.                                           *)
LEMMA CopiedProgress ==
  ASSUME TypeOK, AloneInCall, ProgressTrue, NEW c \in Contexts, Copied(c)
  PROVE  ProgressTrue'
<1>1. c \in Changing /\ met' = met
  BY DEF Copied, Fails, Changing, DefineSteps
<1>2. CASE Goto(c, "idle")
  BY <1>1, <1>2, EndsProgress
<1>3. CASE ~Goto(c, "idle")
  <2> DEFINE next == IF builder = "machine" THEN "initrd" ELSE "disks"
  <2>1. /\ Present(".libs") /\ Goto(c, next) /\ UNCHANGED << builder, files, ret >>
        /\ pc[c] \in {"copying", "rest"}
    BY <1>3 DEF Copied, Fails
  <2>2. SUFFICES ASSUME c \in Undisturbed, Progress(c) PROVE Progress(c)'
    BY <1>1, <2>1, AloneSuffices
  <2>3. pc'[c] = next
    BY <2>1, GotoEffect
  <2>4. Written \ ToCome(next) \subseteq (Written \ ToCome(pc[c])) \cup {".libs"}
    BY <2>1 DEF Written, ToCome, Boot, Config
  <2>5. Written' = Written /\ next \in {"initrd", "disks"}
    BY <2>1 DEF Written
  <2> HIDE DEF next
  <2> QED
    BY <2>1, <2>2, <2>3, <2>4, <2>5 DEF Progress, Present, DefineSteps
<1> QED
  BY <1>2, <1>3

(* The domain is created where there was none, and so no guest either.      *)
LEMMA CreateDomainProgress ==
  ASSUME TypeOK, AloneInCall, ProgressTrue, OffIsNew, NEW c \in Contexts, CreateDomain(c)
  PROVE  ProgressTrue'
<1>1. c \in Changing /\ met' = met
  BY DEF CreateDomain, Fails, Changing, DefineSteps
<1>2. CASE Fails(c, "create", {})
  BY <1>1, <1>2, EndsProgress DEF Fails
<1>3. CASE ~Fails(c, "create", {})
  <2>1. /\ pc[c] = "create" /\ ~NameInUse /\ defined' = c /\ Goto(c, "save")
        /\ UNCHANGED << builder, ret, files, from >>
    BY <1>3 DEF CreateDomain, onDisk
  <2>2. SUFFICES ASSUME c \in Undisturbed, Progress(c) PROVE Progress(c)'
    BY <1>1, <2>1, AloneSuffices
  <2>3. pc'[c] = "save" /\ from = None
    BY <2>1, GotoEffect DEF NameInUse, OffIsNew
  <2>4. Written' = Written /\ ToCome("save") = ToCome("create")
    BY <2>1 DEF Written, ToCome
  <2> QED
    BY <2>1, <2>2, <2>3, <2>4 DEF Progress, Present, DefineSteps
<1> QED
  BY <1>2, <1>3

(* So does undefining at libvirt.                                          *)
LEMMA DeleteDomainProgress ==
  ASSUME TypeOK, AloneInCall, ProgressTrue, NEW c \in Contexts, DeleteDomain(c)
  PROVE  ProgressTrue'
<1>1. c \in Changing /\ met' = met /\ Goto(c, "unlink") /\ UNCHANGED << builder, files >>
  BY DEF DeleteDomain, Changing, UndefineSteps, onDisk
<1>2. SUFFICES ASSUME c \in Undisturbed, Progress(c) PROVE Progress(c)'
  BY <1>1, AloneSuffices
<1>3. pc'[c] = "unlink" /\ (ret'[c] => defined' = None)
  BY <1>1, GotoEffect DEF DeleteDomain, TypeOK
<1> QED
  BY <1>3 DEF Progress, DefineSteps

(* If no directory stays, nothing stays: what is in one keeps it.            *)
LEMMA UnlinkProgress ==
  ASSUME TypeOK, Tree, AloneInCall, ProgressTrue, NEW c \in Contexts, Unlink(c)
  PROVE  ProgressTrue'
<1>1. /\ c \in Changing /\ met' = met /\ Goto(c, "clean") /\ pc[c] = "unlink"
      /\ UNCHANGED << builder, defined >>
  BY DEF Unlink, Changing, UndefineSteps, atLibvirt
<1>2. SUFFICES ASSUME c \in Undisturbed, Progress(c) PROVE Progress(c)'
  BY <1>1, AloneSuffices
<1>3. pc'[c] = "clean"
  BY <1>1, GotoEffect
<1>4. SUFFICES ASSUME ret'[c]
               PROVE  defined' = None /\ \A f \in Files : files'[f] = None
  BY <1>3 DEF Progress, DefineSteps, Present
<1>5. PICK outer \in SUBSET {"sandbox.cfg", "empty", "config", "state"} :
        Removes(outer) /\ ret' = [ret EXCEPT ![c] = @ /\ LeavesNone(outer)]
  BY DEF Unlink
<1>6. ret[c] /\ LeavesNone(outer)
  BY <1>4, <1>5 DEF TypeOK
<1>7. \A d \in Dirs : files'[d] = None
  BY <1>5, <1>6, RemovesEffect DEF LeavesNone, Present, Files
<1>8. Tree'
  BY UnlinkKeepsTree
<1>9. ASSUME NEW f \in Files PROVE files'[f] = None
  <2>1. Parent(f) \in Dirs
    BY DEF Parent, Dirs
  <2> QED
    BY <1>7, <1>8, <2>1 DEF Tree, Present, Dirs
<1> QED
  BY <1>1, <1>2, <1>6, <1>9 DEF Progress

(* Steps that leave the calls alone leave what is true of them: the guest   *)
(* that somebody starts meanwhile is not one of a definition that is whole. *)
LEMMA IdleProgress ==
  ASSUME ProgressTrue, Quiet,
         UNCHANGED << builder, pc, met, files, ret, defined, intact >>,
         from' \in {from, None, intact}
  PROVE  ProgressTrue'
<1>1. Undisturbed' = Undisturbed /\ Written' = Written
  BY DEF Undisturbed, Changing, Written
<1>2. ASSUME NEW c \in Undisturbed PROVE Progress(c)'
  <2>1. Progress(c) /\ intact = None
    BY DEF ProgressTrue, Quiet, Undisturbed
  <2> QED
    BY <1>1, <2>1 DEF Progress, Present
<1> QED
  BY <1>1, <1>2 DEF ProgressTrue

(* What a step of the guest may change.                                    *)
LEMMA GuestEffect ==
  ASSUME GuestInit \/ GuestCommon \/ GuestEnds
  PROVE  /\ UNCHANGED << builder, pc, calls, ret, onDisk, defined, intact, met >>
         /\ from' \in {from, None}
         /\ guest' = "off" => from' = None
         /\ from' = None \/ \E fs \in SUBSET (Files \ {".libs"}) :
              /\ saw' = saw \cup {files[f] : f \in fs}
              /\ fs \subseteq {"sandbox.cfg", "disks.cfg"} \/ (guest = "boot" /\ fs = {"mounts.cfg"})
<1>1. ASSUME NEW at \in {"boot", "init"}, NEW ns, NEW to \in {"init", "app"}, GuestReads(at, ns, to)
      PROVE  /\ UNCHANGED << builder, pc, calls, ret, onDisk, defined, intact, met >>
             /\ guest = at
             /\ \/ guest' = to /\ from' = from /\ saw' = saw \cup {files[f] : f \in ns \ {".libs"}}
                \/ guest' = "off" /\ from' = None
  BY <1>1 DEF GuestReads, PowersOff, Off
<1>2. CASE GuestInit
  <2>1. GuestReads("boot", {"mounts.cfg"}, "init")
    BY <1>2 DEF GuestInit
  <2>2. {"mounts.cfg"} \ {".libs"} = {"mounts.cfg"} /\ "mounts.cfg" \in Files
    BY DEF Files, Config
  <2> QED
    BY <1>1, <2>1, <2>2
<1>3. CASE GuestCommon
  <2>1. GuestReads("init", {"sandbox.cfg", "disks.cfg", ".libs"}, "app")
    BY <1>3 DEF GuestCommon
  <2>2. /\ {"sandbox.cfg", "disks.cfg", ".libs"} \ {".libs"} = {"sandbox.cfg", "disks.cfg"}
        /\ {"sandbox.cfg", "disks.cfg"} \in SUBSET (Files \ {".libs"})
    BY DEF Files, Config
  <2> QED
    BY <1>1, <2>1, <2>2
<1>4. CASE GuestEnds
  BY <1>4 DEF GuestEnds, PowersOff, Off
<1> QED
  BY <1>2, <1>3, <1>4

(* Every step keeps what the calls have done so far.                       *)
LEMMA ProgressStep ==
  ASSUME TypeOK, MachineOnly, Tree, OffIsNew, AloneInCall, Quiet, ProgressTrue, [Next]_vars
  PROVE  ProgressTrue'
<1>1. ASSUME NEW c \in Contexts, NEW step \in DefineSteps, NEW fs, Fails(c, step, fs)
      PROVE  ProgressTrue'
  BY <1>1, EndsProgress DEF Fails, Changing
<1>2. ASSUME NEW c \in Contexts,
             WriteMountCfg(c) \/ MakeInitrd(c) \/ CopyKernel(c) \/ WriteDiskCfg(c) \/ SaveConfig(c)
      PROVE  ProgressTrue'
  <2> USE DEF ToCome, Boot, Config, DefineSteps
  <2>1. CASE \E step \in DefineSteps : \E fs : Fails(c, step, fs)
    BY <1>1, <2>1
  <2>2. CASE Writes(c, "mounts", "mounts.cfg", "libs")
    <3>1. builder = "machine"
      BY <2>2 DEF Writes, MachineOnly
    <3> QED
      BY <2>2, <3>1, WritesProgress DEF Written
  <2>3. CASE Writes(c, "initrd", "initrd.img", "kernel")
    <3>1. builder = "machine"
      BY <2>3 DEF Writes, MachineOnly
    <3> QED
      BY <2>3, <3>1, WritesProgress DEF Written
  <2>4. CASE Writes(c, "kernel", "vmlinuz", "disks")
    <3>1. builder = "machine"
      BY <2>4 DEF Writes, MachineOnly
    <3> QED
      BY <2>4, <3>1, WritesProgress DEF Written
  <2>5. CASE Writes(c, "disks", "disks.cfg", "create")
    BY <2>5, WritesProgress DEF Written
  <2>6. CASE Writes(c, "save", "sandbox.cfg", "empty")
    BY <2>6, WritesProgress DEF Written
  <2> QED
    BY <1>2, <2>1, <2>2, <2>3, <2>4, <2>5, <2>6
       DEF WriteMountCfg, MakeInitrd, CopyKernel, WriteDiskCfg, SaveConfig
<1>3. ASSUME NEW c \in Contexts, Defined(c) \/ FetchFails(c) \/ Clean(c) \/ Killed(c)
      PROVE  ProgressTrue'
  <2>1. Goto(c, "idle") /\ met' = met /\ pc[c] # "idle"
    BY <1>3 DEF Defined, FetchFails, Clean, Killed
  <2>2. c \in Changing
    BY <2>1 DEF Changing, TypeOK
  <2> QED
    BY <2>1, <2>2, EndsProgress
<1>4. ASSUME NEW c \in Contexts, Start(c) \/ Stop(c) \/ Attach(c) \/ Detach(c)
      PROVE  ProgressTrue'
  BY <1>4, IdleProgress DEF Start, CleanPostStart, Stop, Off, Attach, Detach, onDisk, atLibvirt
<1>5. CASE GuestInit \/ GuestCommon \/ GuestEnds
  BY <1>5, GuestEffect, IdleProgress DEF onDisk
<1>6. CASE UNCHANGED vars
  BY <1>6, IdleProgress DEF vars, onDisk, atLibvirt
<1> QED
  BY <1>2, <1>3, <1>4, <1>5, <1>6, BeginsProgress, CopyInitProgress, CopiedProgress,
     CreateDomainProgress, DeleteDomainProgress, UnlinkProgress DEF Next
-----------------------------------------------------------------------------
(* The definition that is whole, and the guest that was started from it.    *)

(* Calls of define and undefine leave the guest that runs alone.            *)
LEMMA GuestUntouched ==
  ASSUME [Next]_vars
  PROVE  \/ UNCHANGED << guest, from, saw >>
         \/ \E c \in Contexts : Start(c) \/ Stop(c)
         \/ GuestInit \/ GuestCommon \/ GuestEnds
<1>1. ASSUME NEW c \in Contexts,
             \/ DefineRefused(c) \/ Define(c) \/ WriteMountCfg(c) \/ CopyInit(c) \/ Copied(c)
             \/ MakeInitrd(c) \/ CopyKernel(c) \/ WriteDiskCfg(c)
             \/ CreateDomain(c) \/ SaveConfig(c) \/ Defined(c)
             \/ Undefine(c) \/ FetchFails(c) \/ DeleteDomain(c) \/ Unlink(c) \/ Clean(c)
             \/ Attach(c) \/ Detach(c) \/ Killed(c)
      PROVE  UNCHANGED << guest, from, saw >>
  <2>1. \A step, f, next : Writes(c, step, f, next) => UNCHANGED << guest, from, saw >>
    BY DEF Writes, atLibvirt
  <2>2. \A step, fs : Fails(c, step, fs) => UNCHANGED << guest, from, saw >>
    BY DEF Fails, atLibvirt
  <2>3. CASE \/ WriteMountCfg(c) \/ MakeInitrd(c) \/ CopyKernel(c) \/ WriteDiskCfg(c)
             \/ SaveConfig(c)
    BY <2>1, <2>2, <2>3 DEF WriteMountCfg, MakeInitrd, CopyKernel, WriteDiskCfg, SaveConfig
  <2>4. CASE CopyInit(c) \/ Copied(c) \/ CreateDomain(c)
    BY <2>2, <2>4 DEF CopyInit, Copied, CreateDomain, atLibvirt
  <2>5. CASE \/ DefineRefused(c) \/ Define(c) \/ Defined(c) \/ Undefine(c) \/ FetchFails(c)
             \/ DeleteDomain(c) \/ Unlink(c) \/ Clean(c) \/ Attach(c) \/ Detach(c) \/ Killed(c)
    BY <2>5 DEF DefineRefused, Define, Defined, Undefine, FetchFails, DeleteDomain, Unlink,
       Clean, Attach, Detach, Killed, atLibvirt
  <2> QED
    BY <1>1, <2>3, <2>4, <2>5
<1>2. UNCHANGED vars => UNCHANGED << guest, from, saw >>
  BY DEF vars, atLibvirt
<1> QED
  BY <1>1, <1>2 DEF Next

(* A guest that is off has read nothing.                                   *)
LEMMA OffIsNewStep ==
  ASSUME OffIsNew, [Next]_vars
  PROVE  OffIsNew'
<1>1. ASSUME NEW c \in Contexts, Start(c) PROVE OffIsNew'
  BY <1>1 DEF Start, OffIsNew
<1>2. ASSUME NEW c \in Contexts, Stop(c) PROVE OffIsNew'
  BY <1>2 DEF Stop, Off, OffIsNew
<1>3. GuestInit \/ GuestCommon \/ GuestEnds => OffIsNew'
  BY GuestEffect DEF OffIsNew
<1>4. UNCHANGED << guest, from, saw >> => OffIsNew'
  BY DEF OffIsNew
<1> QED
  BY <1>1, <1>2, <1>3, <1>4, GuestUntouched

(* While a definition is whole nothing writes, removes or redefines.         *)
LEMMA QuietStep ==
  ASSUME TypeOK, Quiet, intact # None, [Next]_vars, intact' # None
  PROVE  UNCHANGED << builder, files, defined, intact >>
<1>1. ASSUME NEW c \in Contexts, NEW step, Begins(c, step) PROVE FALSE
  BY <1>1 DEF Begins
<1>2. \A c \in Contexts : pc[c] = "idle"
  BY DEF Quiet, Changing, TypeOK
<1>3. ASSUME NEW c \in Contexts
      PROVE  /\ ~ \E step, f, next : step # "idle" /\ Writes(c, step, f, next)
             /\ ~ \E step, fs : step # "idle" /\ Fails(c, step, fs)
  BY <1>2 DEF Writes, Fails
<1>4. ASSUME NEW c \in Contexts,
             \/ WriteMountCfg(c) \/ CopyInit(c) \/ Copied(c) \/ MakeInitrd(c) \/ CopyKernel(c)
             \/ WriteDiskCfg(c) \/ CreateDomain(c) \/ SaveConfig(c)
      PROVE  FALSE
  BY <1>2, <1>3, <1>4 DEF WriteMountCfg, CopyInit, Copied, MakeInitrd, CopyKernel, WriteDiskCfg,
     CreateDomain, SaveConfig
<1>5. ASSUME NEW c \in Contexts,
             \/ Defined(c) \/ FetchFails(c) \/ DeleteDomain(c) \/ Unlink(c) \/ Clean(c) \/ Killed(c)
      PROVE  FALSE
  BY <1>2, <1>5 DEF Defined, FetchFails, DeleteDomain, Unlink, Clean, Killed
<1>6. ASSUME NEW c \in Contexts, DefineRefused(c) \/ Define(c) \/ Undefine(c) PROVE FALSE
  BY <1>1, <1>6 DEF DefineRefused, Define, Undefine
<1>7. ASSUME NEW c \in Contexts, Start(c) \/ Stop(c) \/ Attach(c) \/ Detach(c)
      PROVE  UNCHANGED << builder, files, defined, intact >>
  BY <1>7 DEF Start, CleanPostStart, Stop, Attach, Detach, onDisk, atLibvirt
<1>8. GuestInit \/ GuestCommon \/ GuestEnds => UNCHANGED << builder, files, defined, intact >>
  BY GuestEffect DEF onDisk
<1>9. UNCHANGED vars => UNCHANGED << builder, files, defined, intact >>
  BY DEF vars, onDisk, atLibvirt
<1> QED
  BY <1>4, <1>5, <1>6, <1>7, <1>8, <1>9 DEF Next

(* A definition becomes whole when define returns TRUE, alone.               *)
LEMMA BecomesIntact ==
  ASSUME TypeOK, intact' # intact, intact' # None, [Next]_vars
  PROVE  \E c \in Contexts : Defined(c) /\ c \notin met /\ intact' = c
<1>1. \A c \in Contexts : \A step : ~Begins(c, step)
  BY DEF Begins
<1>2. \A c \in Contexts : \A step, f, next : ~Writes(c, step, f, next)
  BY DEF Writes
<1>3. \A c \in Contexts : \A step, fs : ~Fails(c, step, fs)
  BY DEF Fails
<1>4. ASSUME NEW c \in Contexts,
             \/ WriteMountCfg(c) \/ CopyInit(c) \/ Copied(c) \/ MakeInitrd(c) \/ CopyKernel(c)
             \/ WriteDiskCfg(c) \/ CreateDomain(c) \/ SaveConfig(c)
      PROVE  FALSE
  BY <1>2, <1>3, <1>4 DEF WriteMountCfg, CopyInit, Copied, MakeInitrd, CopyKernel, WriteDiskCfg,
     CreateDomain, SaveConfig
<1>5. ASSUME NEW c \in Contexts,
             \/ FetchFails(c) \/ DeleteDomain(c) \/ Unlink(c) \/ Clean(c) \/ Killed(c)
             \/ Start(c) \/ Stop(c) \/ Attach(c) \/ Detach(c)
      PROVE  FALSE
  BY <1>5 DEF FetchFails, DeleteDomain, Unlink, Clean, Killed, Start, Stop, Attach, Detach
<1>6. ASSUME NEW c \in Contexts, DefineRefused(c) \/ Define(c) \/ Undefine(c) PROVE FALSE
  BY <1>1, <1>6 DEF DefineRefused, Define, Undefine
<1>7. ~(GuestInit \/ GuestCommon \/ GuestEnds) /\ ~UNCHANGED vars
  BY GuestEffect DEF vars
<1>8. PICK c \in Contexts : Defined(c)
  BY <1>4, <1>5, <1>6, <1>7 DEF Next
<1> QED
  BY <1>8 DEF Defined

(* Every step keeps the definition intact that nobody disturbs.            *)
LEMMA DefinitionStep ==
  ASSUME TypeOK, Quiet, AloneInCall, ProgressTrue, DefinitionIntact, [Next]_vars
  PROVE  DefinitionIntact'
<1> SUFFICES ASSUME intact' # None
             PROVE  /\ defined' = intact'
                    /\ \A f \in Written' : files'[f] # None /\ (f # ".libs" => files'[f] = intact')
  BY DEF DefinitionIntact, Present
<1>1. CASE intact' = intact
  <2>1. UNCHANGED << builder, files, defined, intact >>
    BY <1>1, QuietStep
  <2>2. Written' = Written
    BY <2>1 DEF Written
  <2> QED
    BY <1>1, <2>1, <2>2 DEF DefinitionIntact, Present
<1>2. CASE intact' # intact
  <2>1. PICK c \in Contexts : Defined(c) /\ c \notin met /\ intact' = c
    BY <1>2, BecomesIntact
  <2>2. pc[c] = "empty" /\ Makes(c, {"state", "config", "empty"}, {}) /\ UNCHANGED << builder, defined >>
    BY <2>1 DEF Defined, atLibvirt
  <2>3. Progress(c)
    BY <2>1, <2>2 DEF ProgressTrue, Undisturbed, Changing, DefineSteps
  <2>4. Written' = Written /\ Written \ ToCome("empty") = Written /\ Written \subseteq Files
    BY <2>2 DEF Written, ToCome, Files
  <2>5. \A f \in Files : Present(f) => files'[f] = files[f]
    BY <2>2, MakesEffect
  <2> QED
    BY <2>1, <2>2, <2>3, <2>4, <2>5 DEF Progress, DefineSteps, Present
<1> QED
  BY <1>1, <1>2

(* Every step keeps a boot on the definition it started from.              *)
LEMMA BootsStep ==
  ASSUME TypeOK, MachineOnly, Quiet, ProgressTrue, DefinitionIntact, BootsWhatWasDefined, [Next]_vars
  PROVE  BootsWhatWasDefined'
<1> SUFFICES ASSUME intact' # None, from' = intact'
             PROVE  saw' \subseteq {intact'}
  BY DEF BootsWhatWasDefined
<1>1. CASE intact' # intact
  <2>1. PICK c \in Contexts : Defined(c) /\ c \notin met /\ intact' = c
    BY <1>1, BecomesIntact
  <2>2. pc[c] = "empty" /\ from' = from
    BY <2>1 DEF Defined, atLibvirt
  <2>3. Progress(c)
    BY <2>1, <2>2 DEF ProgressTrue, Undisturbed, Changing, DefineSteps
  <2>4. from = None
    BY <2>2, <2>3 DEF Progress
  <2> QED
    BY <2>1, <2>2, <2>4
<1>2. CASE intact' = intact
  <2>1. /\ defined = intact /\ intact # None
        /\ \A f \in Written : f # ".libs" => files[f] = intact
    BY <1>2 DEF DefinitionIntact
  <2>2. ASSUME NEW c \in Contexts, Start(c) PROVE saw' \subseteq {intact'}
    <3>1. CASE builder = "machine"
      BY <1>2, <2>1, <2>2, <3>1 DEF Start, Written, Boot
    <3>2. CASE builder # "machine"
      BY <2>2, <3>2 DEF Start
    <3> QED
      BY <3>1, <3>2
  <2>3. ASSUME NEW c \in Contexts, Stop(c) PROVE saw' \subseteq {intact'}
    BY <1>2, <2>3 DEF Stop, Off, BootsWhatWasDefined
  <2>4. CASE GuestInit \/ GuestCommon \/ GuestEnds
    <3>1. from' = from
      BY <2>1, <1>2, <2>4, GuestEffect
    <3>2. saw \subseteq {intact}
      BY <1>2, <2>1, <3>1 DEF BootsWhatWasDefined
    <3>3. PICK fs \in SUBSET (Files \ {".libs"}) :
             /\ saw' = saw \cup {files[f] : f \in fs}
             /\ fs \subseteq {"sandbox.cfg", "disks.cfg"} \/ (guest = "boot" /\ fs = {"mounts.cfg"})
      BY <1>2, <2>1, <2>4, GuestEffect
    <3>4. fs \subseteq Written
      BY <3>3 DEF MachineOnly, Written, Config
    <3> QED
      BY <1>2, <2>1, <3>2, <3>3, <3>4
  <2>5. CASE UNCHANGED << guest, from, saw >>
    BY <1>2, <2>1, <2>5 DEF BootsWhatWasDefined
  <2> QED
    BY <2>2, <2>3, <2>4, <2>5, GuestUntouched
<1> QED
  BY <1>1, <1>2
-----------------------------------------------------------------------------
(* The invariant of service sandboxes.                                      *)
LEMMA ServiceInvariant == Spec => []ServiceInv
<1>1. Init => ServiceInv
  <2> SUFFICES ASSUME Init PROVE ServiceInv
    OBVIOUS
  <2>1. Changing = {}
    BY DEF Init, Changing, DefineSteps, UndefineSteps
  <2>2. OffIsNew /\ DefinitionIntact /\ BootsWhatWasDefined
    BY DEF Init, OffIsNew, DefinitionIntact, BootsWhatWasDefined
  <2> QED
    BY <2>1, <2>2, InitTyped, InitTree
       DEF ServiceInv, AloneInCall, Quiet, ProgressTrue, Undisturbed
<1>2. ServiceInv /\ [Next]_vars => ServiceInv'
  BY TypeStep, TreeStep, OffIsNewStep, CallStep, ProgressStep, DefinitionStep, BootsStep
     DEF ServiceInv
<1> QED
  BY <1>1, <1>2, PTL DEF Spec

(* The three promises, whatever kills and failures come in between: a       *)
(* service whose definition returned TRUE, alone, has its domain and all its *)
(* files until the next call of define or undefine                          *)
(* (context-service.c:143-160, 271-331).                                     *)
THEOREM DefinitionStaysIntact == Spec => []DefinitionIntact
BY ServiceInvariant, PTL DEF ServiceInv

(* A guest started from it has seen no other definer's kernel, initrd or     *)
(* configuration.                                                           *)
THEOREM GuestBootsDefinition == Spec => []BootsWhatWasDefined
BY ServiceInvariant, PTL DEF ServiceInv

(* An undefine that got through, alone, and returns TRUE has left nothing    *)
(* (context-service.c:226-250).                                              *)
THEOREM TrueUndefineLeavesNothing == Spec => UndefineSaysTrue
<1> DEFINE Step == \A c \in Contexts \ met :
                     pc[c] = "clean" /\ Clean(c) /\ ret[c] =>
                       defined = None /\ \A f \in Files : files'[f] = None
<1>1. ServiceInv => Step
  <2> SUFFICES ASSUME ServiceInv, NEW c \in Contexts \ met, pc[c] = "clean", Clean(c), ret[c]
               PROVE  defined = None /\ \A f \in Files : files'[f] = None
    OBVIOUS
  <2>1. Progress(c)
    BY DEF ServiceInv, ProgressTrue, Undisturbed, Changing, UndefineSteps
  <2>2. \A f \in Files : files'[f] = None \/ files'[f] = files[f]
    BY RemovesEffect DEF ServiceInv, Clean
  <2> QED
    BY <2>1, <2>2 DEF Progress, Present
<1>2. Spec => [][Step]_vars
  <2> HIDE DEF Step
  <2> QED
    BY <1>1, ServiceInvariant, PTL DEF Spec
<1> QED
  BY <1>2 DEF UndefineSaysTrue
=============================================================================
