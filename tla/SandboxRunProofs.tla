-------------------------- MODULE SandboxRunProofs --------------------------
(***************************************************************************)
(* Theorems about runs of virt-sandbox, for every number of clients, kills  *)
(* and ways a guest ends.                                                   *)
(***************************************************************************)
EXTENDS SandboxRun, TLAPS

USE RunAssumption

(* The types of what a client's main loop keeps.                           *)
HostTyped ==
  /\ log \in [Clients -> {"off", "open", "closed"}]
  /\ con \in [Clients -> {"off", "open", "exited", "quit", "broken"}]
  /\ timer \in [Clients -> BOOLEAN]
  /\ ret \in [Clients -> Statuses \cup {"0", "failure"}]

(* A client that has met no other one is the only one.                     *)
Undisturbed == Active \ shared
AloneInRun == \A c \in Undisturbed : Active = {c}

(* What such a client has written by a step is there and its own; what it  *)
(* has cleaned up is gone, whoever wrote it.                               *)
Running == {"poststart", "log", "app", "loop", "stop"}
AfterStart == {"log", "app", "loop", "stop", "cleanBuilder", "cleanContext"}

OwnSoFar(step) ==
  CASE step = "mounts" -> {"sandbox.cfg"}
    [] step \in {"libs", "copying", "rest", "initrd"} -> {"sandbox.cfg", "mounts.cfg"}
    [] step = "kernel" -> {"sandbox.cfg", "mounts.cfg", "initrd.img"}
    [] step = "disks"  -> {"sandbox.cfg", "mounts.cfg"} \cup Boot
    [] step = "start"  -> {"sandbox.cfg", "mounts.cfg", "disks.cfg"} \cup Boot
    [] step \in Running -> {"sandbox.cfg", "mounts.cfg", "disks.cfg"}
    [] OTHER -> {}

GoneSoFar(step) ==
  CASE step = "cleanContext" -> Boot \cup (Config \ {"sandbox.cfg"})
    [] step \in AfterStart \ {"cleanContext"} -> Boot
    [] OTHER -> {}

Progress(c) ==
  /\ \A f \in OwnSoFar(pc[c]) : files[f] = c
  /\ \A f \in GoneSoFar(pc[c]) : files[f] = None
  /\ pc[c] = "cleanContext" => ~cut
ProgressTrue == \A c \in Undisturbed : Progress(c)

(* What a client knows of its application's end; no timer runs before its   *)
(* main loop.                                                              *)
AfterLoop == {"loop", "stop", "cleanBuilder", "cleanContext"} \cup Ended

EndsAreKnown ==
  \A c \in Clients :
    /\ con[c] \in {"exited", "quit"} => ret[c] # "failure"
    /\ con[c] = "broken" => c \in faulty
    /\ timer[c] => con[c] \in {"quit", "broken"} /\ pc[c] \in AfterLoop
    /\ pc[c] \in {"poststart", "log", "app", "loop"} /\ domain # c
         => c \in faulty \/ con[c] = "quit"
    /\ pc[c] \notin AfterStart \cup Ended \/ pc[c] = "log" => log[c] = "off"

RunInv == /\ TypeOK /\ HostTyped /\ AloneInRun /\ ProgressTrue /\ EndsAreKnown
          /\ OwnFilesOnly /\ ExitCodeKept
-----------------------------------------------------------------------------
(* What the helpers on files and on the steps of clients do.               *)

Owning == {"poststart", "log", "app", "loop", "stop", "dead"}

(* The files written are the writer's, a directory is made only where there *)
(* was none, and nothing goes.                                              *)
LEMMA MakesEffect ==
  ASSUME TypeOK, NEW c \in Clients, NEW ds, NEW fs, Makes(c, ds, fs)
  PROVE  /\ files' \in [Files -> Clients \cup {None}]
         /\ \A f \in Files : /\ f \in fs => files'[f] = c
                             /\ f \in ds => files'[f] # None
                             /\ Present(f) => files'[f] # None
                             /\ f \notin fs /\ Present(f) => files'[f] = files[f]
                             /\ f \notin ds \cup fs => files'[f] = files[f]
BY DEF TypeOK, Makes, Present

(* The files removed are gone, the others as they were.                    *)
LEMMA RemovesEffect ==
  ASSUME TypeOK, NEW fs, Removes(fs)
  PROVE  /\ files' \in [Files -> Clients \cup {None}]
         /\ \A f \in Files : files'[f] = IF f \in fs THEN None ELSE files[f]
BY DEF TypeOK, Removes

(* A step of start that fails removes its own file and none besides.       *)
LEMMA FailsEffect ==
  ASSUME TypeOK, NEW c \in Clients, NEW step, NEW ds, NEW f, Fails(c, step, ds, f)
  PROVE  /\ files' \in [Files -> Clients \cup {None}]
         /\ \A g \in Files : Present(g) /\ g # f => files'[g] = files[g]
BY DEF TypeOK, Fails, Present

(* One client goes to a step, the others stay where they are.              *)
LEMMA GotoEffect ==
  ASSUME TypeOK, NEW c \in Clients, NEW step, Goto(c, step)
  PROVE  /\ pc'[c] = step /\ \A d \in Clients \ {c} : pc'[d] = pc[d]
         /\ Active' = IF step \notin Ended \cup {"idle"} THEN Active \cup {c} ELSE Active \ {c}
         /\ step \in Steps => pc' \in [Clients -> Steps]
BY DEF TypeOK, Goto, Active
-----------------------------------------------------------------------------
(* Type correctness.                                                       *)

(* The first state is typed.                                               *)
LEMMA InitTyped == Init => TypeOK /\ HostTyped
BY DEF Init, TypeOK, HostTyped, Present, Files, Dirs, Boot, Config, Steps

(* A step of one client that leaves the domain and the consoles alone keeps *)
(* the types, if what it leaves on disk is typed.                           *)
LEMMA DiskStepTyped ==
  ASSUME TypeOK, HostTyped, NEW c \in Clients, NEW next \in Steps, Goto(c, next),
         domain = c => next \in Owning,
         files' \in [Files -> Clients \cup {None}], cut' => files'[".libs"] # None,
         UNCHANGED << domVars, hostVars >>
  PROVE  TypeOK' /\ HostTyped'
<1>1. /\ pc' \in [Clients -> Steps]
      /\ pc'[c] = next /\ \A d \in Clients \ {c} : pc'[d] = pc[d]
  BY GotoEffect
<1>2. HostTyped'
  BY DEF HostTyped, hostVars
<1>3. domain # None => pc'[domain] \in Owning
  BY <1>1 DEF TypeOK, Owning
<1>4. TypeOK'
  BY <1>1, <1>3 DEF TypeOK, domVars, hostVars, Present, Owning
<1> QED
  BY <1>2, <1>4

(* A step of main, which leaves the files alone, keeps the types.           *)
LEMMA MainStepTyped ==
  ASSUME TypeOK, NEW c \in Clients, NEW next \in Steps, Goto(c, next),
         domain = c => next \in Owning, shared' \subseteq Clients, faulty' \subseteq Clients,
         UNCHANGED << onDisk, domVars >>
  PROVE  TypeOK'
<1>1. /\ pc' \in [Clients -> Steps]
      /\ pc'[c] = next /\ \A d \in Clients \ {c} : pc'[d] = pc[d]
  BY GotoEffect
<1>2. domain # None => pc'[domain] \in Owning
  BY <1>1 DEF TypeOK, Owning
<1> QED
  BY <1>1, <1>2 DEF TypeOK, domVars, onDisk, Present, Owning

(* A step that writes its file, at a step where the client owns no domain,  *)
(* keeps the types.                                                         *)
LEMMA WritesTyped ==
  ASSUME TypeOK, HostTyped, NEW c \in Clients, NEW step, step \notin Owning,
         NEW ds, NEW f, NEW next \in Steps, Writes(c, step, ds, f, next)
  PROVE  TypeOK' /\ HostTyped'
<1>1. /\ files' \in [Files -> Clients \cup {None}]
      /\ \A g \in Files : Present(g) => files'[g] # None
  BY MakesEffect DEF Writes
<1>2. cut' => files'[".libs"] # None
  BY <1>1 DEF Writes, TypeOK, Files, Config
<1>3. domain # c
  BY DEF Writes, TypeOK, Owning
<1> QED
  BY <1>1, <1>2, <1>3, DiskStepTyped DEF Writes

(* So does one that fails, if its file is not .libs.                        *)
LEMMA FailsTyped ==
  ASSUME TypeOK, HostTyped, NEW c \in Clients, NEW step, step \notin Owning,
         NEW ds, NEW f, f # ".libs", Fails(c, step, ds, f)
  PROVE  TypeOK' /\ HostTyped'
<1>1. /\ files' \in [Files -> Clients \cup {None}]
      /\ \A g \in Files : Present(g) /\ g # f => files'[g] = files[g]
  BY FailsEffect
<1>2. cut' => files'[".libs"] # None
  BY <1>1 DEF Fails, TypeOK, Files, Config, Present
<1>3. domain # c
  BY DEF Fails, TypeOK, Owning
<1>4. "undo" \in Steps
  BY DEF Steps
<1> QED
  BY <1>1, <1>2, <1>3, <1>4, DiskStepTyped DEF Fails

(* The copy of the libraries leaves .libs wherever it says it is cut.       *)
LEMMA CopyInitTyped ==
  ASSUME TypeOK, HostTyped, NEW c \in Clients, CopyInit(c)
  PROVE  TypeOK' /\ HostTyped'
<1>1. Makes(c, {"state", "config", ".libs"}, {}) /\ ".libs" \in Files
  BY DEF CopyInit, Files, Config
<1>2. files' \in [Files -> Clients \cup {None}] /\ files'[".libs"] # None
  BY <1>1, MakesEffect
<1>3. Goto(c, "copying") \/ Goto(c, "rest")
  BY DEF CopyInit
<1>4. domain # c /\ UNCHANGED << domVars, hostVars >>
  BY DEF CopyInit, TypeOK
<1>5. "copying" \in Steps /\ "rest" \in Steps
  BY DEF Steps
<1> QED
  BY <1>2, <1>3, <1>4, <1>5, DiskStepTyped

(* The end of the copy, which touches no file but those in .libs.           *)
LEMMA CopiedTyped ==
  ASSUME TypeOK, HostTyped, NEW c \in Clients, Copied(c)
  PROVE  TypeOK' /\ HostTyped'
<1>1. Goto(c, "initrd") \/ Goto(c, "undo")
  BY DEF Copied
<1>2. domain # c /\ files' = files /\ UNCHANGED << domVars, hostVars >>
  BY DEF Copied, TypeOK
<1>3. cut' => files'[".libs"] # None
  BY <1>2 DEF Copied, TypeOK, Present
<1>4. "initrd" \in Steps /\ "undo" \in Steps /\ files' \in [Files -> Clients \cup {None}]
  BY <1>2 DEF Steps, TypeOK
<1> QED
  BY <1>1, <1>2, <1>3, <1>4, DiskStepTyped

(* The copy of the kernel, where one may have been left behind.             *)
LEMMA CopyKernelTyped ==
  ASSUME TypeOK, HostTyped, NEW c \in Clients, CopyKernel(c)
  PROVE  TypeOK' /\ HostTyped'
<1>1. CASE Writes(c, "kernel", {}, "vmlinuz", "disks")
  <2>1. "kernel" \notin Owning /\ "disks" \in Steps
    BY DEF Owning, Steps
  <2> QED
    BY <1>1, <2>1, WritesTyped
<1>2. CASE pc[c] = "kernel" /\ Goto(c, "undo") /\ UNCHANGED << onDisk, domVars, hostVars >>
  <2>1. "undo" \in Steps /\ domain # c
    BY <1>2 DEF Steps, TypeOK
  <2>2. files' \in [Files -> Clients \cup {None}] /\ (cut' => files'[".libs"] # None)
    BY <1>2 DEF TypeOK, onDisk, Present
  <2> QED
    BY <1>2, <2>1, <2>2, DiskStepTyped
<1> QED
  BY <1>1, <1>2 DEF CopyKernel

(* The other steps of start that write a file.                              *)
LEMMA FileStepTyped ==
  ASSUME TypeOK, HostTyped, NEW c \in Clients,
         SaveConfig(c) \/ WriteMountCfg(c) \/ MakeInitrd(c) \/ WriteDiskCfg(c)
  PROVE  TypeOK' /\ HostTyped'
<1>1. /\ {"save", "mounts", "initrd", "disks"} \cap Owning = {}
      /\ {"mounts", "libs", "kernel", "start"} \subseteq Steps
  BY DEF Owning, Steps
<1>2. CASE SaveConfig(c)
  BY <1>1, <1>2, WritesTyped, FailsTyped DEF SaveConfig
<1>3. CASE WriteMountCfg(c)
  BY <1>1, <1>3, WritesTyped, FailsTyped DEF WriteMountCfg
<1>4. CASE MakeInitrd(c)
  BY <1>1, <1>4, WritesTyped, FailsTyped DEF MakeInitrd
<1>5. CASE WriteDiskCfg(c)
  BY <1>1, <1>5, WritesTyped, FailsTyped DEF WriteDiskCfg
<1> QED
  BY <1>2, <1>3, <1>4, <1>5

(* The start of the domain makes the client its owner.                      *)
LEMMA StartDomainTyped ==
  ASSUME TypeOK, HostTyped, NEW c \in Clients, StartDomain(c)
  PROVE  TypeOK' /\ HostTyped'
<1>1. HostTyped' /\ UNCHANGED << onDisk, shared, faulty >>
  BY DEF StartDomain, HostTyped, hostVars
<1>2. CASE Goto(c, "poststart") /\ domain' = c /\ guest' = "boot"
  <2>1. pc' \in [Clients -> Steps] /\ pc'[c] = "poststart"
    BY <1>2, GotoEffect DEF Steps
  <2> QED
    BY <1>1, <1>2, <2>1 DEF TypeOK, onDisk, Present
<1>3. CASE Goto(c, "undo") /\ UNCHANGED domVars
  <2>1. "undo" \in Steps /\ domain # c
    BY DEF Steps, StartDomain, TypeOK
  <2> QED
    BY <1>1, <1>3, <2>1, MainStepTyped DEF TypeOK
<1> QED
  BY <1>2, <1>3 DEF StartDomain

(* The clean-up after a start, successful or not.                           *)
LEMMA CleanPostStartTyped ==
  ASSUME TypeOK, HostTyped, NEW c \in Clients, CleanPostStart(c)
  PROVE  TypeOK' /\ HostTyped'
<1>1. /\ files' \in [Files -> Clients \cup {None}]
      /\ \A g \in Files : files'[g] = IF g \in Boot THEN None ELSE files[g]
  BY RemovesEffect DEF CleanPostStart
<1>2. cut' => files'[".libs"] # None
  BY <1>1 DEF CleanPostStart, TypeOK, Files, Config, Boot, Present
<1>3. PICK next \in {"log", "cleanBuilder"} :
        Goto(c, next) /\ (pc[c] # "undo" => next = "log")
  BY DEF CleanPostStart
<1>4. next \in Steps /\ (domain = c => next \in Owning)
  BY <1>3 DEF Steps, Owning, TypeOK
<1> QED
  BY <1>1, <1>2, <1>3, <1>4, DiskStepTyped DEF CleanPostStart

(* Every step of start keeps the types.                                     *)
LEMMA StartTyped ==
  ASSUME TypeOK, HostTyped, NEW c \in Clients, Start(c)
  PROVE  TypeOK' /\ HostTyped'
BY FileStepTyped, CopyInitTyped, CopiedTyped, CopyKernelTyped, StartDomainTyped,
   CleanPostStartTyped DEF Start

(* The launch of a client.                                                  *)
LEMMA LaunchTyped ==
  ASSUME TypeOK, HostTyped, NEW c \in Clients, Launch(c)
  PROVE  TypeOK' /\ HostTyped'
<1>1. PICK next \in {"save", "done"} : Goto(c, next)
  BY DEF Launch, Goto
<1>2. next \in Steps /\ domain # c
  BY DEF Steps, Launch, TypeOK, Ended
<1>3. HostTyped' /\ shared' \subseteq Clients /\ faulty' \subseteq Clients
  BY DEF Launch, HostTyped, TypeOK, Active
<1> QED
  BY <1>1, <1>2, <1>3, MainStepTyped DEF Launch

(* The steps of main.                                                       *)
LEMMA MainTyped ==
  ASSUME TypeOK, HostTyped, NEW c \in Clients, Main(c)
  PROVE  TypeOK' /\ HostTyped'
<1>1. HostTyped'
  <2>1. CASE AttachLog(c)
    BY <2>1 DEF AttachLog, HostTyped
  <2>2. CASE AttachApp(c)
    BY <2>2 DEF AttachApp, HostTyped
  <2>3. CASE ConsoleExited(c)
    BY <2>3 DEF ConsoleExited, ExitCode, HostTyped
  <2>4. CASE ConsoleClosed(c)
    BY <2>4 DEF ConsoleClosed, PendingClose, HostTyped
  <2>5. CASE LogClosed(c)
    BY <2>5 DEF LogClosed, HostTyped
  <2>6. CASE DelayedClose(c)
    BY <2>6 DEF DelayedClose, HostTyped
  <2> QED
    BY <2>1, <2>2, <2>3, <2>4, <2>5, <2>6 DEF Main
<1>2. {"app", "loop", "stop"} \subseteq Steps /\ {"app", "loop", "stop"} \subseteq Owning
  BY DEF Steps, Owning
<1>3. /\ UNCHANGED << onDisk, domVars >>
      /\ shared' \subseteq Clients /\ faulty' \subseteq Clients
  BY DEF Main, AttachLog, AttachApp, ConsoleExited, ConsoleClosed, LogClosed, DelayedClose, TypeOK
<1>4. pc' = pc \/ \E next \in {"app", "loop", "stop"} : Goto(c, next)
  BY DEF Main, AttachLog, AttachApp, ConsoleExited, ConsoleClosed, LogClosed, DelayedClose
<1>5. CASE pc' = pc
  BY <1>1, <1>3, <1>5 DEF TypeOK, onDisk, domVars, Present
<1>6. ASSUME NEW next \in {"app", "loop", "stop"}, Goto(c, next)
      PROVE  TypeOK'
  BY <1>2, <1>3, <1>6, MainStepTyped
<1> QED
  BY <1>1, <1>4, <1>5, <1>6

(* The steps of stop.                                                       *)
LEMMA StopTyped ==
  ASSUME TypeOK, HostTyped, NEW c \in Clients, Stop(c)
  PROVE  TypeOK' /\ HostTyped'
<1>1. CASE StopDomain(c)
  <2>1. HostTyped' /\ UNCHANGED << onDisk, shared, faulty >> /\ domain' # c
    BY <1>1 DEF StopDomain, HostTyped, hostVars, domVars
  <2>2. /\ pc' \in [Clients -> Steps]
        /\ pc'[c] = "cleanBuilder" /\ \A d \in Clients \ {c} : pc'[d] = pc[d]
    BY <1>1, GotoEffect DEF StopDomain, Steps
  <2> QED
    BY <1>1, <2>1, <2>2 DEF StopDomain, TypeOK, onDisk, domVars, Present
<1>2. CASE CleanBuilder(c)
  <2>1. files' \in [Files -> Clients \cup {None}] /\ ~cut'
    BY <1>2, RemovesEffect DEF CleanBuilder
  <2>2. PICK next \in {"cleanContext", "crashed"} : Goto(c, next)
    BY <1>2 DEF CleanBuilder
  <2>3. next \in Steps /\ domain # c
    BY <1>2 DEF Steps, Ended, CleanBuilder, TypeOK
  <2> QED
    BY <1>2, <2>1, <2>2, <2>3, DiskStepTyped DEF CleanBuilder
<1>3. CASE CleanContext(c)
  <2>1. PICK rm \in SUBSET {"sandbox.cfg", "empty", "config", "state"} : Removes(rm)
    BY <1>3 DEF CleanContext
  <2>2. /\ files' \in [Files -> Clients \cup {None}]
        /\ \A g \in Files : files'[g] = IF g \in rm THEN None ELSE files[g]
    BY <2>1, RemovesEffect
  <2>3. cut' => files'[".libs"] # None
    BY <1>3, <2>2 DEF CleanContext, TypeOK, Files, Config, Present
  <2>4. "done" \in Steps /\ domain # c
    BY <1>3 DEF Steps, Ended, CleanContext, TypeOK
  <2> QED
    BY <1>3, <2>2, <2>3, <2>4, DiskStepTyped DEF CleanContext
<1> QED
  BY <1>1, <1>2, <1>3 DEF Stop

(* The guest, libvirt, and a client that is killed.                         *)
LEMMA GuestTyped ==
  ASSUME TypeOK, HostTyped, Guest
  PROVE  TypeOK' /\ HostTyped'
<1>1. HostTyped' /\ UNCHANGED << pc, onDisk, shared >>
  BY DEF Guest, GuestInit, GuestCommon, GuestReads, GuestExits, GuestPowersOff, GuestDies,
         AutoDestroy, hostVars, HostTyped
<1>2. \/ domain' = None /\ guest' = "off"
      \/ domain' = domain /\ domain # None /\ guest' \in {"init", "app"} \cup Statuses
  BY DEF Guest, GuestInit, GuestCommon, GuestReads, GuestExits, GuestPowersOff, GuestDies,
         AutoDestroy, TypeOK
<1>3. faulty' = faulty \/ (domain # None /\ faulty' = faulty \cup {domain})
  BY DEF Guest, GuestInit, GuestCommon, GuestReads, GuestExits, GuestPowersOff, GuestDies,
         AutoDestroy, hostVars, TypeOK
<1> QED
  BY <1>1, <1>2, <1>3 DEF TypeOK, onDisk, Present

(* The death of a client keeps types.                                      *)
LEMMA KilledTyped ==
  ASSUME TypeOK, HostTyped, NEW c \in Clients, Killed(c)
  PROVE  TypeOK' /\ HostTyped'
<1>1. "dead" \in Steps /\ "dead" \in Owning
  BY DEF Steps, Ended, Owning
<1>2. HostTyped' /\ shared' \subseteq Clients /\ faulty' \subseteq Clients
  BY DEF Killed, HostTyped, TypeOK
<1> QED
  BY <1>1, <1>2, MainStepTyped DEF Killed

(* Every step keeps the types.                                              *)
LEMMA StepTyped ==
  ASSUME TypeOK, HostTyped, [Next]_vars
  PROVE  TypeOK' /\ HostTyped'
<1>1. CASE UNCHANGED vars
  BY <1>1 DEF vars, TypeOK, HostTyped, Present
<1> QED
  BY <1>1, GuestTyped, LaunchTyped, StartTyped, MainTyped, StopTyped, KilledTyped DEF Next

(* Types; a client owns the domain only between its start and its stop, or  *)
(* when it was killed and libvirt has yet to notice.                        *)
THEOREM TypeCorrect == Spec => []TypeOK
<1>1. Init => TypeOK /\ HostTyped
  BY InitTyped
<1>2. TypeOK /\ HostTyped /\ [Next]_vars => TypeOK' /\ HostTyped'
  BY StepTyped
<1> QED
  BY <1>1, <1>2, PTL DEF Spec
-----------------------------------------------------------------------------
(* A client alone with its name.                                           *)

(* At first there is no client yet.                                        *)
LEMMA InitKnown == Init => RunInv
<1>1. Init => Active = {}
  BY DEF Init, Active
<1>2. Init => AloneInRun /\ ProgressTrue /\ OwnFilesOnly
  BY <1>1 DEF AloneInRun, ProgressTrue, OwnFilesOnly, Undisturbed
<1>3. Init => EndsAreKnown /\ ExitCodeKept
  BY DEF Init, EndsAreKnown, ExitCodeKept, AfterStart, AfterLoop, Ended
<1> QED
  BY <1>2, <1>3, InitTyped DEF RunInv

(* Only a launch adds a client to the active ones; then every client that   *)
(* is active has met another.  Any other step is one of an active client,   *)
(* or one of the guest and libvirt, which leave clients and files alone.    *)
LEMMA StepKinds ==
  ASSUME TypeOK, Next
  PROVE  \/ \E c \in Clients :
              /\ Launch(c) /\ c \notin Active /\ Active' \subseteq Active \cup {c}
              /\ Active # {} => Active' \subseteq shared'
         \/ \E c \in Active : /\ Start(c) \/ Main(c) \/ Stop(c) \/ Killed(c)
                              /\ Active' \subseteq Active /\ shared' = shared
         \/ Guest /\ UNCHANGED << pc, onDisk, shared >> /\ Active' = Active
<1>1. CASE Guest
  BY <1>1 DEF Guest, GuestInit, GuestCommon, GuestReads, GuestExits, GuestPowersOff, GuestDies,
              AutoDestroy, hostVars, Active
<1>2. ASSUME NEW c \in Clients, Launch(c)
      PROVE  /\ c \notin Active /\ Active' \subseteq Active \cup {c}
             /\ Active # {} => Active' \subseteq shared'
  <2>1. \E next \in {"save", "done"} : Goto(c, next)
    BY <1>2 DEF Launch, Goto
  <2>2. Active' \subseteq Active \cup {c}
    BY <2>1, GotoEffect
  <2>3. c \notin Active
    BY <1>2 DEF Launch, Active
  <2>4. Active # {} => shared' = shared \cup {c} \cup Active
    BY <1>2 DEF Launch
  <2> QED
    BY <2>2, <2>3, <2>4
<1>3. ASSUME NEW c \in Clients, Start(c) \/ Main(c) \/ Stop(c) \/ Killed(c)
      PROVE  c \in Active /\ Active' \subseteq Active /\ shared' = shared
  <2>1. c \in Active
    BY <1>3 DEF Active, Ended, Start, SaveConfig, WriteMountCfg, CopyInit, Copied, MakeInitrd,
                CopyKernel, WriteDiskCfg, StartDomain, CleanPostStart, Writes, Fails,
                Main, AttachLog, AttachApp, ConsoleExited, ConsoleClosed, LogClosed, DelayedClose,
                Stop, StopDomain, CleanBuilder, CleanContext, Killed
  <2>2. shared' = shared
    BY <1>3 DEF hostVars, Start, SaveConfig, WriteMountCfg, CopyInit, Copied, MakeInitrd,
                CopyKernel, WriteDiskCfg, StartDomain, CleanPostStart, Writes, Fails,
                Main, AttachLog, AttachApp, ConsoleExited, ConsoleClosed, LogClosed, DelayedClose,
                Stop, StopDomain, CleanBuilder, CleanContext, Killed
  <2>3. pc' = pc \/ \E next : Goto(c, next)
    BY <1>3 DEF Start, SaveConfig, WriteMountCfg, CopyInit, Copied, MakeInitrd,
                CopyKernel, WriteDiskCfg, StartDomain, CleanPostStart, Writes, Fails,
                Main, AttachLog, AttachApp, ConsoleExited, ConsoleClosed, LogClosed, DelayedClose,
                Stop, StopDomain, CleanBuilder, CleanContext, Killed
  <2>4. Active' \subseteq Active \cup {c}
    <3>1. CASE pc' = pc
      BY <3>1 DEF Active
    <3>2. ASSUME NEW next, Goto(c, next) PROVE Active' \subseteq Active \cup {c}
      BY <3>2, GotoEffect
    <3> QED
      BY <2>3, <3>1, <3>2
  <2> QED
    BY <2>1, <2>2, <2>4
<1> QED
  BY <1>1, <1>2, <1>3 DEF Next

(* Who has met nobody has been alone all along.                            *)
LEMMA UndisturbedBefore ==
  ASSUME TypeOK, AloneInRun, Next, NEW c \in Undisturbed'
  PROVE  \/ c \in Undisturbed /\ Active = {c} /\ ~Launch(c)
         \/ c \in Clients /\ Launch(c) /\ Active = {}
<1>1. c \in Active' /\ c \notin shared'
  BY DEF Undisturbed
<1>2. CASE \E d \in Clients :
              /\ Launch(d) /\ d \notin Active /\ Active' \subseteq Active \cup {d}
              /\ Active # {} => Active' \subseteq shared'
  BY <1>1, <1>2
<1>3. CASE Active' \subseteq Active /\ shared' = shared
  <2>1. c \in Undisturbed /\ c \in Active
    BY <1>1, <1>3 DEF Undisturbed
  <2>2. ~Launch(c)
    BY <2>1 DEF Launch, Active
  <2> QED
    BY <2>1, <2>2 DEF AloneInRun
<1> QED
  BY <1>2, <1>3, StepKinds

(* A client that nobody disturbed stays the only active one.               *)
LEMMA AloneStep ==
  ASSUME TypeOK, AloneInRun, Next
  PROVE  AloneInRun'
<1> SUFFICES ASSUME NEW c \in Undisturbed' PROVE Active' = {c}
  BY DEF AloneInRun
<1>1. c \in Active' /\ c \notin shared'
  BY DEF Undisturbed
<1>2. CASE \E d \in Clients :
              /\ Launch(d) /\ d \notin Active /\ Active' \subseteq Active \cup {d}
              /\ Active # {} => Active' \subseteq shared'
  BY <1>1, <1>2
<1>3. CASE Active' \subseteq Active /\ shared' = shared
  BY <1>1, <1>3 DEF AloneInRun, Undisturbed
<1> QED
  BY <1>2, <1>3, StepKinds
-----------------------------------------------------------------------------
(* The files of a client alone with its name, step by step.                *)

(* Writing the next file keeps what the client has done so far.            *)
LEMMA WritesProgress ==
  ASSUME TypeOK, NEW c \in Clients, Progress(c), NEW step, NEW ds, NEW f \in Files, NEW next,
         Writes(c, step, ds, f, next),
         OwnSoFar(next) \subseteq OwnSoFar(step) \cup {f}, OwnSoFar(step) \subseteq Files,
         GoneSoFar(next) = {}, next # "cleanContext"
  PROVE  Progress(c)'
<1>1. \A g \in Files : /\ g = f => files'[g] = c
                       /\ g # f /\ Present(g) => files'[g] = files[g]
  BY MakesEffect DEF Writes
<1>2. \A g \in OwnSoFar(step) : files[g] = c /\ Present(g)
  BY DEF Writes, Progress, Present
<1>3. pc'[c] = next
  BY GotoEffect DEF Writes
<1> QED
  BY <1>1, <1>2, <1>3 DEF Progress

(* A step that leads to undo leaves nothing to know.                       *)
LEMMA UndoProgress ==
  ASSUME TypeOK, NEW c \in Clients, Goto(c, "undo")
  PROVE  Progress(c)'
<1>1. pc'[c] = "undo"
  BY GotoEffect
<1> QED
  BY <1>1 DEF Progress, OwnSoFar, GoneSoFar, Running, AfterStart

(* A step that fails undoes it.                                            *)
LEMMA FailsProgress ==
  ASSUME TypeOK, NEW c \in Clients, NEW step, NEW ds, NEW f, Fails(c, step, ds, f)
  PROVE  Progress(c)'
BY UndoProgress DEF Fails

(* Every file the client writes before the copies keeps it.                *)
LEMMA FileStepProgress ==
  ASSUME TypeOK, NEW c \in Clients, Progress(c),
         SaveConfig(c) \/ WriteMountCfg(c) \/ MakeInitrd(c) \/ CopyKernel(c) \/ WriteDiskCfg(c)
  PROVE  Progress(c)'
<1> USE DEF OwnSoFar, GoneSoFar, Running, AfterStart, Files, Boot, Config, Dirs
<1>1. CASE SaveConfig(c)
  BY <1>1, WritesProgress, FailsProgress DEF SaveConfig
<1>2. CASE WriteMountCfg(c)
  BY <1>2, WritesProgress, FailsProgress DEF WriteMountCfg
<1>3. CASE MakeInitrd(c)
  BY <1>3, WritesProgress, FailsProgress DEF MakeInitrd
<1>4. CASE CopyKernel(c)
  BY <1>4, WritesProgress, UndoProgress DEF CopyKernel
<1>5. CASE WriteDiskCfg(c)
  BY <1>5, WritesProgress, FailsProgress DEF WriteDiskCfg
<1> QED
  BY <1>1, <1>2, <1>3, <1>4, <1>5

(* Copying the init program keeps it.                                      *)
LEMMA CopyProgress ==
  ASSUME TypeOK, NEW c \in Clients, Progress(c), CopyInit(c) \/ Copied(c)
  PROVE  Progress(c)'
<1>1. pc'[c] \in {"copying", "rest", "initrd", "undo"}
  BY GotoEffect DEF CopyInit, Copied
<1>2. files' = files \/ Makes(c, {"state", "config", ".libs"}, {})
  BY DEF CopyInit, Copied
<1>3. \A f \in {"sandbox.cfg", "mounts.cfg"} : files[f] = c /\ f \in Files
  BY DEF CopyInit, Copied, Progress, OwnSoFar, Files, Config
<1>4. \A f \in {"sandbox.cfg", "mounts.cfg"} : files'[f] = c
  BY <1>2, <1>3, MakesEffect
<1> QED
  BY <1>1, <1>4 DEF Progress, OwnSoFar, GoneSoFar, Running, AfterStart

(* The domain, once started, has booted what its client wrote.              *)
LEMMA StartDomainProgress ==
  ASSUME TypeOK, NEW c \in Clients, Progress(c), StartDomain(c)
  PROVE  /\ Progress(c)'
         /\ domain' = c => domain' = domain \/ saw' = {c}
<1>1. CASE Goto(c, "undo") /\ UNCHANGED domVars
  BY <1>1, UndoProgress DEF domVars
<1>2. CASE Goto(c, "poststart") /\ saw' = {files[f] : f \in Boot}
  <2>1. \A f \in {"sandbox.cfg", "mounts.cfg", "disks.cfg"} \cup Boot : files[f] = c
    BY DEF StartDomain, Progress, OwnSoFar, Running
  <2>2. saw' = {c}
    BY <1>2, <2>1 DEF Boot
  <2>3. pc'[c] = "poststart" /\ files' = files
    BY <1>2, GotoEffect DEF StartDomain, onDisk
  <2> QED
    BY <2>1, <2>2, <2>3 DEF Progress, OwnSoFar, GoneSoFar, Running, AfterStart
<1> QED
  BY <1>1, <1>2 DEF StartDomain

(* Removing the boot files after the start keeps it.                       *)
LEMMA CleanPostStartProgress ==
  ASSUME TypeOK, NEW c \in Clients, Progress(c), CleanPostStart(c)
  PROVE  Progress(c)'
<1>1. \A f \in Files : files'[f] = IF f \in Boot THEN None ELSE files[f]
  BY RemovesEffect DEF CleanPostStart
<1>2. \/ pc[c] = "undo" /\ pc'[c] = "cleanBuilder"
      \/ pc[c] = "poststart" /\ pc'[c] = "log"
  BY GotoEffect DEF CleanPostStart
<1> QED
  BY <1>1, <1>2 DEF Progress, OwnSoFar, GoneSoFar, Running, AfterStart, Files, Boot, Config

(* The main loop touches no file.                                          *)
LEMMA MainProgress ==
  ASSUME TypeOK, NEW c \in Clients, Progress(c), Main(c)
  PROVE  Progress(c)'
<1>1. files' = files /\ pc[c] \in {"log", "app", "loop"}
  BY DEF onDisk, Main, AttachLog, AttachApp, ConsoleExited, ConsoleClosed, LogClosed, DelayedClose
<1>2. pc' = pc \/ \E next \in {"app", "loop", "stop"} : Goto(c, next)
  BY DEF Main, AttachLog, AttachApp, ConsoleExited, ConsoleClosed, LogClosed, DelayedClose
<1>3. pc'[c] \in {"log", "app", "loop", "stop"}
  BY <1>1, <1>2, GotoEffect
<1> QED
  BY <1>1, <1>3 DEF Progress, OwnSoFar, GoneSoFar, Running, AfterStart

(* Stopping and cleaning keep it.                                          *)
LEMMA StopProgress ==
  ASSUME TypeOK, NEW c \in Clients, Progress(c), Stop(c)
  PROVE  Progress(c)'
<1>1. CASE StopDomain(c)
  <2>1. pc[c] = "stop" /\ pc'[c] = "cleanBuilder" /\ files' = files
    BY <1>1, GotoEffect DEF StopDomain, onDisk
  <2> QED
    BY <2>1 DEF Progress, OwnSoFar, GoneSoFar, Running, AfterStart
<1>2. CASE CleanBuilder(c)
  <2>1. /\ \A f \in Files : files'[f] = IF f \in {"mounts.cfg", "disks.cfg", ".libs"}
                                        THEN None ELSE files[f]
        /\ ~cut' /\ pc[c] = "cleanBuilder"
    BY <1>2, RemovesEffect DEF CleanBuilder
  <2>2. pc'[c] \in {"cleanContext", "crashed"}
    BY <1>2, GotoEffect DEF CleanBuilder
  <2>3. \A f \in Boot : files[f] = None
    BY <2>1 DEF Progress, GoneSoFar, AfterStart
  <2> QED
    BY <2>1, <2>2, <2>3 DEF Progress, OwnSoFar, GoneSoFar, Running, AfterStart,
                            Files, Boot, Config
<1>3. CASE CleanContext(c)
  <2>1. pc'[c] = "done"
    BY <1>3, GotoEffect DEF CleanContext
  <2> QED
    BY <2>1 DEF Progress, OwnSoFar, GoneSoFar, Running, AfterStart
<1> QED
  BY <1>1, <1>2, <1>3 DEF Stop

(* Every step keeps it for every undisturbed client.                       *)
LEMMA ProgressStep ==
  ASSUME TypeOK, AloneInRun, ProgressTrue, Next
  PROVE  ProgressTrue'
<1> SUFFICES ASSUME NEW c \in Undisturbed' PROVE Progress(c)'
  BY DEF ProgressTrue
<1>1. CASE c \in Clients /\ Launch(c)
  <2>1. pc'[c] \in {"save", "done"}
    BY <1>1, GotoEffect DEF Launch, Goto
  <2> QED
    BY <2>1 DEF Progress, OwnSoFar, GoneSoFar, Running, AfterStart
<1>2. CASE c \in Undisturbed /\ Active = {c} /\ ~Launch(c)
  <2>1. c \in Clients /\ Progress(c)
    BY <1>2 DEF ProgressTrue, Undisturbed, Active
  <2>2. CASE \E d \in Clients : Launch(d) /\ (Active # {} => Active' \subseteq shared')
    BY <1>2, <2>2 DEF Undisturbed
  <2>3. CASE Start(c) \/ Main(c) \/ Stop(c) \/ Killed(c)
    <3>1. CASE Start(c)
      BY <2>1, <3>1, FileStepProgress, CopyProgress, StartDomainProgress, CleanPostStartProgress
         DEF Start
    <3>2. CASE Killed(c)
      <4>1. pc'[c] = "dead"
        BY <2>1, <3>2, GotoEffect DEF Killed
      <4> QED
        BY <4>1 DEF Progress, OwnSoFar, GoneSoFar, Running, AfterStart
    <3> QED
      BY <2>1, <2>3, <3>1, <3>2, MainProgress, StopProgress
  <2>4. CASE Guest /\ UNCHANGED << pc, onDisk, shared >>
    BY <2>1, <2>4 DEF Progress, onDisk
  <2> QED
    BY <1>2, <2>2, <2>3, <2>4, StepKinds
<1> QED
  BY <1>1, <1>2, UndisturbedBefore
-----------------------------------------------------------------------------
(* What the guest of such a client has read.                                *)

(* A guest that reads a file finds its client's.                            *)
LEMMA GuestReadsOwn ==
  ASSUME TypeOK, HostTyped, AloneInRun, ProgressTrue, OwnFilesOnly, Guest,
         domain' \in Active \ shared
  PROVE  saw' \subseteq {domain'}
<1>1. domain' = domain /\ domain # None
  BY DEF Guest, GuestInit, GuestCommon, GuestReads, GuestExits, GuestPowersOff, GuestDies,
         AutoDestroy, Active
<1>2. saw \subseteq {domain}
  BY <1>1 DEF OwnFilesOnly
<1>3. Progress(domain) /\ pc[domain] \in Running
  BY <1>1 DEF ProgressTrue, Undisturbed, TypeOK, Running, Active, Ended
<1>4. \A f \in {"sandbox.cfg", "mounts.cfg", "disks.cfg"} : files[f] = domain
  BY <1>3 DEF Progress, OwnSoFar, Running
<1>5. CASE GuestInit
  BY <1>1, <1>2, <1>4, <1>5 DEF GuestInit, GuestReads
<1>6. CASE GuestCommon
  BY <1>1, <1>2, <1>4, <1>6 DEF GuestCommon, GuestReads
<1>7. CASE GuestExits
  BY <1>1, <1>2, <1>7 DEF GuestExits
<1> QED
  BY <1>1, <1>5, <1>6, <1>7 DEF Guest, GuestPowersOff, GuestDies, AutoDestroy

(* The steps of clients give nobody a domain but the one who starts his,    *)
(* and add nothing to what a domain has read.                               *)
LEMMA ClientReadsNothing ==
  ASSUME TypeOK, NEW c \in Clients,
         Launch(c) \/ Start(c) \/ Main(c) \/ Stop(c) \/ Killed(c)
  PROVE  \/ StartDomain(c)
         \/ domain' = None
         \/ UNCHANGED << domain, saw >>
<1>1. CASE Launch(c) \/ Main(c) \/ Killed(c)
  BY <1>1 DEF domVars, Launch, Killed, Main, AttachLog, AttachApp, ConsoleExited, ConsoleClosed,
              LogClosed, DelayedClose
<1>2. CASE Start(c)
  BY <1>2 DEF domVars, Start, SaveConfig, WriteMountCfg, CopyInit, Copied, MakeInitrd,
              CopyKernel, WriteDiskCfg, CleanPostStart, Writes, Fails
<1>3. CASE Stop(c)
  BY <1>3 DEF domVars, Stop, StopDomain, CleanBuilder, CleanContext
<1> QED
  BY <1>1, <1>2, <1>3

(* Every step lets an undisturbed domain see only its own files.           *)
LEMMA OwnFilesStep ==
  ASSUME TypeOK, HostTyped, AloneInRun, ProgressTrue, OwnFilesOnly, Next
  PROVE  OwnFilesOnly'
<1> SUFFICES ASSUME domain' \in Active' \ shared' PROVE saw' \subseteq {domain'}
  BY DEF OwnFilesOnly
<1> DEFINE d == domain'
<1>1. d \in Undisturbed' /\ d \in Clients /\ d # None
  BY DEF Undisturbed, Active
<1>2. CASE Launch(d) /\ Active = {}
  <2>1. domain = d
    BY <1>2 DEF Launch, domVars
  <2> QED
    BY <1>1, <1>2, <2>1 DEF Launch, TypeOK
<1>3. CASE d \in Undisturbed /\ Active = {d} /\ ~Launch(d)
  <2>1. CASE \E c \in Clients : Launch(c) /\ (Active # {} => Active' \subseteq shared')
    BY <1>1, <1>3, <2>1 DEF Undisturbed
  <2>2. CASE Start(d) \/ Main(d) \/ Stop(d) \/ Killed(d)
    <3>1. CASE StartDomain(d)
      <4>1. d = domain \/ saw' = {d}
        BY <1>1, <1>3, <3>1, StartDomainProgress DEF ProgressTrue
      <4>2. d # domain
        BY <1>1, <3>1 DEF StartDomain, TypeOK
      <4> QED
        BY <4>1, <4>2
    <3>2. CASE UNCHANGED << domain, saw >>
      BY <1>3, <3>2 DEF OwnFilesOnly, Undisturbed
    <3> QED
      BY <1>1, <2>2, <3>1, <3>2, ClientReadsNothing
  <2>3. CASE Guest
    BY <1>3, <2>3, GuestReadsOwn DEF Undisturbed
  <2> QED
    BY <1>3, <2>1, <2>2, <2>3, StepKinds
<1> QED
  BY <1>1, <1>2, <1>3, UndisturbedBefore
-----------------------------------------------------------------------------
(* What a client knows of its application's end.                           *)

EndKnown(c) ==
  /\ con[c] \in {"exited", "quit"} => ret[c] # "failure"
  /\ con[c] = "broken" => c \in faulty
  /\ timer[c] => con[c] \in {"quit", "broken"} /\ pc[c] \in AfterLoop
  /\ pc[c] \in {"poststart", "log", "app", "loop"} /\ domain # c
       => c \in faulty \/ con[c] = "quit"
  /\ pc[c] \notin AfterStart \cup Ended \/ pc[c] = "log" => log[c] = "off"

CodeKept(c) == pc[c] \in {"stop", "cleanBuilder", "cleanContext"} /\ log[c] # "off"
               /\ c \notin faulty => ret[c] # "failure"

(* The others are told apart from the client that steps: nothing that is    *)
(* said of them changes, unless they lose their domain.                     *)
LEMMA OthersKnow ==
  ASSUME TypeOK, HostTyped, NEW c \in Clients, NEW d \in Clients, EndKnown(d), CodeKept(d),
         pc'[d] = pc[d], log'[d] = log[d], con'[d] = con[d], timer'[d] = timer[d],
         ret'[d] = ret[d], d \in faulty => d \in faulty',
         domain = d => domain' = d
  PROVE  EndKnown(d)' /\ CodeKept(d)'
<1>1. d \in faulty' \/ d \notin faulty
  OBVIOUS
<1>2. EndKnown(d)'
  BY DEF EndKnown
<1>3. CodeKept(d)'
  BY DEF CodeKept
<1> QED
  BY <1>2, <1>3

(* Of a client's own step the others know what they knew.                   *)
LEMMA FrameOfStep ==
  ASSUME TypeOK, HostTyped, NEW c \in Clients,
         Launch(c) \/ Start(c) \/ Main(c) \/ Stop(c) \/ Killed(c),
         NEW d \in Clients \ {c}, EndKnown(d), CodeKept(d)
  PROVE  EndKnown(d)' /\ CodeKept(d)'
<1>1. pc' = pc \/ \E next : Goto(c, next)
  BY DEF Launch, Goto, Start, SaveConfig, WriteMountCfg, CopyInit, Copied, MakeInitrd,
         CopyKernel, WriteDiskCfg, StartDomain, CleanPostStart, Writes, Fails,
         Main, AttachLog, AttachApp, ConsoleExited, ConsoleClosed, LogClosed, DelayedClose,
         Stop, StopDomain, CleanBuilder, CleanContext, Killed
<1>2. pc'[d] = pc[d]
  BY <1>1, GotoEffect
<1>3. /\ log'[d] = log[d] /\ con'[d] = con[d] /\ timer'[d] = timer[d] /\ ret'[d] = ret[d]
      /\ d \in faulty => d \in faulty'
  <2>1. CASE Launch(c) \/ Main(c) \/ Killed(c)
    BY <2>1 DEF HostTyped, Launch, Killed, Main, AttachLog, AttachApp, ConsoleExited,
                ConsoleClosed, PendingClose, LogClosed, DelayedClose
  <2>2. CASE Start(c)
    BY <2>2 DEF hostVars, Start, SaveConfig, WriteMountCfg, CopyInit, Copied, MakeInitrd,
                CopyKernel, WriteDiskCfg, StartDomain, CleanPostStart, Writes, Fails
  <2>3. CASE Stop(c)
    BY <2>3 DEF hostVars, Stop, StopDomain, CleanBuilder, CleanContext
  <2> QED
    BY <2>1, <2>2, <2>3
<1>4. domain = d => domain' = d
  <2>1. CASE StartDomain(c)
    BY <2>1 DEF StartDomain, domVars
  <2>2. CASE StopDomain(c)
    BY <2>2 DEF StopDomain, domVars
  <2>3. CASE CleanBuilder(c) \/ CleanContext(c)
    BY <2>3 DEF CleanBuilder, CleanContext, domVars
  <2>4. CASE Launch(c) \/ Main(c) \/ Killed(c)
    BY <2>4 DEF domVars, Launch, Killed, Main, AttachLog, AttachApp, ConsoleExited,
                ConsoleClosed, LogClosed, DelayedClose
  <2>5. CASE Start(c) /\ ~StartDomain(c)
    BY <2>5 DEF domVars, Start, SaveConfig, WriteMountCfg, CopyInit, Copied, MakeInitrd,
                CopyKernel, WriteDiskCfg, CleanPostStart, Writes, Fails
  <2> QED
    BY <2>1, <2>2, <2>3, <2>4, <2>5 DEF Stop
<1> QED
  BY <1>2, <1>3, <1>4, OthersKnow

(* Before its log console is attached a client knows nothing; what loses it *)
(* its domain is not its own doing.                                         *)
LEMMA StartKnows ==
  ASSUME TypeOK, HostTyped, NEW c \in Clients, EndKnown(c), Launch(c) \/ Start(c)
  PROVE  EndKnown(c)' /\ CodeKept(c)'
<1>1. UNCHANGED << log, con, timer, ret, faulty >>
  BY DEF hostVars, Launch, Start, SaveConfig, WriteMountCfg, CopyInit, Copied, MakeInitrd,
         CopyKernel, WriteDiskCfg, StartDomain, CleanPostStart, Writes, Fails
<1>2. log[c] = "off" /\ ~timer[c]
  BY DEF EndKnown, AfterStart, AfterLoop, Ended, Launch, Start, SaveConfig, WriteMountCfg, CopyInit, Copied,
         MakeInitrd, CopyKernel, WriteDiskCfg, StartDomain, CleanPostStart, Writes, Fails
<1>3. pc'[c] \in {"poststart", "log", "app", "loop"} /\ domain' # c
        => c \in faulty \/ con[c] = "quit"
  <2>1. CASE StartDomain(c)
    BY <2>1, GotoEffect DEF StartDomain
  <2>2. CASE CleanPostStart(c)
    <3>1. pc[c] = "poststart" \/ pc'[c] = "cleanBuilder"
      BY <2>2, GotoEffect DEF CleanPostStart
    <3>2. domain' = domain
      BY <2>2 DEF CleanPostStart, domVars
    <3> QED
      BY <3>1, <3>2 DEF EndKnown
  <2>3. CASE Launch(c) \/ (Start(c) /\ ~StartDomain(c) /\ ~CleanPostStart(c))
    <3>1. \E next \in Steps \ {"poststart", "log", "app", "loop"} : Goto(c, next)
      BY <2>3 DEF Steps, Ended, Launch, Goto, Start, SaveConfig, WriteMountCfg, CopyInit, Copied,
                  MakeInitrd, CopyKernel, WriteDiskCfg, Writes, Fails
    <3> QED
      BY <3>1, GotoEffect
  <2> QED
    BY <2>1, <2>2, <2>3
<1> QED
  BY <1>1, <1>2, <1>3 DEF EndKnown, CodeKept

(* The main loop keeps what is known of the end, and the code.             *)
LEMMA MainKnows ==
  ASSUME TypeOK, HostTyped, NEW c \in Clients, EndKnown(c), CodeKept(c), Main(c)
  PROVE  EndKnown(c)' /\ CodeKept(c)'
<1> USE DEF EndKnown, CodeKept, AfterStart, AfterLoop, Ended, HostTyped
<1>0. domain' = domain
  BY DEF domVars, Main, AttachLog, AttachApp, ConsoleExited, ConsoleClosed, LogClosed, DelayedClose
<1>1. CASE AttachLog(c)
  <2>1. pc'[c] = "app" \/ (pc'[c] = "stop" /\ c \in faulty' /\ log' = log)
    BY <1>1, GotoEffect DEF AttachLog
  <2>2. pc[c] = "log" /\ UNCHANGED << con, timer, ret >> /\ (c \in faulty => c \in faulty')
    BY <1>1 DEF AttachLog
  <2> QED
    BY <1>0, <2>1, <2>2
<1>2. CASE AttachApp(c)
  <2>1. \/ pc'[c] = "loop" /\ domain = c /\ con'[c] = "open" /\ faulty' = faulty
        \/ pc'[c] = "stop" /\ c \in faulty' /\ con' = con
    BY <1>2, GotoEffect DEF AttachApp
  <2>2. pc[c] = "app" /\ UNCHANGED << log, timer, ret >>
    BY <1>2 DEF AttachApp
  <2> QED
    BY <1>0, <2>1, <2>2
<1>3. CASE ConsoleExited(c)
  <2>1. ExitCode(guest) # "failure" /\ guest \in Statuses
    BY <1>3 DEF ExitCode, ConsoleExited
  <2> QED
    BY <1>0, <1>3, <2>1 DEF ConsoleExited
<1>4. CASE ConsoleClosed(c)
  BY <1>0, <1>4 DEF ConsoleClosed, PendingClose
<1>5. CASE LogClosed(c)
  <2>1. pc'[c] = "stop" /\ (domain = c => c \in faulty')
    BY <1>5, GotoEffect DEF LogClosed
  <2>2. pc[c] = "loop" /\ UNCHANGED << con, timer, ret >> /\ (c \in faulty => c \in faulty')
    BY <1>5 DEF LogClosed
  <2> QED
    BY <1>0, <2>1, <2>2
<1>6. CASE DelayedClose(c)
  <2>1. pc'[c] = "stop" /\ pc[c] = "loop" /\ timer[c] /\ ~timer'[c]
    BY <1>6, GotoEffect DEF DelayedClose
  <2> QED
    BY <1>0, <1>6, <2>1 DEF DelayedClose
<1> QED
  BY <1>1, <1>2, <1>3, <1>4, <1>5, <1>6 DEF Main

(* Stopping, cleaning and dying keep it.                                   *)
LEMMA StopKnows ==
  ASSUME TypeOK, HostTyped, NEW c \in Clients, EndKnown(c), CodeKept(c), Stop(c) \/ Killed(c)
  PROVE  EndKnown(c)' /\ CodeKept(c)'
<1>1. UNCHANGED << log, con, timer, ret >> /\ (c \in faulty => c \in faulty')
  BY DEF hostVars, Stop, StopDomain, CleanBuilder, CleanContext, Killed
<1>2. CASE Stop(c)
  <2>1. /\ pc[c] \in {"stop", "cleanBuilder", "cleanContext"}
        /\ pc'[c] \in {"cleanBuilder", "cleanContext"} \cup Ended
    BY <1>2, GotoEffect DEF Stop, StopDomain, CleanBuilder, CleanContext, Ended
  <2>2. faulty' = faulty
    BY <1>2 DEF hostVars, Stop, StopDomain, CleanBuilder, CleanContext
  <2> QED
    BY <1>1, <2>1, <2>2 DEF EndKnown, CodeKept, AfterStart, AfterLoop, Ended
<1>3. CASE Killed(c)
  <2>1. pc'[c] = "dead"
    BY <1>3, GotoEffect DEF Killed
  <2> QED
    BY <1>1, <2>1 DEF EndKnown, CodeKept, AfterStart, AfterLoop, Ended
<1> QED
  BY <1>2, <1>3

(* The guest and libvirt: a domain that goes has had its QUIT, or its going *)
(* counts as a fault, or its client has ended before it.                    *)
LEMMA GuestKnows ==
  ASSUME TypeOK, HostTyped, Guest, NEW d \in Clients, EndKnown(d), CodeKept(d)
  PROVE  EndKnown(d)' /\ CodeKept(d)'
<1>1. UNCHANGED << pc, log, con, timer, ret >> /\ (d \in faulty => d \in faulty')
  BY DEF Guest, GuestInit, GuestCommon, GuestReads, GuestExits, GuestPowersOff, GuestDies,
         AutoDestroy, hostVars
<1>2. \/ domain' = domain
      \/ domain \in faulty'
      \/ guest \in Statuses /\ con[domain] = "quit"
      \/ pc[domain] \in Ended
  BY DEF Guest, GuestInit, GuestCommon, GuestReads, GuestExits, GuestPowersOff, QuitSeen,
         GuestDies, AutoDestroy
<1>3. pc'[d] \in {"poststart", "log", "app", "loop"} /\ domain' # d
        => d \in faulty' \/ con'[d] = "quit"
  BY <1>1, <1>2 DEF EndKnown, Ended
<1> QED
  BY <1>1, <1>3 DEF EndKnown, CodeKept

(* Every step keeps it for every client.                                   *)
LEMMA EndsStep ==
  ASSUME TypeOK, HostTyped, EndsAreKnown, ExitCodeKept, Next
  PROVE  EndsAreKnown' /\ ExitCodeKept'
<1>1. \A d \in Clients : EndKnown(d) /\ CodeKept(d)
  BY DEF EndsAreKnown, ExitCodeKept, EndKnown, CodeKept
<1>2. ASSUME NEW d \in Clients PROVE EndKnown(d)' /\ CodeKept(d)'
  <2>1. CASE Guest
    BY <1>1, <2>1, GuestKnows
  <2>2. ASSUME NEW c \in Clients, Launch(c) \/ Start(c) \/ Main(c) \/ Stop(c) \/ Killed(c)
        PROVE  EndKnown(d)' /\ CodeKept(d)'
    <3>1. CASE c = d
      BY <1>1, <2>2, <3>1, StartKnows, MainKnows, StopKnows
    <3>2. CASE c # d
      BY <1>1, <2>2, <3>2, FrameOfStep
    <3> QED
      BY <3>1, <3>2
  <2> QED
    BY <2>1, <2>2 DEF Next
<1> QED
  BY <1>2 DEF EndsAreKnown, ExitCodeKept, EndKnown, CodeKept
-----------------------------------------------------------------------------
(* The invariant, and what follows from it.                                 *)

(* RunInv holds in every state of every behaviour.                         *)
LEMMA Invariance == Spec => []RunInv
<1>1. ASSUME RunInv, [Next]_vars PROVE RunInv'
  <2>1. CASE Next
    BY <1>1, <2>1, StepTyped, AloneStep, ProgressStep, OwnFilesStep, EndsStep DEF RunInv
  <2>2. CASE UNCHANGED vars
    <3>1. TypeOK' /\ HostTyped'
      BY <1>1, StepTyped DEF RunInv
    <3>2. Active' = Active /\ Undisturbed' = Undisturbed
      BY <2>2 DEF vars, Active, Undisturbed
    <3>3. AloneInRun' /\ ProgressTrue' /\ OwnFilesOnly'
      BY <1>1, <2>2, <3>2 DEF RunInv, vars, AloneInRun, ProgressTrue, Progress, OwnFilesOnly
    <3>4. EndsAreKnown' /\ ExitCodeKept'
      BY <1>1, <2>2 DEF RunInv, vars, EndsAreKnown, ExitCodeKept
    <3> QED
      BY <3>1, <3>3, <3>4 DEF RunInv
  <2> QED
    BY <1>1, <2>1, <2>2
<1> QED
  BY <1>1, InitKnown, PTL DEF Spec

(* A client alone with its name boots the kernel and initrd it built, and   *)
(* its guest reads the configuration it saved, whatever clients that were   *)
(* killed before it have left in the directory                              *)
(* (context-interactive.c:246-271).                                         *)
THEOREM OwnFilesBoot == Spec => []OwnFilesOnly
<1>1. RunInv => OwnFilesOnly
  BY DEF RunInv
<1> QED
  BY <1>1, Invariance, PTL

(* Once the application has exited and no console, guest or client has      *)
(* failed, virt-sandbox ends with the application's status                  *)
(* (virt-sandbox.c:309-317).                                                *)
THEOREM ApplicationsCode == Spec => []ExitCodeKept
<1>1. RunInv => ExitCodeKept
  BY DEF RunInv
<1> QED
  BY <1>1, Invariance, PTL

CleanStep ==
  \A c \in Clients \ shared :
    pc[c] = "cleanContext" /\ pc'[c] = "done" =>
      /\ \A f \in Files : files'[f] = None
      /\ ~cut' /\ domain' # c

(* A client alone with its name that reaches the end of main has removed    *)
(* all there was in the directory and leaves no domain (builder.c:700-706). *)
THEOREM NothingLeftBehind == Spec => CleanExit
<1>1. ASSUME RunInv, [Next]_vars PROVE CleanStep
  <2> SUFFICES ASSUME NEW c \in Clients \ shared, pc[c] = "cleanContext", pc'[c] = "done"
               PROVE  /\ \A f \in Files : files'[f] = None
                      /\ ~cut' /\ domain' # c
    BY DEF CleanStep
  <2>1. c \in Active /\ Active = {c} /\ Progress(c)
    BY <1>1 DEF Active, Ended, RunInv, AloneInRun, ProgressTrue, Undisturbed
  <2>2. CleanContext(c)
    <3>1. Next /\ pc' # pc
      BY <1>1 DEF vars
    <3>2. Start(c) \/ Main(c) \/ Stop(c) \/ Killed(c)
      <4>1. ASSUME NEW d \in Clients, Launch(d), d \notin Active PROVE FALSE
        <5>1. \E next \in {"save", "done"} : Goto(d, next)
          BY <4>1 DEF Launch, Goto
        <5> QED
          BY <1>1, <2>1, <4>1, <5>1, GotoEffect DEF RunInv
      <4> QED
        BY <1>1, <2>1, <3>1, <4>1, StepKinds DEF RunInv
    <3>3. ~Start(c) /\ ~Main(c) /\ ~Killed(c)
      <4>1. ~Killed(c)
        BY <1>1, GotoEffect DEF Killed, RunInv
      <4> QED
        BY <4>1 DEF Start, SaveConfig, WriteMountCfg, CopyInit, Copied, MakeInitrd,
             CopyKernel, WriteDiskCfg, StartDomain, CleanPostStart, Writes, Fails,
             Main, AttachLog, AttachApp, ConsoleExited, ConsoleClosed, LogClosed, DelayedClose
    <3> QED
      BY <3>2, <3>3 DEF Stop, StopDomain, CleanBuilder
  <2>3. \A f \in Boot \cup (Config \ {"sandbox.cfg"}) : files[f] = None
    BY <2>1 DEF Progress, GoneSoFar
  <2>4. Gone({"sandbox.cfg", "empty"}, "config")
    BY <2>3 DEF Gone, Present, Files, Dirs, Boot, Config, Parent
  <2>5. Gone({"sandbox.cfg", "empty", "config"}, "state")
    BY <2>3 DEF Gone, Present, Files, Dirs, Boot, Config, Parent
  <2>6. Removes({"sandbox.cfg", "empty", "config", "state"})
    <3>1. /\ {"sandbox.cfg", "empty"} \cup {"config"} = {"sandbox.cfg", "empty", "config"}
          /\ {"sandbox.cfg", "empty", "config"} \cup {"state"}
               = {"sandbox.cfg", "empty", "config", "state"}
      OBVIOUS
    <3> QED
      BY <2>2, <2>4, <2>5, <3>1 DEF CleanContext
  <2>7. \A f \in Files : files'[f] = None
    BY <1>1, <2>3, <2>6, RemovesEffect DEF RunInv, Files, Dirs, Boot, Config
  <2>8. ~cut' /\ domain' # c
    BY <1>1, <2>1, <2>2 DEF CleanContext, domVars, Progress, RunInv, TypeOK
  <2> QED
    BY <2>7, <2>8
<1>2. Spec => [][CleanStep]_vars
  <2> HIDE DEF CleanStep
  <2> QED
    BY <1>1, Invariance, PTL DEF Spec
<1> QED
  BY <1>2 DEF CleanExit, CleanStep
=============================================================================
