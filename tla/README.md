# libvirt-sandbox in TLA+

libvirt-sandbox runs a program in a throw-away virtual machine or container. A
client (`bin/virt-sandbox.c`) builds a configuration, a builder turns it into a
libvirt domain and a directory of files, the domain boots
`libvirt-sandbox-init-qemu` (or `-init-lxc`), which mounts what the files name and
runs `libvirt-sandbox-init-common`. That starts the application and forwards its
stdin, stdout and stderr over a virtual serial console, with a packet protocol, to
a GLib object in the client, the console. When the application exits, the console
ends, the client stops the domain and removes the files.

Paths below are relative to `src/libvirt-sandbox/` without the prefix
`libvirt-sandbox-`, unless they contain a directory.

## 1. Inventory

| part | state it keeps | operations | what is hard |
|---|---|---|---|
| RPC channel (`rpcpacket.c`, `protocol.x`) | bytes under way, partly sent and partly received packets | encode, decode length, decode header | framing across partial reads and writes; boot noise and echo |
| `ConsoleRpc` (`console-rpc.c`) | protocol state, `tx`, `rx`, two output queues, event sources, WAIT timer | attach, detach, five GLib callbacks, timer | back-pressure spread over callbacks, wakeups, two sessions of one object, failures |
| `init-common`, I/O loop (`init-common.c`) | `tx`, `rx`, input under way, exit status, which ends are open | one handler per polled descriptor, SIGCHLD | order of exit and end of output, a tty that is one descriptor, background processes |
| `ConsoleRaw` (`console-raw.c`) | two buffers, six sources, EOF flag | attach, detach, five callbacks | lost wakeups, stale callbacks |
| contexts (`context*.c`) | the domain, the files of a sandbox name | start, stop (interactive); define, undefine, start, stop (service) | half-done starts, killed clients, two clients of one name |
| builders (`builder*.c`), for QEMU and for LXC | files in the state directory, devices of the domain, the initrd | construct, clean after start, clean after stop | names that host and guest must count alike; drivers and their order; clean-up on every path |
| `init-qemu`, `init-lxc` | drivers, mount table | load modules, mount the root, then the rest, exec init-common | two scans of one file; what it finds missing ends the guest |
| `init-common`, set-up | links to disks, interfaces, consoles | load, shell, disk tags, environment, network, console | partial failure; names of consoles that the client counts on its own |
| configuration (`config*.c`) | lists of mounts, disks, networks, variables | options, save, load | limits, integer widths, order of parameters, prefixes |
| `virt-sandbox` (`bin/virt-sandbox.c`) | exit code, delayed close | main and four signal handlers | three events that end the loop |
| console base class, utilities, service configuration, examples | accessors | | nothing that is not covered by its users |

They interact by calls (client to context to builder), signals (`closed`, `exited`
from a console to the client), files (`sandbox.cfg`, `mounts.cfg`, `disks.cfg`,
`.libs`, kernel and initrd, written on the host, read by the guest), and the console device (host end
to guest end). The client is single-threaded; concurrency is that of its main loop's
callbacks, the guest, libvirt, and other clients of one sandbox or service name.

What makes each part correct:

- channel and consoles: nothing lost, repeated or reordered; bounded memory; data only
  after the handshake; the exit status arrives after the output; no lost wakeup; the
  console ends when the application does.
- contexts and client: a sandbox boots what its own client built; whatever ends a
  client's run, its files and domain go; its exit code is the application's. A service
  that was defined stays as it was defined until somebody redefines or undefines it.
- configuration, builders and guest set-up: the guest works with the configuration
  that was asked for, every name in a file denotes the device it stands for, the guest
  has the driver of every device, and both ends mean the same console.

`PROJECT.json` lists under `hazards` where in the code each of these can go wrong.

## 2. Modules

```
RpcChannel      packets, bytes and the two FIFO directions of the device
 |-- RpcTraffic       what a stretch of traffic contains, and whether it is framed
 |    `-- RpcTrafficProofs   lemmas about that
 |-- ConsoleRpc       host end   -- ConsoleRpcOpen: against any guest  -- ConsoleRpcProofs
 |-- GuestInit        guest end  -- GuestInitOpen: against any host    -- GuestInitProofs
 `-- RpcSession       both ends; implements SandboxIO (abstract)    -- RpcSessionProofs
ConsoleRaw      the raw console, environment included                  -- ConsoleRawProofs
SandboxRun      clients, context, files, domain and guest of one name  -- SandboxRunProofs
ServiceRun      the same of one service                                -- ServiceRunProofs
SandboxConfig   the configuration as operators
 `-- Builder          domain, disks.cfg, mounts.cfg and initrd made of it, for QEMU and LXC
      `-- HandOver         options, hand-over, guest set-up -- HandOverOptions: values for TLC
                                                            -- HandOverProofs
```

**RpcChannel.** A packet is two units, the length word and the body (header and
payload); a partial send or receive ends at or inside a unit's boundary. The
handshake's bytes are units too, as is the echo of a terminal not yet raw.
`toHost` and `toGuest` are the device's buffers, of capacity `Cap`. The byte layout of
XDR is left out: no property depends on it.

**ConsoleRpc.** One action per callback of `console-rpc.c`, with everything it does,
the closing `do_console_rpc_update_events` included: `StreamReceive`, `StreamSend`,
`StreamError` (the stream's watch), `StdinRead`, `StdoutWrite`, `StderrWrite` (local
sources), their failures, `WaitTimeout`, `Attach`, `Detach`. Whether a source exists
follows from the state (`Need`), as `update_events` recomputes it each time; what does
*not* follow is kept: `stale` counts sources detach unreferenced without destroying,
`dead` those whose pointer outlived the source. `viaStale` says which of the two runs.

**GuestInit.** `run_interactive` and `eventloop` of `init-common.c`: one action per
descriptor that poll reports, with the poll conditions as guards (`Polls...`), and the
application with its pipes or tty as environment. The blocking reads of `goto readmore` stop
the loop in the model as they do in the code; so does a write of the console, until its
packet is out or SIGCHLD ends it with a part of the packet written (`writing`, `Interrupt`).
Then poll and every handler run with the rest still in `tx`. `wantTty` is a variable that
never changes, so that one run has both forms.

**SandboxIO** is the promise, in the user's terms: output is produced, delivered in
order, the application ends, its status is reported, the session closes cleanly only
after everything. `RpcSession!KeepsPromise` maps the two ends to it.

**ConsoleRaw.** The buffers up to their offsets, the sources as in ConsoleRpc. Both
forms are initial states (`direct`): a libvirt stream or a pty. `stdio` is the choice
of the caller, stdin and stdout (shell) or only stderr (log).

**SandboxRun.** Per client a program counter through `context_interactive_start`, the
client's main, and stop; every file of the state directory with the client that wrote
it; the domain with its owner; the guest's phases as far as they read files. Each step
of start is one file; each may fail, a client may be killed between any two. A boot
reads the kernel and initrd, then mounts.cfg, then the rest, so another client may be
removing them meanwhile. `cut` says that a file of `.libs` is not whole: a copy that is
interrupted leaves its target, and `copy_file` takes a file that exists for a good one, so a
client killed while copying leaves its successor a broken library.

**ServiceRun.** The calls a user of `GVirSandboxContextService` can make, from several
processes that share the directory and the domain's name: `define` and `undefine` step by
step, `start`, `stop`, `attach` and `detach` as one call of libvirt each. libvirt keeps a
definition (`defined`) apart from the running domain (`guest`), and a context holds a
pointer (`held`) that may outlive both. The builder is chosen initially; a container has
neither kernel nor `mounts.cfg`. The module has its own copy of the steps it shares with
`SandboxRun`: there a failed start undoes everything, here nothing is
undone but `sandbox.cfg`.

**SandboxConfig, Builder, HandOver.** The options as `virt-sandbox` passes them on, in its
order; `SaveConfig` and `LoadConfig` with the loader's limits and widths. `Builder` is what
the two builders make of a configuration, as operators: the two files, devices, file
systems, consoles, kernel and initrd with its list of modules, and the security label; the
set of `Domains` has one element for an initrd that was packed and one for an initrd whose
pipeline failed unnoticed. `HandOver` then runs either guest: `init-qemu` with `insmod`,
`mount_root` and the pass over `mounts.cfg`, or libvirt's own mounts and `init-lxc`; and
`init-common`'s set-up: shell, links to disks, environment, interfaces, the user and the
console of the application. What a `--mount` asked for is remembered apart (`asked`), before
its size becomes a gint. A command for an interface may end with an error (`failed`), which
nobody notices; only a program that cannot be run ends the guest. The console is chosen, as in
the code, by LIBVIRT_LXC_NAME in an environment that `--env` has been put into. A path is a sequence of pieces, so that a prefix of one is a
prefix in the code's sense (of the string, not of components). What a driver needs
(`Needs`), which kernels have which modules (`Trees`) and how they are packed are constants.
`OptionsAssumption` says what `virt-sandbox` can parse an option into: the constants are sets
of parsed options, not of strings. `Select` is `SelectSeq`, written with `FlattenSeq` because
the prover has no definition of `SelectSeq`; for the same reason tables are written as
functions where `:>` and `@@` would do.

The field `map` of `PROJECT.json` gives the lines each definition stands for.
Definitions whose comment begins "A mutant" or "Mutant of" are not part of any
specification: each is a plausible bug that one of the properties detects.

## 3. Runs

| run | question | bounds | states |
|---|---|---|---|
| `host_open` | is the host end safe against any guest? | device of 2 units, limit 2, packets up to 2, 5 messages, 1 session | 762k |
| `guest` | is the guest end safe with pipes and with a tty, against any host? | 2+1 bytes of output, pipes of 1, a background process, 4 messages | 3.4M |
| `session` | do both ends together keep the promise? | device 2, limit 1, 2 bytes in, 2+1 out, streams fail | 2.9M |
| `live` | does the handshake complete, does the exit end the session? | device 4, limit 1, 1 byte in, 2 out | 205k |
| `raw` | does the raw console forward, once and in order? | buffers of 2, 4 bytes each way, 2 sessions | 160k |
| `client` | files, domain, exit code over two clients | 2 clients of one name, each runs once | 581k |
| `handover` | does the guest get what was asked for? | any 3 options of 10 mounts, 4 disks, 4 includes, 12 networks, 4 variables, 5 security modes, for 8 clients of both drivers | 848k |
| `service` | what is left of a definition, a start, an undefine? | 2 contexts, 2 builders, 5 calls | 1.9M |
| `stderr_stuck`, `quit_over_packet`, `log_stalls`, `start_fails` | four statements of the repository its code refutes | | |

Why the bounds suffice. The queues have one element more than the limit, so the cases
"below", "at" and "above" occur for each queue separately and together; two bytes tell
order, loss and repetition apart; a device of two units is full while a packet is half
sent; an application of two bytes ends before, between and after its reads; two
sessions, clients or contexts are the fewest that share anything, and a third client meets
only what the first has left; five calls are a define that fails or is killed, an undefine,
a define, a start and one more. In `handover` the loader's limits are 2 (100 and 1024 in
the code) so that three options reach and exceed them, and a gint has 4 bits, so that
a size can overflow; three options suffice for a disk before an image, a mount behind
another at the same target, an include after two mounts. Its clients differ in URI, user,
shell, tty, kernel and label: two of them boot a kernel that does not fit its modules, one
names a kernel that is not there, one a URI that root may not use.

`host_open` has a peer that sends *any* framed sequence of messages, also those no
guest sends: what holds there does not rest on the guest. `guest` does the same for the
guest. `session` has only what both ends really do.
Symmetry is not used.

Deadlock is not checked: a session, a client's run and a boot all come to an end, and
bounds on inputs end the rest.

**Properties.**
`host_open`: `NeverStranded` (there is always an event that carries an attached console
on), `QueuesBounded`, `QuitAfterDrained`, `AwaitsOnlyWhatItCanTake`, `DataOnlyAfterSync`.
`guest`: `OutputConserved` (what was read from the pipes is what was sent or is being
sent; on a tty what is sent is a beginning of what was written), `ExitIsLast`,
`SyncThenPackets` (SYNC first and once; no packet begun inside another, and none cut short but
by EXIT on a tty).
`session`: `OutputInOnePlace` and `InputInOnePlace` (a byte is in one of five places
between writer and reader), `HandshakeAgrees` (with no packet taken for another),
`KeepsPromise`. `live`: `HandshakeCompletes`, `ExitEndsSession`.
`raw`: `StreamForwards`, `StreamNeverStranded`, `StreamClosesOnce`, `DetachedIsQuiet`.
`client`: `OwnFilesOnly`, `CleanExit`, `ExitCodeKept`, `ClosedConsoleEnds`.
`handover`: `RoundTrip`, `MountsAsAsked` (what a `--mount` promises is at its target, the root
included; a size is compared with the one on the command line),
`BootFindsDevices`, `ModulesLoad` (the list, its conditions and its order fit the devices),
`ConsolesMeet` (three countings of the consoles agree), `TagsFindDisks`,
`AddressesCommanded` (the commands for exactly the addresses asked for are run before the
application; routes only after an address, and none with dhcp), `EnvAsAsked`.
`service`: `DefinitionIntact` (a definition made alone survives every start, stop, attach
and kill until the next define or undefine), `BootsWhatWasDefined`, `UndefineSaysTrue` (an
undefine that got through and says TRUE has left nothing). Each run but `session` and
`live` also has its module's `TypeOK`.

**Preconditions that matter.** The properties of `raw` beginning with `Stream` are about
consoles with a local stdout over a stream: the log console and the pty form do not have
them (section 6). `ExitIsLast` and the first half of `SyncThenPackets` are about pipes:
on a tty whose input nobody reads the guest's loop sends EXIT again and again
(`init-common.c:1198`), and input from a host that has not awaited SYNC may replace it. On a
tty `SyncThenPackets` also allows EXIT to replace the rest of a packet, once the application has
been reaped: SIGCHLD ends the write after a part, and the handlers of the signal pipe and of the
hang-up (961, 1203) assign `tx` without asking. On pipes the same write is ended by the same
signal, but no handler then assigns `tx`.
`OwnFilesOnly` and `CleanExit` exempt clients that ran at the same time
as another of the name: nothing in the code keeps two apart. `ExitCodeKept` exempts
clients whose console, domain or process failed. `RoundTrip` holds for configurations within
`FitsLimits`. `MountsAsAsked` excepts, in `Gives`, the two promises of the man page that TLC
refutes (section 6): a size that does not fit a gint (`RamSizesKept`) and the temporary directory
for an empty source (`TemporaryBinds`). `AddressesCommanded` speaks of the commands, not of what
they achieve (`AddressesSet`). `ConsolesMeet` excepts a machine that was given LIBVIRT_LXC_NAME with
`--env`: `run_interactive` then opens a terminal of the guest's kernel (`init-common.c:1316`,
after 1458). In `service`, a context whose define or undefine met
another one's is exempt (`met`), for the same reason as in `client`; starting and stopping
at the same time are not exempt. `ModulesLoad` excepts a kernel of another release than its
modules and a packing `init-qemu` was not built to read. `live` has no stderr output and a device that can
take all input; section 6 says why.

## 4. Fairness

- The main loop of the client dispatches every source that stays ready, so each callback
  of the host end is weakly fair (`HostFairness`); attach, detach, the user's input and
  stream failures are not. The WAIT timer is a GLib timeout and runs out.
- The guest's loop handles every descriptor poll reports in each iteration, so each
  handler is weakly fair (`GuestFairness`). Nothing is asked of the application, except
  in `ExitingSpec`, that it and its background process end: `ExitEndsSession` is about
  applications that do.
- In `SandboxRun` a client's own steps of start and stop and its 2 s timer are weakly
  fair. Guest, consoles, the other client and failures are not.
- `ServiceRun` and `HandOver` state no fairness: a user need not make another call, and a
  boot may end at any step.

## 5. Proofs

The theorems below are proved with TLAPS, for every value of the constants that the
named ASSUMEs of the modules allow: sizes of devices, pipes and buffers, limits, numbers
of messages, sessions, clients, contexts and calls, and every combination of failures.
TLC evaluates the ASSUMEs in the runs of section 3. One says more than types: in `SandboxRun` no client is called `None` and
no exit status is called like a state of the model, for both kinds of value share a variable.

| module | theorem | property | inductive invariant |
|---|---|---|---|
| `ConsoleRpcProofs` | `TypeCorrect` | `TypeOK` | `HostInv` |
| | `AwaitsWhatItCanTake` | `AwaitsOnlyWhatItCanTake` | |
| | `QueuesStayBounded` | `QueuesBounded` | |
| | `QuitFollowsOutput` | `QuitAfterDrained` | |
| | `NoLostWakeup` | `NeverStranded` | with `HostInv` |
| | `HandshakeBytesFirst` | `DataOnlyAfterSync`, if `MaxAttach = 1` | `FirstSession` |
| `GuestInitProofs` | `TypeCorrect` | `TypeOK` | `GuestInv` |
| | `OutputIsConserved` | `OutputConserved` | |
| | `ExitComesLast` | `ExitIsLast` | |
| | `PacketsAfterSync` | `SyncThenPackets` | |
| `ConsoleRawProofs` | `TypeCorrect` | `TypeOK` | `RawInv` |
| | `BytesConserved` | `StreamForwards` | |
| | `BytesOnTheirWay` | `StreamNeverStranded` | |
| | `ClosedWhileAttached` | `StreamClosesOnce` (a step) | |
| | `QuietWhenDetached` | `DetachedIsQuiet` (a step) | |
| `SandboxRunProofs` | `TypeCorrect` | `TypeOK` | `RunInv` |
| | `OwnFilesBoot` | `OwnFilesOnly` | |
| | `ApplicationsCode` | `ExitCodeKept` | |
| | `NothingLeftBehind` | `CleanExit` (a step) | |
| `ServiceRunProofs` | `TypeCorrect` | `TypeOK` | `ServiceInv` |
| | `DefinitionStaysIntact` | `DefinitionIntact` | |
| | `GuestBootsDefinition` | `BootsWhatWasDefined` | |
| | `TrueUndefineLeavesNothing` | `UndefineSaysTrue` (a step) | |
| `RpcSessionProofs` | `InputReachesApplication` | `InputInOnePlace` | `SessionInv` |
| | `EndsAgree` | `HandshakeAgrees` | with `Understood` |
| | `OutputReachesUser` | `OutputInOnePlace` | `OnPipes` |
| | `PromiseIsKept` | `KeepsPromise` (the refinement) | `Kept` |
| `HandOverProofs` | `FindsDevices` | `BootFindsDevices` | `Base` |
| | `ConsolesAreMet` | `ConsolesMeet` | with `Loaded`, `Consoles` |
| | `TagsLeadToDisks` | `TagsFindDisks` | with `Tags` |
| | `LoadsModules` | `ModulesLoad` | with `ModulesRead` |
| | `MountsAreAsAsked` | `MountsAsAsked` | with `MountsInv`, `Remembered` |
| | `RoundTripIsLossless` | `RoundTrip` | with `Loaded`, `Worded` |
| | `EnvironmentIsAsAsked` | `EnvAsAsked` | these and `EnvInv` |
| | `AddressesAreCommanded` | `AddressesCommanded` | with `Loaded`, `Interfaces` |
| | `TypesAreKept` | `TypeOK` | with `Loaded`, `Counted`, `Tags`, `MountsInv`, `Targeted` |

Each proof has one lemma per action and part of the invariant; where many actions do
the same to a part, the lemmas first say which of a few kinds of step an action is.
TLC checked every inductive invariant too, those of `HandOverProofs` on a smaller instance of
`handover` (4 mounts, 2 includes, 4 networks), for a mount's type enumerates tables of includes.

**Hypotheses.** The theorems of `RpcSessionProofs` and `HandOverProofs` have hypotheses on
the constants beyond the ASSUMEs; each is needed, and the runs `session` and `handover` have
constants that satisfy them.

| theorem | hypothesis | because otherwise |
|---|---|---|
| the four of the session | `MaxAttach = 1` | sources of one session fire in the next (section 6) |
| `EndsAgree` | `~RunFails`, `~HostHangs` | a guest whose application cannot start powers off and reports no exit; a device that hangs up ends the guest while the host waits |
| `OutputReachesUser`, `PromiseIsKept` | `WantTtys = {FALSE}` | on a tty the end of the input closes the master, and what the application has written to it is lost (`init-common.c:1080`) |
| `OutputReachesUser` | `~TermFails` | a terminal that cannot be restored keeps a closed console attached: the detach fails and changes nothing |
| `PromiseIsKept` | `~Tty` | the escape key closes the console, without an error, before the exit |
| | `~HasOrphan` | `waitpid(-1)` overwrites the status with a background process's (`init-common.c:956`) |
| all of `HandOverProofs` | `ModularTrees` | every kernel's tree has a module of mkinitrd's list: with an empty list `init-qemu` loads nothing, so a kernel of another release than the tree goes unnoticed, and its devices are not there |
| `LoadsModules` | `NeedsInOrder` | the modules of the kernel depend only on what mkinitrd lists before them: the list is fixed in the program (`builder-machine.c:168-194`), `modules.dep` is not read |

`HandOverOptions` states the last two as an ASSUME, so TLC evaluates them. `PowersAssumption`
(`SandboxConfig`) is arithmetic: 2^n is positive and grows with n. The prover does not calculate
with powers and cannot be given the induction.

**Host end.** `QueuesBounded` is not inductive: a queue at the limit plus one packet less a
byte could receive another, if one were awaited. `HostInv` adds that output is awaited
only with room in both queues, that nothing under way is longer than a packet, and that
queues are empty outside RUNNING and STOPPING, which with `exited` gives
`QuitAfterDrained`. `NeverStranded` needs it too: entering STOPPING needs a non-empty
queue, or the callback goes on to FINISHED at once. `DataOnlyAfterSync` is false when a
console is attached twice (section 6); for one session `FirstSession` says that no forgotten source is left
while a session lasts, and that `tx` holds a single handshake byte until SYNC is out.

**Guest end.** What the properties speak of is everything sent so far with what is left
of `tx`. `GuestInv` says what `tx` can be (SYNC, a packet, the second half of one), that
on pipes it is empty whenever the loop may assign it without asking (`Handshaking`, `Endings`),
and that what left are whole packets, the last of them perhaps half out, but for those whose rest
EXIT replaced on a tty (`Framed`). `ExitIsLast` needs that, while only the exit of the application
is missing, nothing is being sent which its report could replace; `OutputConserved` on a tty needs that the output lost with the master is the end
of what was written.

**Raw console.** `StreamForwards` needs that a stream console has no forgotten source
of the pty's kind, because that one writes the buffer of the other direction, and that
detach has emptied the buffers the next session starts from (`Cleared`, `Forgotten`).

**Clients and services.** `OwnFilesOnly` says nothing of what a client has written
before it starts the domain. `Progress` does, for each of its steps: the files written so
far are there and its own, those cleaned up so far are gone. It holds for clients that
no other one disturbed, which by `AloneInRun` are alone. The service has the same for the
steps of define and undefine; in addition the directories form a tree (`Tree`), which is why
an undefine that got through has removed every file, and no call is under way while a
definition is whole (`Quiet`).

**Traffic.** `DataOf` flattens a sequence of sequences, which the library defines by a
recursive function. The induction theorems of the prover's library take an operator and
cannot be used with these provers, so `RpcTrafficProofs` proves induction over the natural
numbers for *sets* (`InductionOfSet`, from the well-foundedness of `<`) and with it what
`FlattenSeq` makes of a longer sequence; all else about `DataOf`, `CutOnlyByExit` and
`IsPrefix` follows from that without induction.

**Sessions.** Each end is a step of `HostNext` or `GuestNext` that leaves the other's
variables alone, and so a step of the end at an open console, whose environment sends what
the other end just did. `RpcSessionProofs` therefore instantiates the two proof modules
(`H == INSTANCE ConsoleRpcProofs WITH ...`, `G == INSTANCE GuestInitProofs WITH ...`) and takes
`HostInv`, `FirstSession` and the guest's invariant from them; what has to be proved is what is
*between* the ends. `HandshakeAgrees` is not inductive: it says nothing of wait bytes and echoes still under
way. `Understood` does, by what the guest expects next and what the row of units on its way
leaves it expecting (`Orderly`, `Ends`), and `HostFirst` and `GuestFirst` say in which states of one
end the other may be in which. The input is one sequence, read, in the pipe, in the guest's
buffer, in packets under way or in `tx` (`InputInv`), as long as somebody can read it; the
output is the same the other way (`OutputInv`). For the refinement `Told` adds what an EXIT under way
and the console's signals say of the application. Then every step of the two ends is one of
a few kinds of `SandboxIO`'s steps or a stutter.

**Hand-over.** `Base` says in which stage what has been built and handed over, and that a machine
past its modules has the drivers it wants. With it, each property is about two countings of one
list. `Chosen(s, K)` is the sequence of the elements of `s` that are in `K`; what the code
counts while it goes through a list is the length of what is chosen of a beginning
(`ChosenTo`), what it numbers is the whole choice, and `ChosenPlace` says that the two agree:
the i-th element, if chosen, stands behind those chosen before it. `LineNames` (mounts.cfg),
`DiskFound` (disks.cfg), `NetworkFound` (interfaces) and `NamesInOrder` (modules) are its
uses. `MountsInv` says the same of the mounts made so far. `RoundTrips` puts together that lists
within the limit, hash tables in any order and sizes below half a gint's range survive
saving and loading. `Remembered` relates each mount of the configuration to the option it was
made of: same type, target and source, and the size as a gint makes it of the number that was
given, which is that number if it fits (`SizeKept`). With it `MountsAsAsked` speaks of the command
line. `Consoles` says that the environment tells a container from a machine (`Tells`) from
`LoadIt` on, as long as `--env` did not set that variable. The proof of
`EnvironmentIsAsAsked` showed the property as first stated to be false: it had exempted only HOME from
`--env`, while `change_user` sets USER, USERNAME and LOGNAME as well (`init-common.c:379-382`).
The options of the run had no such variable; they have now.

The parameters of a network option are folded with the library's `FoldLeft`, a recursive
function on sets of indices; `FoldIs` proves by `InductionOfSet` that there is such a
function, and what it is, so what the parser accepts is proved for parameter lists of any length.

**Only model-checked.** Liveness (`HandshakeCompletes`, `ExitEndsSession`,
`ClosedConsoleEnds`): the prover handles neither fairness nor ENABLED. Every
invariant and every property of steps that a passing run checks is proved, under the hypotheses
above. Of a session with a tty the theorems cover input and handshake; its output is covered at the
guest's end only (`OutputIsConserved`).

## 6. What the code does not keep

Four statements of the repository are refuted by runs and are listed as findings:

- `stderr_stuck`: stderr is written with the offset as its length, so never
  (`console-rpc.c:1044`), and the session never finishes after output on stderr.
- `quit_over_packet`: STOPPING and FINISHED overwrite a packet half sent (`console-rpc.c:447`).
- `log_stalls`: the raw console's write callback clears the wrong source (`console-raw.c:516`).
  After a complete write `update_events` drops the pointer to the destroyed source (309-314) and
  the log goes on; after a partial one it finds it and makes no other, and what is left of the
  buffer, and all that is read until it is full, is never written.
- `start_fails`: clean-up dereferences a NULL error (`builder.c:743`).

The following were refuted by TLC while the model was written; their definitions are
kept, with the statement they come from, and are checked by no run. To reproduce one,
put the definition into the named configuration with the changes given:

| definition | configuration | what happens |
|---|---|---|
| `QueueLimit` (ConsoleRpcOpen) | `ConsoleRpcOpen.cfg` | "No more than GVIR_SANDBOX_CONSOLE_MAX_QUEUED_DATA" (`console-rpc.c:132`): exceeded by up to a packet less a byte |
| `DataOnlyAfterSync` | the same, `MaxAttach = 2` | a stdin source of the first session fires in the second before its handshake (`console-rpc.c:1174`) |
| `ClosedMeansDetached` | the same | `closed` is said although `tcsetattr` failed and the console stays attached (`console-rpc.c:609`) |
| `FinishedCloses` (RpcSession) | `RpcLive.cfg`, `Cap = 2`, `StdinTotal = 2` | the guest stops reading the console after a failed write of input, and QUIT cannot be sent (`init-common.c:1213`) |
| `EndOfInputShutsDown` | `RpcLive.cfg`, `OutTotal = 0`, `HasOrphan = FALSE` | after the end of the input the guest reads nothing more and never sees QUIT (`init-common.c:1098`; `docs/architecture.txt:172-176`) |
| `PendingOutputKept` (GuestInitOpen) | `GuestInitOpen.cfg` | on a tty the end of the input closes the output as well (`init-common.c:1080`) |
| `RefusedDefineHarmless` (ServiceRun) | `ServiceRun.cfg` | a define of a name in use has overwritten the boot files and the configuration by the time libvirt refuses it, and then unlinks `sandbox.cfg` (`context-service.c:144-163`): the service that has the name boots no more |
| `RamSizesKept` (HandOver) | `HandOver.cfg` | "SRC is interpreted as specifying the size of the RAM disk in bytes", with suffixes up to GiB (`bin/virt-sandbox.c:451-454`): the size is computed in a gint (`config.c:1587`), so `ram:/tmp=2G` is another size and `4G` is 0. With a gint of 4 bits, 8 bytes reach the guest as 248 |
| `TemporaryBinds` (HandOver) | `HandOver.cfg` | "If SRC is the empty string, then a temporary (empty) directory is created on the host" (`bin/virt-sandbox.c:430-434`): no code looks at the source (`config.c:1575`), the domain is given the empty path, and mounts that if libvirt takes it |
| `AddressesSet` (HandOver) | `HandOver.cfg` | "Configure the network interface with the static IPv4 or IPv6 address" (`bin/virt-sandbox.c:499`): nobody asks how `ip` and `dhclient` ended (`init-common.c:184-186`, 224-235, 265-267), and the application starts without its address |

Seen while reading, without a run: `docs/architecture.txt:150-176` describes an older
protocol (escape `\9`, a magic string) that is not in the code. The man page's
`--include` copies files into the sandbox (`bin/virt-sandbox.c:431-434`, 465-468), and so does the
comment of `gvir_sandbox_config_mount_add_include` (`config-mount.c:173`); the includes are saved
and loaded (`RoundTrip` covers that) and nothing on either side copies them, so no property speaks
of included files in the guest. `mount_entry` passes the decimal modes 755 and 644
(`init-qemu.c:203`). A tmpfs under 1 KiB is given `size=0k`, which the kernel reads as no
limit (`builder-machine.c:326`). An application killed by a signal gives exit code 0
(`bin/virt-sandbox.c:60`).

Of the service context, which no program of the repository uses, the model shows more than
its properties say, and nothing in the repository promises otherwise:

- `undefine` removes the directories before the builder removes the files in them
  (`context-service.c:226-250`), so the first undefine of a service always returns FALSE and
  leaves directories. A second one removes `config`, and a container's state directory too;
  a machine's keeps `vmlinuz` and `initrd.img` for good.
- Because `copykern` does not overwrite, a service can then not be defined again on a QEMU
  host until somebody deletes `vmlinuz`.
- The domain is created before `sandbox.cfg` is saved (151-158): a define that fails or is
  killed there leaves a domain that can be started and whose guest finds no configuration.
- When the list of domains cannot be fetched, undefine returns TRUE with an error set and
  has done nothing (213); it also returns TRUE with an error set when `.libs` was missing.
- `stop` drops its pointer although stopping failed (323): the domain runs on, and only
  `attach` finds it again.

A mount over a directory above `/etc/libvirt-sandbox/scratch` hides the configuration and
`init-common` itself, and the guest ends (`init-qemu.c:381`; "no exec" in `HandOver`).

## 7. What is not modelled

Service configuration (accessors and a key file of three strings), the console base class,
and the library's start-up. Of the domain: memory, CPU, clock, features, kernel command
line, interface filters, MAC addresses and image formats, which are passed on without a
decision of this code. (Formats and MAC addresses are also in `sandbox.cfg`; filters are not saved,
`config.c:2592-2676`, and no guest needs them.) Of the guest: the kernel file systems, `sync` and unmounting at the
end, debug and strace arguments. Numeric user ids, and the temporary directory an initrd is
gathered in. The letters of devices past `z`, which need 27 disks. The memory of the
environment table, which `save_config_env` frees while it is in use (`config.c:2503`): a
second save of one configuration reads freed memory, and neither `virt-sandbox` nor the model
saves twice. GLib, libvirt, QEMU and the kernel are environments, modelled by what the code
relies on: FIFO streams, level-triggered sources that a callback's FALSE destroys, disks
named in the domain's order, a name that one domain has.

## 8. Plan

Order of the modules, most important behaviour first:

1. done: `RpcChannel`, `ConsoleRpc`, `GuestInit`, `RpcSession` against `SandboxIO`;
   type correctness and the safety of the host end proved.
2. done: `ConsoleRaw`, `SandboxRun`, `SandboxConfig`, `HandOver`.
3. done: `ServiceRun`; the contents of `.libs` in `SandboxRun` (a copy cut short); both
   builders and the initrd in `Builder`; containers, modules, consoles and security labels
   in `HandOver`; the guest's loop with pipes and tty in one run.

4. done: the safety of the guest end, of the raw console, of clients and of services
   proved (section 5).
5. done: the session proved from the proofs of its ends, its refinement of `SandboxIO`
   included; the hand-over from options to a running guest proved.

What is left: the service configuration and the console base class as modules, if they ever
decide anything; a session of several attachments, whose theorems need the sources of an earlier
session in the invariant and hold only if detach destroys them; and the output of a session on
a tty, of which only a beginning arrives.
