------------------------------ MODULE HandOver -------------------------------
(***************************************************************************)
(* How a configuration reaches the guest of a sandbox: virt-sandbox builds it *)
(* from its options, in their order (bin/virt-sandbox.c); the start saves it *)
(* and has a builder write disks.cfg, mounts.cfg and the domain (Builder);   *)
(* libvirt-sandbox-init-qemu loads the drivers and mounts the root and the   *)
(* rest by the names it finds in mounts.cfg, or libvirt mounts them and runs *)
(* libvirt-sandbox-init-lxc; and init-common loads the configuration and sets *)
(* up shell, disk tags, environment, networks and the application's console. *)
(*                                                                          *)
(* Host and guest agree on a device only by its name, and every name is     *)
(* counted twice, by two loops over the same lists.                         *)
(***************************************************************************)
EXTENDS Builder

CONSTANTS
    Mounts,       \* the mounts an option may ask for
    Disks,        \* [tag, source]
    EnvOptions,   \* <<key, value>>
    Includes,     \* [guest, host]
    Networks,     \* parameter lists
    Clients,      \* [here, options]: a host and the options that set one value each
    Modes,        \* the --security options, <<mode, label>>
    MaxOptions,   \* the bound on the options given
    Unpackers,    \* the suffixes init-qemu was built to unpack, of "xz" and "gz"
    ConfigDir     \* SANDBOXCONFIGDIR, where a guest has its configuration

ASSUME HandOverAssumption == MaxOptions \in Nat /\ Unpackers \subseteq {"xz", "gz"}

(* The values virt-sandbox can parse an option into. *)
ASSUME OptionsAssumption ==
    /\ \A m \in Mounts :
          /\ m = [type |-> m.type, target |-> m.target, source |-> m.source, usage |-> m.usage,
                  includes |-> NoIncludes]
          /\ m.type \in {"host-bind", "host-image", "guest-bind", "ram"}
          /\ m.target \in Seq(Range(m.target)) /\ m.usage \in Int
    /\ \A i \in Includes : i.guest \in Seq(Range(i.guest))
    /\ \A params \in Networks : params \in Seq(Range(params))
    /\ \A c \in Clients : c.options.command \in Seq(Range(c.options.command))

VARIABLES
    stage,      \* the options virt-sandbox is reading, then the guest's own phase
    here,       \* the host: [uri, asroot, kvm, secmodels, release]
    given,      \* the number of options taken
    config,     \* the host's GVirSandboxConfig
    asked,      \* history: the --mount options as they were given
    file,       \* sandbox.cfg
    disksCfg,   \* disks.cfg
    mountsCfg,  \* mounts.cfg
    domain,     \* libvirt's domain
    drivers,    \* the drivers a machine's kernel has
    loaded,     \* the guest's GVirSandboxConfig
    line,       \* the line, or the network, the guest is at
    root,       \* what is mounted at the root
    mounted,    \* the other mounts, in order
    links,      \* /dev/disk/by-tag
    environ,    \* the environment of init-common, then of the application
    ip,         \* the dhclient and ip commands run, in order
    failed,     \* history: which of them ended with an error (their places in ip)
    ttys        \* the ports shell and application have open: purpose -> port

host == <<here, given, config, asked>>
handed == <<file, disksCfg, mountsCfg, domain>>
guest == <<drivers, loaded, line, root, mounted, links, environ, ip, failed, ttys>>
vars == <<stage, host, handed, guest>>

OptionStages == <<"envs", "disks", "mounts", "includes", "networks", "security", "start">>
GuestStages == {"modules", "container", "root", "mount", "load", "tags", "env", "net", "running"}
Failures == {"no device", "no source"}       \* of a mount
Ended == Failures \union {"refused", "no init", "no module", "no exec", "tag taken",
                          "no network", "no console"}

Nothing == "nothing"

-----------------------------------------------------------------------------
(* The options. *)

InStage(s) == stage = s /\ given < MaxOptions

Takes(c) ==
    /\ given' = given + 1
    /\ config' = c
    /\ UNCHANGED <<stage, here, handed, guest>>

Refuses ==
    /\ stage' = "refused"
    /\ UNCHANGED <<host, handed, guest>>

NextOptions ==
    \E i \in 1 .. Len(OptionStages) - 1 :
        /\ stage = OptionStages[i]
        /\ stage' = OptionStages[i + 1]
        /\ UNCHANGED <<host, handed, guest>>

EnvOption ==
    /\ InStage("envs")
    /\ \E e \in EnvOptions : Takes(AddEnv(config, e[1], e[2]))
    /\ UNCHANGED asked

DiskOption ==
    /\ InStage("disks")
    /\ \E d \in Disks : Takes(AddDisk(config, d))
    /\ UNCHANGED asked

MountOption ==
    /\ InStage("mounts")
    /\ \E m \in Mounts :
          /\ Takes(AddMount(config, [m EXCEPT !.usage = OptionUsage(@)]))
          /\ asked' = Append(asked, m)

IncludeOption ==
    /\ InStage("includes")
    /\ \E i \in Includes :
          IF Under(config, i.guest) = {} THEN Refuses
          ELSE Takes(AddHostInclude(config, i.guest, i.host)) /\ UNCHANGED asked

NetworkOption ==
    /\ InStage("networks")
    /\ \E params \in Networks :
          IF ParseNetwork(params).bad THEN Refuses
          ELSE Takes(AddNetwork(config, ParseNetwork(params).net)) /\ UNCHANGED asked

(* --security is given once; getcon() needs SELinux. *)
SecurityOption ==
    /\ InStage("security")
    /\ \E m \in Modes :
          IF m[1] = "inherit" /\ "selinux" \notin here.secmodels THEN Refuses
          ELSE /\ stage' = "start" /\ given' = given + 1
               /\ config' = SetSecurityOpts(config, m[1], m[2])
               /\ UNCHANGED <<here, asked, handed, guest>>

(* An option its parser cannot split, or of an unknown type. *)
MalformedOption ==
    /\ \E s \in {"envs", "disks", "mounts", "networks", "security"} : InStage(s)
    /\ Refuses

-----------------------------------------------------------------------------
(* The start of the sandbox. *)

Driver == Builder(here.uri)

CannotBuild ==
    \/ ~Supported(here) \/ Driver = NoValue
    \/ ~BootFilesExist(config, Driver, here)

(* "host-bind:/tmp=" *)
NoPath == ""

(* What the builders pass on unlooked at and libvirt may refuse: an empty path, a *)
(* size that is negative as a signed number.                                      *)
MayBeRefused ==
    \E m \in Range(config.mounts) :
        \/ m.type = "host-bind" /\ m.source = NoPath
        \/ m.type = "ram" /\ m.usage >= 2^(2 * Width - 1)

(* Files and domain are written once, from one configuration: save_config_env  *)
(* frees the strings of the table it has saved, so it could not be saved again. *)
(* SandboxRun has the steps in between and their failures.                      *)
StartSandbox ==
    /\ stage = "start"
    /\ IF CannotBuild THEN Refuses
       ELSE \/ MayBeRefused /\ Refuses
            \/ \E d \in Domains(config, Driver, here) :
                  IF ~SeclabelTaken(d.seclabel) THEN Refuses
                  ELSE /\ stage' = IF Driver = "machine" THEN "modules" ELSE "container"
                       /\ file' = SaveConfig(config)
                       /\ disksCfg' = DisksCfg(config, Driver)
                       /\ mountsCfg' = MountsCfg(config, Driver)
                       /\ domain' = d
                       /\ UNCHANGED <<host, guest>>

-----------------------------------------------------------------------------
(* What the client attaches to, by the URI it connected with. *)

OnLxc == here.uri = "lxc:///"

LogConsole == IF OnLxc THEN <<"console", 0>> ELSE <<"serial", 0>>
ShellConsole == IF OnLxc THEN <<"console", 1>> ELSE <<"serial", 1>>

(* Mutant of AppConsole: the shell is forgotten. *)
AppConsoleNoShell == <<"console", 1>>

AppConsole == IF OnLxc /\ config.shell THEN <<"console", 2>> ELSE <<"console", 1>>

-----------------------------------------------------------------------------
(* libvirt-sandbox-init-qemu. *)

Readable(suffix) == suffix \in {"ko"} \union Unpackers

Builtin(release) == DOMAIN Needs \ Trees[release].modules

(* insmod of the n-th module of the list: it can be unpacked, is of this kernel, *)
(* and what it depends on is there.  If not, the guest is powered off.            *)
Loads(image, n) ==
    /\ Readable(image.suffix)
    /\ image.release = domain.kernel
    /\ Needs[image.modules[n]] \subseteq
          Builtin(domain.kernel) \union {image.modules[k] : k \in 1 .. n - 1}

(* A guest without an init in its initrd panics and is destroyed. *)
InsertModules ==
    /\ stage = "modules"
    /\ LET image == domain.initrd
       IN  IF image = EmptyImage THEN stage' = "no init" /\ UNCHANGED drivers
           ELSE IF \A n \in DOMAIN image.modules : Loads(image, n)
           THEN /\ stage' = "root"
                /\ drivers' = Builtin(domain.kernel) \union Range(image.modules)
           ELSE stage' = "no module" /\ UNCHANGED drivers
    /\ UNCHANGED <<host, handed, loaded, line, root, mounted, links, environ, ip, failed, ttys>>

(* The drivers a machine reaches a device by. *)
DriversOf(dev) ==
    {"virtio_pci"} \union
        CASE dev[1] \in {"sandbox:root", "sandbox:mount"} -> {"9p", "9pnet_virtio"}
          [] dev[1] = "vd" -> {"virtio_blk"}
          [] dev[1] = "eth" -> {"virtio_net"}
          [] dev[1] = "console" -> {"virtio_console"}

Reached(dev) == Driver = "machine" => DriversOf(dev) \subseteq drivers

Found(dev) ==
    IF Reached(dev) THEN {<<"host", d.source>> : d \in {x \in domain.devices : x.dev = dev}}
    ELSE {}

IsDevice(source) == source[1] \in {"sandbox:mount", "vd", "sandbox:root"}

(* What mount() finds at a source: the device of that name, which QEMU and   *)
(* the guest's kernel number like the domain, or a path or a tmpfs.  A device *)
(* the domain has not got and a path the guest has not got power it off.      *)
Mounting(source) ==
    IF IsDevice(source)
    THEN IF Found(source) = {} \/ (source[1] = "vd" /\ "ext4" \notin drivers)
         THEN {<<"no device">>} ELSE Found(source)
    ELSE IF source[1] = "guest" THEN {source, <<"no source">>}
    ELSE {source}

RootLines == {i \in DOMAIN mountsCfg : mountsCfg[i].target = Root}

RootSource ==
    IF RootLines = {} THEN <<"sandbox:root">>
    ELSE mountsCfg[CHOOSE i \in RootLines : \A k \in RootLines : i <= k].source

MountRoot ==
    /\ stage = "root"
    /\ \E what \in Mounting(RootSource) :
          IF what[1] \in Failures THEN stage' = what[1] /\ UNCHANGED root
          ELSE stage' = "mount" /\ root' = what
    /\ UNCHANGED <<host, handed, drivers, loaded, line, mounted, links, environ, ip, failed, ttys>>

SkipsLine(l) == l.target = Root

MountLine ==
    /\ stage = "mount" /\ line <= Len(mountsCfg)
    /\ line' = line + 1
    /\ IF SkipsLine(mountsCfg[line])
       THEN UNCHANGED <<stage, mounted>>
       ELSE \E what \in Mounting(mountsCfg[line].source) :
               IF what[1] \in Failures THEN stage' = what[1] /\ UNCHANGED mounted
               ELSE /\ UNCHANGED stage
                    /\ mounted' = Append(mounted, [target |-> mountsCfg[line].target,
                                                   what |-> what])
    /\ UNCHANGED <<host, handed, drivers, loaded, root, links, environ, ip, failed, ttys>>

(* libvirt's own mounts for a container: the first file system for the root, then *)
(* the others in order.  The path of a guest-bind may not be there.                *)
EnterContainer ==
    /\ stage = "container"
    /\ LET fs == domain.filesystems
           IsRoot(f) == f.target = Root
           NotRoot(f) == f.target # Root
           roots == Select(fs, IsRoot)
       IN  \/ /\ roots # <<>>
              /\ stage' = "mount" /\ root' = roots[1].what
              /\ mounted' = Select(fs, NotRoot)
           \/ /\ \E i \in DOMAIN fs : fs[i].what[1] = "guest"
              /\ stage' = "no source" /\ UNCHANGED <<root, mounted>>
    /\ UNCHANGED <<host, handed, drivers, loaded, line, links, environ, ip, failed, ttys>>

(* A mount over a directory above ConfigDir hides init-common, which is there. *)
ConfigHidden ==
    \E i \in DOMAIN mounted : IsPrefix(mounted[i].target, ConfigDir)

(* Both init programs hand over to the init-common of the configuration. *)
ExecCommon ==
    /\ stage = "mount" /\ line > Len(mountsCfg)
    /\ stage' = IF ConfigHidden THEN "no exec" ELSE "load"
    /\ UNCHANGED <<host, handed, guest>>

-----------------------------------------------------------------------------
(* libvirt-sandbox-init-common. *)

(* The port a node of the guest is.  A machine's tty2 and tty3 are terminals of *)
(* its own kernel, which no port of the domain leads to.                         *)
PortOf(node) ==
    CASE node = "ttyS1" -> <<"serial", 1>> [] node = "hvc0" -> <<"console", 1>>
      [] node \in {"tty2", "tty3"} /\ Driver = "machine" -> <<"terminal", node>>
      [] node = "tty2" /\ Driver = "container" -> <<"console", 1>>
      [] node = "tty3" /\ Driver = "container" -> <<"console", 2>>

(* A container has no /dev/ttyS1. *)
ShellNode == IF Driver = "machine" THEN "ttyS1" ELSE "tty2"

(* libvirt sets this variable for the init of a container. *)
LxcName == "LIBVIRT_LXC_NAME"

AppNode ==
    IF LxcName \notin DOMAIN environ THEN "hvc0" ELSE IF loaded.shell THEN "tty3" ELSE "tty2"

(* main loads the configuration, sets a PATH of its own and forks a shell. *)
LoadIt ==
    /\ stage = "load"
    /\ stage' = "tags" /\ line' = 1
    /\ loaded' = LoadConfig(file)
    /\ environ' = [k \in {"PATH"} \union (IF Driver = "container" THEN {LxcName} ELSE {}) |->
                       IF k = "PATH" THEN "default" ELSE "sandbox"]
    /\ ttys' = [p \in IF LoadConfig(file).shell THEN {"shell"} ELSE {} |-> PortOf(ShellNode)]
    /\ UNCHANGED <<host, handed, drivers, root, mounted, links, ip, failed>>

(* Mutant of TagFree: a link is replaced. *)
TagFreeAlways(tag) == TRUE

(* symlink() does not replace a link that exists. *)
TagFree(tag) == tag \notin {l.tag : l \in links}

SetupDiskTag ==
    /\ stage = "tags" /\ line <= Len(disksCfg)
    /\ line' = line + 1
    /\ IF TagFree(disksCfg[line].tag)
       THEN links' = links \union {disksCfg[line]} /\ UNCHANGED stage
       ELSE stage' = "tag taken" /\ UNCHANGED links
    /\ UNCHANGED <<host, handed, drivers, loaded, root, mounted, environ, ip, failed, ttys>>

SetupTagsDone ==
    /\ stage = "tags" /\ line > Len(disksCfg)
    /\ stage' = "env" /\ line' = 1
    /\ UNCHANGED <<host, handed, drivers, loaded, root, mounted, links, environ, ip, failed, ttys>>

(* Mutant of Setenv: what is set already is left alone. *)
SetenvIfUnset(table) == environ @@ table

(* setenv() with overwrite, for each entry. *)
Setenv(table) ==
    [k \in DOMAIN table \union DOMAIN environ |->
        IF k \in DOMAIN table THEN table[k] ELSE environ[k]]

SetupCustomEnv ==
    /\ stage = "env"
    /\ stage' = "net"
    /\ environ' = Setenv(loaded.envs)
    /\ UNCHANGED <<host, handed, drivers, loaded, line, root, mounted, links, ip, failed, ttys>>

Commanded(dev, what, list) == [i \in DOMAIN list |-> [dev |-> dev, cmd |-> what, arg |-> list[i]]]

IpCommands(net, dev) ==
    IF net.dhcp THEN <<[dev |-> dev, cmd |-> "dhclient", arg |-> NoValue]>>
    ELSE Commanded(dev, "address", net.addresses) \o Commanded(dev, "route", net.routes)

(* The commands of an interface are run one by one, whether or not it is there. *)
(* The guest powers off when one cannot be run, for want of the program; how a   *)
(* command ends nobody asks.  "address" is two of them, the second sets the link *)
(* up.                                                                            *)
SetupNetworkDevice ==
    /\ stage = "net" /\ line <= Len(loaded.networks)
    /\ line' = line + 1
    /\ LET commands == IpCommands(loaded.networks[line], line - 1)
       IN  \E n \in 0 .. Len(commands) :
              LET added == Len(ip) + 1 .. Len(ip) + n
              IN  /\ ip' = ip \o SubSeq(commands, 1, n)
                  /\ \E bad \in IF Found(<<"eth", line - 1>>) = {} THEN {added}
                                ELSE SUBSET added :
                        failed' = failed \union bad
                  /\ IF n = Len(commands) THEN UNCHANGED stage ELSE stage' = "no network"
    /\ UNCHANGED <<host, handed, drivers, loaded, root, mounted, links, environ, ttys>>

Identity(user) ==
    IF user.name = "root" THEN <<>>
    ELSE [k \in {"USER", "USERNAME", "LOGNAME", "HOME"} |->
             IF k = "HOME" THEN user.home ELSE user.name]

(* The console is opened; the child: change_user, then exec.  A kernel built   *)
(* without terminals of its own has no such node.                               *)
RunInteractive ==
    /\ stage = "net" /\ line > Len(loaded.networks)
    /\ LET port == PortOf(AppNode)
           there == port \in domain.ports /\ Reached(port)
       IN  \/ /\ there \/ port[1] = "terminal"
              /\ stage' = "running"
              /\ environ' = Setenv(Identity(loaded.user))
              /\ ttys' = [p \in DOMAIN ttys \union {"app"} |-> IF p = "app" THEN port ELSE ttys[p]]
           \/ ~there /\ stage' = "no console" /\ UNCHANGED <<environ, ttys>>
    /\ UNCHANGED <<host, handed, drivers, loaded, line, root, mounted, links, ip, failed>>

-----------------------------------------------------------------------------
Init ==
    /\ stage = OptionStages[1] /\ given = 0
    /\ \E c \in Clients : here = c.here /\ config = NewConfig(c.options)
    /\ asked = <<>>
    /\ file = Nothing /\ disksCfg = <<>> /\ mountsCfg = <<>> /\ domain = Nothing
    /\ drivers = {} /\ ttys = <<>> /\ loaded = Nothing /\ line = 1 /\ root = <<Nothing>>
    /\ mounted = <<>> /\ links = {} /\ environ = <<>>
    /\ ip = <<>> /\ failed = {}

Next ==
    \/ NextOptions \/ EnvOption \/ DiskOption \/ MountOption \/ IncludeOption
    \/ NetworkOption \/ SecurityOption \/ MalformedOption
    \/ StartSandbox
    \/ InsertModules \/ MountRoot \/ MountLine \/ EnterContainer \/ ExecCommon
    \/ LoadIt \/ SetupDiskTag \/ SetupTagsDone \/ SetupCustomEnv
    \/ SetupNetworkDevice \/ RunInteractive

Spec == Init /\ [][Next]_vars

-----------------------------------------------------------------------------
(* Properties. *)

(* Sizes stay guint64, every link is to a disk of the driver and every mount at a      *)
(* target the options named: add_mount_opts, setup_disk_tags, mount_entry.      *)
TypeOK ==
    /\ stage \in Range(OptionStages) \union GuestStages \union Ended
    /\ given \in 0 .. MaxOptions
    /\ line \in 1 .. MaxOptions + 1
    /\ \A i \in DOMAIN config.mounts : config.mounts[i].usage \in 0 .. 2^(2 * Width) - 1
    /\ \A l \in links : l.dev[1] = DiskPrefix(Driver)
    /\ {m.target : m \in Range(mounted)} \subseteq {m.target : m \in Mounts}

HasLoaded == stage \in {"tags", "env", "net", "running"}

(* The guest's init works from the configuration the host was asked for: what *)
(* load_config reads back is what save_config was given, as long as no list   *)
(* is longer than the loader looks for and no size exceeds its gint.          *)
RoundTrip == HasLoaded /\ FitsLimits(config) => loaded = config

(* What a --mount option promises to be found at its target: the bytes of a     *)
(* "ram" to the KiB.  Two promises are not kept and not part of this: a size that *)
(* is too large for a gint, and the temporary directory for an empty source        *)
(* (RamSizesKept and TemporaryBinds say them in full).                              *)
Gives(what, m) ==
    CASE m.type = "host-image" -> what = <<"host", m.source>>
      [] m.type = "host-bind" -> m.source # NoPath => what = <<"host", m.source>>
      [] m.type = "guest-bind" -> what = <<"guest", m.source>>
      [] m.type = "ram" ->
            /\ what[1] = "tmpfs"
            /\ m.usage \in 0 .. 2^(Width - 1) - 1 =>
                  what[2] * Kilo <= m.usage /\ m.usage < (what[2] + 1) * Kilo

At(target, list) == Select(list, LAMBDA m : m.target = target)

(* The root of the guest is what the first --mount at "/" promises, and the host's *)
(* root tree if there is none: the builder's decision to export that tree and the  *)
(* guest's own scan of mounts.cfg agree.  Once the guest runs init-common, what is  *)
(* on top at each other target is what the last --mount there promises, whichever  *)
(* driver runs it: no size is lost on its way through the configuration, the names  *)
(* counted by write_mount_cfg denote the devices counted by construct_devices, and  *)
(* libvirt is given the file systems of a container in the order asked for.          *)
MountsAsAsked ==
    /\ root # <<Nothing>> =>
          IF At(Root, asked) = <<>> THEN root = <<"host", config.root>>
          ELSE Gives(root, At(Root, asked)[1])
    /\ stage = "load" \/ HasLoaded =>
          \A target \in {m.target : m \in Range(asked)} \ {Root} :
              At(target, mounted) # <<>>
                  /\ Gives(Last(At(target, mounted)).what, Last(At(target, asked)))

(* The man page of --mount (bin/virt-sandbox.c:451): "If TYPE is ram, then SRC is  *)
(* interpreted as specifying the size of the RAM disk in bytes", with suffixes up to *)
(* GiB.  add_mount_opts computes it in a gint: from 2 GiB on it is another.           *)
RamSizesKept ==
    stage = "running" =>
        \A i \in DOMAIN asked :
            asked[i].type = "ram" /\ asked[i].target # Root =>
                \E k \in DOMAIN mounted :
                    /\ mounted[k].target = asked[i].target
                    /\ mounted[k].what = <<"tmpfs", asked[i].usage \div Kilo>>

(* The man page of --mount (bin/virt-sandbox.c:430): "If SRC is the empty string,   *)
(* then a temporary (empty) directory is created on the host before starting the    *)
(* sandbox".  No code looks at the source: the empty path is what gets mounted.       *)
TemporaryBinds ==
    stage = "running" =>
        \A k \in DOMAIN mounted : mounted[k].what # <<"host", NoPath>>

(* The guest never looks for a device its domain does not have. *)
BootFindsDevices == stage # "no device"

(* A machine whose initrd is of its own kernel and can be unpacked loads every    *)
(* module of the list, and has then the drivers of all its devices, built in or   *)
(* as modules: the conditions and the order of mkinitrd's list fit the devices of *)
(* construct_devices and what the modules depend on, missing files included.      *)
ModulesLoad ==
    /\ stage = "no module" =>
          ~Readable(domain.initrd.suffix) \/ domain.initrd.release # domain.kernel
    /\ drivers # {} => \A d \in domain.devices : Reached(d.dev)

(* The console the client takes for the application's is the one the application *)
(* has open, the shell's is the shell's, and neither is the log: the builders'    *)
(* order of consoles, the nodes init-common opens and the names the contexts use   *)
(* are three countings of one list, with and without a shell, for both drivers.    *)
(* run_interactive tells the drivers apart by a variable of its environment, which  *)
(* --env may set in a machine: that is excepted, by what was asked for.              *)
ConsolesMeet ==
    (Driver = "machine" => LxcName \notin DOMAIN config.envs) =>
        /\ stage # "no console"
        /\ stage = "running" =>
              /\ ttys["app"] = AppConsole
              /\ config.shell => ttys["shell"] = ShellConsole
              /\ LogConsole \in domain.ports \ Range(ttys)
              /\ Range(ttys) \subseteq domain.ports
              /\ config.shell => AppConsole # ShellConsole

(* A link under /dev/disk/by-tag leads to the disk that was given that tag:      *)
(* disks.cfg and the devices of the domain count the disks alike, and of two  *)
(* disks given one tag it is never the second that hides the first.               *)
TagsFindDisks ==
    \A l \in links :
        LET tagged == Select(config.disks, LAMBDA d : d.tag = l.tag)
        IN  tagged # <<>> /\ Found(l.dev) = {<<"host", tagged[1].source>>}

(* The network an interface is to be on if none is named: QEMU's own, or libvirt's. *)
AskedNetwork(net) ==
    IF net.source = NoValue /\ Driver = "container" THEN "default" ELSE net.source

(* The n-th interface of the guest is on the n-th network asked for, and the commands *)
(* run for it before the application starts are those for exactly the addresses asked *)
(* of it, none of them left out: construct_devices and setup_network count the        *)
(* interfaces alike.  A route is only ever asked for after an address of its           *)
(* interface, and never beside dhclient.  What the commands achieved is not part of    *)
(* this (AddressesSet).                                                                 *)
AddressesCommanded ==
    /\ \A i \in DOMAIN ip :
          ip[i].cmd = "route" =>
              /\ \E k \in 1 .. i - 1 : ip[k].dev = ip[i].dev /\ ip[k].cmd = "address"
              /\ ~\E k \in DOMAIN ip : ip[k].dev = ip[i].dev /\ ip[k].cmd = "dhclient"
    /\ stage = "running" =>
        \A i \in 1 .. Len(config.networks) :
            i <= NetworkLimit =>
                /\ Found(<<"eth", i - 1>>) = {<<"host", AskedNetwork(config.networks[i])>>}
                /\ {c.arg : c \in {x \in Range(ip) : x.dev = i - 1 /\ x.cmd = "address"}}
                       = Range(LoadList(config.networks[i].addresses, NetworkLimit))

(* The man page of --network (bin/virt-sandbox.c:499), of an address: "Configure   *)
(* the network interface with the static IPv4 or IPv6 address".  add_address looks   *)
(* at no exit status, so the application starts when it could not be set.             *)
AddressesSet ==
    stage = "running" =>
        \A i \in 1 .. Len(loaded.networks) :
            \A a \in Range(loaded.networks[i].addresses) :
                \E k \in DOMAIN ip \ failed :
                    ip[k].dev = i - 1 /\ ip[k].cmd = "address" /\ ip[k].arg = a

(* The application has every variable asked for with --env, PATH too, which      *)
(* init-common sets itself; but its name and its home are its user's, whatever   *)
(* was asked, unless it is root (main, setup_custom_env, change_user).           *)
EnvAsAsked ==
    stage = "running" /\ FitsLimits(config) =>
        LET user == config.user
            own == {"USER", "USERNAME", "LOGNAME", "HOME"}
        IN  /\ \A k \in DOMAIN config.envs :
                  user.name = "root" \/ k \notin own => environ[k] = config.envs[k]
            /\ user.name # "root" =>
                  \A k \in own : environ[k] = IF k = "HOME" THEN user.home ELSE user.name
=============================================================================
