------------------------------- MODULE Builder -------------------------------
(***************************************************************************)
(* What the builders make of a configuration: the domain, and the files     *)
(* that go with it.  The machine builder serves QEMU, the container builder *)
(* LXC (libvirt-sandbox-builder.c, -builder-machine.c, -builder-container.c, *)
(* -builder-initrd.c).                                                      *)
(*                                                                          *)
(* A device is [dev, source]; "dev" is the name the guest knows it by, a     *)
(* prefix and a number.  A file system of a container is [target, what].    *)
(* "here" is the host: [uri, asroot, kvm, secmodels, release].              *)
(***************************************************************************)
EXTENDS SandboxConfig

CONSTANTS
    Kilo,         \* 1024: mounts.cfg gives the size of a tmpfs in KiB
    Trees,        \* release -> [modules, suffix]: what lies under /lib/modules
    Kernels,      \* path -> the release of the kernel there
    Needs         \* driver -> the drivers it depends on

ASSUME BuilderAssumption ==
    /\ Kilo \in Nat \ {0}
    /\ \A path \in DOMAIN Kernels : Kernels[path] \in DOMAIN Trees
    /\ \A r \in DOMAIN Trees : Trees[r].modules \subseteq DOMAIN Needs

-----------------------------------------------------------------------------
(* Which builder, and for whom. *)

Builder(uri) ==
    CASE uri = "lxc:///" -> "container"
      [] uri \in {"qemu:///session", "qemu:///system"} -> "machine"
      [] OTHER -> NoValue

Supported(here) ==
    here.uri \in IF here.asroot THEN {"lxc:///", "qemu:///system"} ELSE {"qemu:///session"}

-----------------------------------------------------------------------------
(* The names of devices. *)

OfType(c, type) == Select(c.mounts, LAMBDA m : m.type = type)

(* How many mounts of this type come before the i-th. *)
Before(c, i, type) == Len(Select(SubSeq(c.mounts, 1, i - 1), LAMBDA m : m.type = type))

DiskPrefix(builder) == IF builder = "container" THEN "sd" ELSE "vd"

DisksCfg(c, builder) ==
    [i \in DOMAIN c.disks |-> [tag |-> c.disks[i].tag, dev |-> <<DiskPrefix(builder), i - 1>>]]

(* Mutant of FirstImage: the images of mounts start again at /dev/vda. *)
FirstImageIsFirstDisk(c) == 0

FirstImage(c) == Len(c.disks)

(* "sandbox:mount0" counts the host-binds, "/dev/vda" the disks, then the images. *)
LineSource(c, i) ==
    LET m == c.mounts[i]
    IN  CASE m.type = "host-bind" -> <<"sandbox:mount", Before(c, i, "host-bind")>>
          [] m.type = "host-image" -> <<"vd", FirstImage(c) + Before(c, i, "host-image")>>
          [] m.type = "guest-bind" -> <<"guest", m.source>>
          [] m.type = "ram" -> <<"tmpfs", m.usage \div Kilo>>

(* A container has no mounts.cfg. *)
MountsCfg(c, builder) ==
    IF builder = "container" THEN <<>>
    ELSE [i \in DOMAIN c.mounts |-> [source |-> LineSource(c, i), target |-> c.mounts[i].target]]

-----------------------------------------------------------------------------
(* The devices of the domain. *)

MachineRoot(c) ==
    IF HasRootMount(c) THEN {} ELSE {[dev |-> <<"sandbox:root">>, source |-> c.root]}

Numbered(prefix, sources) ==
    {[dev |-> <<prefix, i - 1>>, source |-> sources[i]] : i \in DOMAIN sources}

Sources(list) == [i \in DOMAIN list |-> list[i].source]

MachineDisks(c) == Numbered("vd", Sources(c.disks) \o Sources(OfType(c, "host-image")))
MachineBinds(c) == Numbered("sandbox:mount", Sources(OfType(c, "host-bind")))
MachineNetworks(c) == Numbered("eth", Sources(c.networks))

ContainerDisks(c) == Numbered("sd", Sources(c.disks))

ContainerNetworks(c) ==
    Numbered("eth", [i \in DOMAIN c.networks |->
                        LET source == c.networks[i].source
                        IN  IF source = NoValue THEN "default" ELSE source])

Devices(c, builder) ==
    IF builder = "container" THEN ContainerDisks(c) \union ContainerNetworks(c)
    ELSE UNION {MachineRoot(c), MachineDisks(c), MachineBinds(c), MachineNetworks(c)}

(* What a container mounts of each kind; libvirt turns the bytes of a ram into KiB. *)
FilesysSource(m) ==
    CASE m.type \in {"host-bind", "host-image"} -> <<"host", m.source>>
      [] m.type = "guest-bind" -> <<"guest", m.source>>
      [] m.type = "ram" -> <<"tmpfs", m.usage \div Kilo>>

(* The file systems of a container, in the order libvirt mounts them.  That of  *)
(* the configuration, at ConfigDir, comes between the root and the others.       *)
Filesystems(c, builder) ==
    IF builder = "machine" THEN <<>>
    ELSE (IF HasRootMount(c) THEN <<>> ELSE <<[target |-> Root, what |-> <<"host", c.root>>]>>)
         \o [i \in DOMAIN c.mounts |->
                [target |-> c.mounts[i].target, what |-> FilesysSource(c.mounts[i])]]

(* Log, shell if there is one, application. *)
Ports(c, builder) ==
    IF builder = "container"
    THEN {<<"console", i>> : i \in 0 .. (IF c.shell THEN 2 ELSE 1)}
    ELSE {<<"console", 0>>, <<"serial", 0>>, <<"console", 1>>}
         \union (IF c.shell THEN {<<"serial", 1>>} ELSE {})

-----------------------------------------------------------------------------
(* Kernel and initrd of a machine. *)

KernRelease(c, here) == IF c.kernrelease # NoValue THEN c.kernrelease ELSE here.release

(* "/boot/vmlinuz-RELEASE" is called by its release. *)
KernPath(c, here) == IF c.kernpath # NoValue THEN c.kernpath ELSE KernRelease(c, here)

(* Mutant of WantsBlk: an image to mount is not taken for a disk. *)
WantsBlkForDisks(c) == HasDisks(c)

WantsBlk(c) == HasMountsWithType(c, "host-image") \/ HasDisks(c)

FirstModules ==
    << "fscache", "virtio", "virtio_ring", "virtio_pci", "9pnet", "9p", "9pnet_virtio" >>

LastModules ==
    << "virtio_console", "af_packet", "fscrypto", "mbcache", "jbd2", "crc16", "ext4" >>

(* The modules mkinitrd asks for, in the order they are to be loaded. *)
ModuleNames(c) ==
    FirstModules \o (IF HasNetworks(c) THEN <<"virtio_net">> ELSE <<>>)
                 \o (IF WantsBlk(c) THEN <<"virtio_blk">> ELSE <<>>) \o LastModules

(* What the theorems ask of the host's kernels: every module tree has a module  *)
(* of the list (with an empty list init-qemu has nothing to load, and no kernel *)
(* to refuse), ...                                                              *)
ModularTrees ==
    LET always == Range(FirstModules) \union Range(LastModules)
    IN  /\ always \union {"virtio_net", "virtio_blk"} \subseteq DOMAIN Needs
        /\ \A r \in DOMAIN Trees : Trees[r].modules \intersect always # {}

(* ... and their modules depend only on modules mkinitrd lists before them. *)
NeedsInOrder ==
    /\ \A i \in DOMAIN FirstModules :
          Needs[FirstModules[i]] \subseteq {FirstModules[k] : k \in 1 .. i - 1}
    /\ \A blk \in {"virtio_net", "virtio_blk"} : Needs[blk] \subseteq Range(FirstModules)
    /\ \A i \in DOMAIN LastModules :
          Needs[LastModules[i]]
              \subseteq Range(FirstModules) \union {LastModules[k] : k \in 1 .. i - 1}

(* The files found under the tree; a name without a file is left out of the list. *)
FindModules(names, tree) == Select(names, LAMBDA n : n \in tree.modules)

EmptyImage == [release |-> NoValue, suffix |-> NoValue, modules |-> <<>>]

(* The pipeline that packs the directory may fail without anyone looking. *)
InitrdImages(c, here) ==
    LET release == KernRelease(c, here)
    IN  { [release |-> release, suffix |-> Trees[release].suffix,
           modules |-> FindModules(ModuleNames(c), Trees[release])],
          EmptyImage }

BootImages(c, builder, here) ==
    IF builder = "container" THEN {EmptyImage} ELSE InitrdImages(c, here)

BootKernel(c, builder, here) ==
    IF builder = "container" THEN here.release ELSE Kernels[KernPath(c, here)]

(* The module tree and the kernel the machine builder reads are there. *)
BootFilesExist(c, builder, here) ==
    builder = "machine" =>
        KernRelease(c, here) \in DOMAIN Trees /\ KernPath(c, here) \in DOMAIN Kernels

-----------------------------------------------------------------------------
(* The security label. *)

VirtType(builder, here) ==
    IF builder = "container" THEN "lxc" ELSE IF here.kvm THEN "kvm" ELSE "qemu"

BaseLabel(virt) ==
    CASE virt = "lxc" -> "svirt_lxc_net_t" [] virt = "qemu" -> "svirt_tcg_t"
      [] virt = "kvm" -> "svirt_t"

Selinux(c, virt) ==
    [ model |-> "selinux", dynamic |-> c.dynamic,
      label |-> IF c.dynamic /\ c.label = NoValue THEN BaseLabel(virt) ELSE c.label ]

Apparmor(c) ==
    [ model |-> "apparmor", dynamic |-> c.dynamic,
      label |-> IF c.dynamic THEN NoValue ELSE c.label ]

Seclabel(c, virt, models) ==
    CASE "selinux" \in models -> Selinux(c, virt)
      [] "selinux" \notin models /\ "apparmor" \in models -> Apparmor(c)
      [] OTHER -> [model |-> NoValue, dynamic |-> TRUE, label |-> NoValue]

(* libvirt refuses a static label that is not given. *)
SeclabelTaken(seclabel) == ~seclabel.dynamic => seclabel.label # NoValue

-----------------------------------------------------------------------------
(* The domains that can come of a configuration. *)
Domains(c, builder, here) ==
    { [ virt |-> VirtType(builder, here), devices |-> Devices(c, builder),
        filesystems |-> Filesystems(c, builder), ports |-> Ports(c, builder),
        kernel |-> BootKernel(c, builder, here), initrd |-> image,
        seclabel |-> Seclabel(c, VirtType(builder, here), here.secmodels) ] :
      image \in BootImages(c, builder, here) }
=============================================================================
