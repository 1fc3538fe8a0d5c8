--------------------------- MODULE HandOverOptions ---------------------------
(* Hosts and options for TLC: both drivers and three users; kernels with their  *)
(* drivers as modules, partly built in, of another release and packed in a way    *)
(* nothing unpacks; a mount of each type at the root and below it, one of them    *)
(* over the configuration; two disks; and network options good and bad.           *)
EXTENDS HandOver

Mount(type, target, source, usage) ==
    [type |-> type, target |-> target, source |-> source, usage |-> usage,
     includes |-> NoIncludes]

Etc == <<"/", "etc">>
Home == <<"/", "home">>
Config == Etc \o <<"/", "scratch">>
Tmp == <<"/", "tmp">>

SomeMounts ==
    { Mount("host-bind", Tmp, "dirA", 0), Mount("host-bind", Root, "dirB", 0),
      Mount("host-image", Home, "imgA", 0), Mount("host-image", Root, "imgB", 0),
      Mount("guest-bind", Home, <<"/", "opt">>, 0), Mount("host-bind", Etc, "dirA", 0),
      Mount("host-bind", Home, NoPath, 0), Mount("ram", Tmp, NoValue, 3),
      Mount("ram", Tmp, NoValue, 2^(Width - 1)), Mount("ram", Tmp, NoValue, 2^Width) }

SomeDisks == {[tag |-> t, source |-> s] : t \in {"data", "cache"}, s \in {"diskA", "diskB"}}

SomeEnvs == {<<"PATH", "x">>, <<"PATH", "y">>, <<"HOME", "x">>, <<LxcName, "x">>}

SomeIncludes ==
    {[guest |-> Tmp \o <<"/", "a">>, host |-> "fileA"],
     [guest |-> Tmp \o <<"/", "b">>, host |-> "fileB"],
     [guest |-> Tmp \o <<"/", "a">>, host |-> "fileB"],
     [guest |-> Home \o <<"/", "a">>, host |-> "fileA"]}

Dhcp == <<"dhcp">>
Address(a) == <<"address", a>>
Route(r) == <<"route", r>>
Source(n) == <<"source", n>>
Unknown == <<"vlan">>

SomeNetworks ==
    { <<Dhcp>>, <<Address("n1")>>, <<Address("n1"), Address("n2"), Route("r1")>>,
      <<Route("r1"), Address("n2")>>, <<Route("r1")>>, <<Dhcp, Address("n1")>>,
      <<Address("n1"), Dhcp>>, <<Dhcp, Route("r1")>>, <<Address("n1"), Unknown>>,
      <<Address("n1"), Address("n2"), Address("n3")>>,
      <<Source("default")>>, <<Dhcp, Source("lan")>> }

(* What insmod wants first; the modules of a Linux distribution of the time. *)
SomeNeeds ==
    [ d \in {"fscache", "virtio", "virtio_ring", "9pnet", "af_packet", "fscrypto", "mbcache",
             "jbd2", "crc16"} |-> {} ]
    @@ [ d \in {"virtio_pci", "virtio_net", "virtio_blk", "virtio_console"} |->
            {"virtio", "virtio_ring"} ]
    @@ "9p" :> {"9pnet", "fscache"} @@ "9pnet_virtio" :> {"9pnet", "virtio", "virtio_ring"}
    @@ "ext4" :> {"mbcache", "jbd2", "crc16", "fscrypto"}

(* "small" has half of them built in. *)
SomeTrees ==
    [ big |-> [modules |-> DOMAIN SomeNeeds, suffix |-> "xz"],
      small |-> [modules |-> {"9pnet", "9p", "9pnet_virtio", "virtio_net", "virtio_console",
                              "crc16", "ext4"}, suffix |-> "ko"],
      zst |-> [modules |-> {"9pnet", "9p", "9pnet_virtio"}, suffix |-> "zst"] ]

(* The hypotheses of the theorems hold of these kernels. *)
ASSUME KernelsAssumption == ModularTrees /\ NeedsInOrder

SomeKernels == [big |-> "big", small |-> "small", zst |-> "zst", other |-> "small"]

Host(uri, asroot, kvm, secmodels, release) ==
    [uri |-> uri, asroot |-> asroot, kvm |-> kvm, secmodels |-> secmodels, release |-> release]

Options(command, tty, shell, user, kernrelease, kernpath) ==
    [command |-> command, tty |-> tty, shell |-> shell, user |-> user,
     kernrelease |-> kernrelease, kernpath |-> kernpath]

(* The caller, --privileged, which keeps the caller's home, and --switchto. *)
Caller == [name |-> "caller", home |-> "h1"]
Privileged == [name |-> "root", home |-> "h1"]
Other == [name |-> "other", home |-> "h2"]

SomeClients ==
    { [here |-> Host("qemu:///session", FALSE, TRUE, {"selinux"}, "big"),
       options |-> Options(<<"sh">>, FALSE, FALSE, Caller, NoValue, NoValue)],
      [here |-> Host("qemu:///session", FALSE, FALSE, {"apparmor"}, "small"),
       options |-> Options(<<"sh", "-c">>, TRUE, TRUE, Caller, NoValue, NoValue)],
      [here |-> Host("lxc:///", TRUE, TRUE, {"selinux", "apparmor"}, "big"),
       options |-> Options(<<"sh", "-c", "ls">>, TRUE, TRUE, Privileged, NoValue, NoValue)],
      [here |-> Host("lxc:///", TRUE, FALSE, {}, "big"),
       options |-> Options(<<"sh">>, FALSE, FALSE, Other, NoValue, NoValue)],
      [here |-> Host("qemu:///system", TRUE, TRUE, {}, "big"),
       options |-> Options(<<"sh">>, TRUE, FALSE, Other, NoValue, "other")],
      [here |-> Host("qemu:///system", TRUE, TRUE, {}, "big"),
       options |-> Options(<<"sh">>, FALSE, FALSE, Privileged, "zst", NoValue)],
      [here |-> Host("qemu:///system", TRUE, TRUE, {}, "big"),
       options |-> Options(<<"sh">>, FALSE, FALSE, Privileged, "removed", NoValue)],
      [here |-> Host("qemu:///session", TRUE, TRUE, {}, "big"),
       options |-> Options(<<"sh">>, FALSE, FALSE, Caller, NoValue, NoValue)] }

SomeModes == {<<"dynamic", NoValue>>, <<"dynamic", "label">>, <<"static", "label">>,
              <<"static", NoValue>>, <<"inherit", NoValue>>}
=============================================================================
