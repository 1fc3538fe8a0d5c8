---------------------------- MODULE SandboxConfig ----------------------------
(***************************************************************************)
(* The configuration of an interactive sandbox                             *)
(* (libvirt-sandbox-config.c, -config-interactive.c, -config-mount.c): what *)
(* its options build, what save_config writes into sandbox.cfg and what     *)
(* load_config reads back from it in the guest.                             *)
(*                                                                          *)
(* The numbered groups of the key file ("mount.0", "mount.1", ...) are a    *)
(* sequence, and so are its numbered keys.  A guest path is the sequence of *)
(* its pieces, cut wherever a prefix matters: "/" is <<"/">> and "/tmpfs"   *)
(* may be <<"/", "tmp", "fs">>, which "/tmp" is a prefix of.                *)
(***************************************************************************)
EXTENDS Integers, SequencesExt

CONSTANTS
    NetworkLimit,   \* networks, addresses and routes load_config looks for: 100
    ListLimit,      \* mounts, includes, variables, disks and arguments: 1024
    Width           \* the bits of a gint: 32.  A guint64 and a long have twice

ASSUME LimitsAssumption == {NetworkLimit, ListLimit, Width} \subseteq Nat \ {0}

(* What the prover, which does not calculate with powers, is told of them. *)
ASSUME PowersAssumption ==
    /\ {2^(Width - 1), 2^Width, 2^(2 * Width - 1), 2^(2 * Width)} \subseteq Nat \ {0}
    /\ 2^(Width - 1) <= 2^Width /\ 2^(Width - 1) <= 2^(2 * Width - 1)
    /\ 2^(2 * Width - 1) <= 2^(2 * Width)

NoValue == "none"        \* an absent key, a NULL string
NoIncludes == <<>>       \* the empty hash table

Root == <<"/">>

(* The elements of a sequence that pass a test, in their order.  SelectSeq is  *)
(* the same, but the prover knows no definition of it.                          *)
Select(s, Test(_)) == FlattenSeq([i \in DOMAIN s |-> IF Test(s[i]) THEN <<s[i]>> ELSE <<>>])

(* The options that set one value each, "o", and defaults for the rest.  "user" *)
(* is [name, home]: the caller's, or what --privileged and --switchto set.       *)
NewConfig(o) ==
    [ root |-> "hostroot", command |-> o.command, tty |-> o.tty, user |-> o.user,
      shell |-> o.shell, kernrelease |-> o.kernrelease, kernpath |-> o.kernpath,
      mounts |-> <<>>, envs |-> <<>>, disks |-> <<>>, networks |-> <<>>,
      label |-> NoValue, dynamic |-> TRUE ]

-----------------------------------------------------------------------------
(* Integers of the host and of the guest. *)

ToInt(n) ==                  \* stored in a gint
    LET low == n % 2^Width
    IN  IF low < 2^(Width - 1) THEN low ELSE low - 2^Width

ToGuint64(n) == n % 2^(2 * Width)

Strtol(n) == IF n < 2^(2 * Width - 1) THEN n ELSE 2^(2 * Width - 1) - 1

(* Mutant of OptionUsage: the sign is kept. *)
OptionUsageSigned(n) == ToInt(n)

(* "ram:/tmp=500M": the size is computed in a gint. *)
OptionUsage(n) == ToGuint64(ToInt(n))

-----------------------------------------------------------------------------
(* The options.  A mount is [type, target, source, usage, includes]. *)

AddMount(c, m) == [c EXCEPT !.mounts = Append(@, m)]
AddDisk(c, d) == [c EXCEPT !.disks = Append(@, d)]

AddEnv(c, key, value) ==
    [c EXCEPT !.envs = [k \in DOMAIN @ \union {key} |-> IF k = key THEN value ELSE @[k]]]

SetSecurityOpts(c, mode, label) ==
    [c EXCEPT !.dynamic = (mode = "dynamic"),
              !.label = IF label # NoValue THEN label
                        ELSE IF mode = "inherit" THEN "getcon" ELSE @]

(* The mounts an include may go to: those whose target is a prefix of its path. *)
Under(c, guest) == {i \in DOMAIN c.mounts : IsPrefix(c.mounts[i].target, guest)}

RelGuest(target, guest) == SubSeq(guest, Len(target) + 1, Len(guest))

(* The first of those mounts takes it, under its path relative to the mount. *)
AddHostInclude(c, guest, host) ==
    LET i == CHOOSE n \in Under(c, guest) : \A k \in Under(c, guest) : n <= k
        dst == RelGuest(c.mounts[i].target, guest)
    IN  [c EXCEPT !.mounts[i].includes =
            [d \in DOMAIN @ \union {dst} |-> IF d = dst THEN host ELSE @[d]]]

HasMountsWithType(c, type) == \E i \in DOMAIN c.mounts : c.mounts[i].type = type
HasDisks(c) == c.disks # <<>>
HasNetworks(c) == c.networks # <<>>

(* Mutant of HasRootMount: every target starts with "/". *)
HasRootPrefix(c) == \E i \in DOMAIN c.mounts : IsPrefix(Root, c.mounts[i].target)

HasRootMount(c) == \E i \in DOMAIN c.mounts : c.mounts[i].target = Root

(***************************************************************************)
(* One network option is a list of parameters, taken from left to right;   *)
(* "bad" says that the option is refused.  A MAC address and a filter are  *)
(* passed on to libvirt like the source; the file does not keep the filter. *)
(***************************************************************************)
NoNetwork == [dhcp |-> FALSE, source |-> NoValue, addresses |-> <<>>, routes |-> <<>>]

(* Mutant of TakesDhcp: "dhcp" is taken after static addresses. *)
TakesDhcpAlways(net) == TRUE

TakesDhcp(net) == net.addresses = <<>> /\ net.routes = <<>>
TakesStatic(net) == ~net.dhcp

TakeParam(p, st) ==
    IF st.bad THEN st
    ELSE CASE p[1] = "dhcp" ->
                [net |-> [st.net EXCEPT !.dhcp = TRUE], bad |-> ~TakesDhcp(st.net)]
           [] p[1] = "address" ->
                [net |-> [st.net EXCEPT !.addresses = Append(@, p[2]), !.dhcp = FALSE],
                 bad |-> ~TakesStatic(st.net)]
           [] p[1] = "route" ->
                [net |-> [st.net EXCEPT !.routes = Append(@, p[2]), !.dhcp = FALSE],
                 bad |-> ~TakesStatic(st.net)]
           [] p[1] = "source" -> [st EXCEPT !.net.source = p[2]]
           [] OTHER -> [st EXCEPT !.bad = TRUE]

RoutesTaken(net) == net.routes # <<>> => net.addresses # <<>>

ParseNetwork(params) ==
    LET st == FoldLeft(LAMBDA acc, p : TakeParam(p, acc), [net |-> NoNetwork, bad |-> FALSE], params)
    IN  [st EXCEPT !.bad = @ \/ ~RoutesTaken(st.net)]

AddNetwork(c, net) == [c EXCEPT !.networks = Append(@, net)]

-----------------------------------------------------------------------------
(* sandbox.cfg.  The entries of a hash table come in any one order. *)

Entries(table) == [i \in 1 .. Cardinality(DOMAIN table) |->
                      LET k == SetToSeq(DOMAIN table)[i] IN <<k, table[k]>>]

Table(entries) == [k \in {entries[i][1] : i \in DOMAIN entries} |->
                      entries[CHOOSE i \in DOMAIN entries : entries[i][1] = k][2]]

SaveMount(m) == [m EXCEPT !.includes = Entries(@)]

SaveConfig(c) == [c EXCEPT !.mounts = [i \in DOMAIN @ |-> SaveMount(@[i])],
                           !.envs = Entries(@)]

(* Mutant of LoadList: the last group is not looked for. *)
LoadListShort(groups, limit) ==
    SubSeq(groups, 1, IF Len(groups) < limit - 1 THEN Len(groups) ELSE limit - 1)

(* The loader looks for the groups 0 .. limit-1. *)
LoadList(groups, limit) ==
    SubSeq(groups, 1, IF Len(groups) < limit THEN Len(groups) ELSE limit)

LoadMount(m) == [m EXCEPT !.usage = IF m.type = "ram" THEN ToGuint64(ToInt(Strtol(@))) ELSE @,
                          !.includes = Table(LoadList(@, ListLimit))]

LoadNetwork(n) == [n EXCEPT !.addresses = LoadList(@, NetworkLimit),
                            !.routes = LoadList(@, NetworkLimit)]

LoadEnvs(groups) == Table(LoadList(groups, ListLimit))
LoadDisks(groups) == LoadList(groups, ListLimit)
LoadCommand(keys) == LoadList(keys, ListLimit)

LoadConfig(file) ==
    [file EXCEPT
        !.networks = LET found == LoadList(@, NetworkLimit)
                     IN  [i \in DOMAIN found |-> LoadNetwork(found[i])],
        !.mounts = LET found == LoadList(@, ListLimit)
                   IN  [i \in DOMAIN found |-> LoadMount(found[i])],
        !.envs = LoadEnvs(@), !.disks = LoadDisks(@), !.command = LoadCommand(@)]

-----------------------------------------------------------------------------
(* What a configuration must stay within for the guest to read all of it. *)

FitsLimits(c) ==
    /\ \A n \in {Len(c.mounts), Len(c.disks), Len(c.command), Cardinality(DOMAIN c.envs)} :
          n <= ListLimit
    /\ Len(c.networks) <= NetworkLimit
    /\ \A i \in DOMAIN c.networks :
          Len(c.networks[i].addresses) <= NetworkLimit /\ Len(c.networks[i].routes) <= NetworkLimit
    /\ \A i \in DOMAIN c.mounts :
          /\ Cardinality(DOMAIN c.mounts[i].includes) <= ListLimit
          /\ c.mounts[i].usage < 2^(Width - 1)
=============================================================================
