------------------------------ MODULE SshConfig ------------------------------
(***************************************************************************)
(* Importing an OpenSSH client config into the saved devices, and writing   *)
(* the devices as one (ssh_config.rs): which hosts of the file become       *)
(* devices, through which jump host each goes, and in which order they are  *)
(* saved. A file is its sections, each with its settings in file order;     *)
(* names are compared without case.                                         *)
(***************************************************************************)
EXTENDS Naturals, Sequences, Functions, FiniteSets

CONSTANTS
    Files,          \* bound: the config files, as sequences of sections
    Stores,         \* bound: the devices saved before
    DefaultUsers    \* bound: local login names, or NoUser

VARIABLES
    file,           \* the sections of the file
    login,          \* the local login name
    origin,         \* the devices the file was exported from, if it was
    before,         \* the devices saved when it began, by whose names hops go
    store,          \* the saved devices, oldest first
    stage,          \* what the import is doing
    hosts,          \* hosts still to be admitted, by their sections
    planned,        \* admitted hosts still to be linked, likewise
    byKey,          \* the book: host/port/user to the device known for it
    created,        \* jump hosts this import adds, still to be saved
    linked,         \* the file's hosts, still to be saved
    skipped

sshvars == <<file, login, origin, before, store, stage, hosts, planned, byKey, created, linked, skipped>>
Given == <<file, login, origin, before>>

NoUser == "no user"
NoPort == 0
NoKey == "password"
DefaultPort == 22

\* A device's id says where the device is from. The ids of the file's hosts
\* are minted up front, one per section.
Id(of, n) == [of |-> of, n |-> n]
NoJump == Id("none", 0)
SavedId(n) == Id("saved", n)
FileId(n) == Id("file", n)
HopId(n) == Id("hop", n)

First(S) == CHOOSE n \in S : \A m \in S : n <= m

\* A file is a sequence, and so are the devices saved; no two have one id, and
\* each has a name and a user.
SshConstants ==
    /\ \A f \in Files : f \in Seq(Range(f))
    /\ \A s \in Stores :
        /\ s \in Seq(Range(s))
        /\ \A i, j \in DOMAIN s :
            /\ s[i].id = SavedId(s[i].id.n)
            /\ s[i].name \in Seq(Range(s[i].name)) /\ s[i].user # NoUser
            /\ s[i].id = s[j].id => i = j

(* -------------------------------- parsing -------------------------------- *)

\* The settings of a section under these keywords, and the first's value.
Settings(section, keys) == {i \in DOMAIN section.set : section.set[i].key \in keys}
FirstOr(section, keys, default) ==
    LET found == Settings(section, keys)
    IN IF found = {} THEN default ELSE section.set[First(found)].value

Proxies == {"proxyjump", "proxycommand"}
HasProxy(section) == Settings(section, Proxies) # {}

Direct == [via |-> "direct"]
Unsupported == [via |-> "unsupported"]
HopVia(host, user, port) == [via |-> "hop", host |-> host, user |-> user, port |-> port]

\* Proxy::jump, parse_jump_spec: "none", one hop, or what no device can
\* represent (a chain, a malformed hop, a command). A setting's value is what
\* it says, already told apart.
JumpOf(section) ==
    LET proxy == section.set[First(Settings(section, Proxies))] IN
    CASE proxy.value.via = "direct" -> Direct
      [] proxy.key = "proxyjump" /\ proxy.value.via = "hop" -> proxy.value
      [] OTHER -> Unsupported

\* host_matches: some pattern matches, and no negated one does.
Selects(section, name) == name \in section.hits \ section.negated

\* jump_for: a Host section applies by name; a Match block may apply unless it
\* lists hosts and neither the name nor the address is one.
Applies(section, host) ==
    \/ section.kind = "host" /\ Selects(section, host.name)
    \/ section.kind = "match" /\ (section.any \/ Selects(section, host.name) \/ Selects(section, host.address))

\* effective_jump: by the first section, in file order, that applies and sets one.
EffectiveJump(sections, host) ==
    LET setting == {i \in DOMAIN sections : HasProxy(sections[i]) /\ Applies(sections[i], host)}
    IN IF setting = {} THEN Direct
       ELSE IF sections[First(setting)].kind = "match" THEN Unsupported
       ELSE JumpOf(sections[First(setting)])

\* A concrete Host block's own settings; an unparseable port is dropped.
HostOf(section) ==
    [name |-> section.aliases[1], aliases |-> Range(section.aliases),
     address |-> FirstOr(section, {"hostname"}, section.aliases[1]),
     port |-> FirstOr(section, {"port"}, DefaultPort),
     user |-> FirstOr(section, {"user"}, NoUser),
     key |-> FirstOr(section, {"identityfile"}, NoKey)]

\* parse_hosts: one per section with a concrete alias.
ParseHosts(sections) ==
    [n \in {i \in DOMAIN sections : sections[i].aliases # <<>>} |->
        LET host == HostOf(sections[n])
        IN [host |-> host, jump |-> EffectiveJump(sections, host)]]

(* ------------------------------ the export ------------------------------- *)

\* Mutant: names are not told apart.
AnyAlias(name, used) == name
\* assign_aliases: a name already used gets the first free suffix.
FreeAlias(name, used) ==
    IF name \notin used THEN name
    ELSE Append(name, First({n \in 2..Cardinality(used) + 2 : Append(name, n) \notin used}))

AliasesOf(devices) ==
    LET named[n \in 0..Len(devices)] ==
            IF n = 0 THEN <<>>
            ELSE Append(named[n - 1], FreeAlias(devices[n].name, Range(named[n - 1])))
    IN named[Len(devices)]

Entry(key, value) == [key |-> key, value |-> value]

JumpsOf(devices, n) == {h \in DOMAIN devices : devices[h].id = devices[n].jump}

\* write_host_block: only what the importer reads back. A jump to a device that
\* is not in the file is left out.
Lines(devices, n) ==
    LET hop == JumpsOf(devices, n) IN
    <<Entry("hostname", devices[n].address), Entry("port", devices[n].port), Entry("user", devices[n].user)>>
    \o (IF devices[n].key = NoKey THEN <<>> ELSE <<Entry("identityfile", devices[n].key)>>)
    \o (IF hop = {} THEN <<>>
        ELSE <<Entry("proxyjump", HopVia(AliasesOf(devices)[First(hop)], NoUser, NoPort))>>)

\* devices_to_ssh_config: a block for each.
Exported(devices) ==
    [n \in DOMAIN devices |->
        LET alias == AliasesOf(devices)[n]
        IN [kind |-> "host", aliases |-> <<alias>>, hits |-> {alias}, negated |-> {}, any |-> FALSE,
            set |-> Lines(devices, n)]]

(* ------------------------------- the import ------------------------------ *)

\* dedup_key.
KeyOf(device) == <<device.address, device.port, device.user>>

\* seeded: of saved devices alike, the first.
Seeded(devices) ==
    [k \in {KeyOf(devices[i]) : i \in DOMAIN devices} |->
        LET known == devices[First({i \in DOMAIN devices : KeyOf(devices[i]) = k})]
        IN [id |-> known.id, jumps |-> known.jump # NoJump]]

\* import_ssh_config_impl: of a file of the user's, or one exported before and
\* now imported where nothing is saved.
Init ==
    /\ login \in DefaultUsers
    /\ \/ file \in Files /\ before \in Stores /\ origin = <<>>
       \/ origin \in Stores /\ file = Exported(origin) /\ before = <<>>
    /\ store = before /\ byKey = Seeded(before)
    /\ stage = "admitting" /\ hosts = DOMAIN ParseHosts(file) /\ planned = {}
    /\ created = <<>> /\ linked = <<>> /\ skipped = 0

Parsed(n) == ParseHosts(file)[n]
UserOr(user, other) == IF user = NoUser THEN other ELSE user

\* to_device.
DeviceOf(n) ==
    LET host == Parsed(n).host
    IN [id |-> FileId(n), name |-> host.name, address |-> host.address, port |-> host.port,
        user |-> UserOr(host.user, login), key |-> host.key, jump |-> NoJump]

\* Mutant: a jump is only known once linked.
KnownDirect(n) == [id |-> FileId(n), jumps |-> FALSE]
\* admit: known from here on as a host others may jump through.
KnownAs(n) == [id |-> FileId(n), jumps |-> Parsed(n).jump # Direct]
Remember(key, candidate) ==
    byKey' = [k \in DOMAIN byKey \cup {key} |-> IF k = key THEN candidate ELSE byKey[k]]

\* plan and admit, in file order: a host with no user is invalid, one known a
\* duplicate.
Admit ==
    /\ stage = "admitting" /\ hosts # {}
    /\ LET n == First(hosts)
           key == KeyOf(DeviceOf(n))
       IN /\ hosts' = hosts \ {n}
          /\ IF DeviceOf(n).user = NoUser \/ key \in DOMAIN byKey
             THEN skipped' = skipped + 1 /\ UNCHANGED <<planned, byKey>>
             ELSE /\ planned' = planned \cup {n} /\ UNCHANGED skipped
                  /\ Remember(key, KnownAs(n))
    /\ UNCHANGED <<Given, store, stage, created, linked>>

AllAdmitted ==
    /\ stage = "admitting" /\ hosts = {} /\ stage' = "linking"
    /\ UNCHANGED <<Given, store, hosts, planned, byKey, created, linked, skipped>>

\* What a hop's name stands for: a host of the file, skipped or not, else a
\* saved device, else that very address. Of several, the first.
BaseOf(hop) ==
    LET named == {n \in DOMAIN ParseHosts(file) : hop.host \in Parsed(n).host.aliases}
        saved == {i \in DOMAIN before : before[i].name = hop.host}
    IN IF named # {} THEN Parsed(First(named)).host
       ELSE IF saved # {} THEN before[First(saved)]
       ELSE [address |-> hop.host, port |-> DefaultPort, user |-> NoUser, key |-> NoKey]

\* hop_target.
TargetOf(hop) ==
    LET base == BaseOf(hop)
    IN <<base.address, IF hop.port = NoPort THEN base.port ELSE hop.port,
         UserOr(UserOr(hop.user, base.user), login)>>

\* create_jump_host.
NewJumpHost(hop) ==
    LET target == TargetOf(hop)
    IN [id |-> HopId(Len(created) + 1), name |-> hop.host, address |-> target[1], port |-> target[2],
        user |-> target[3], key |-> BaseOf(hop).key, jump |-> NoJump]

LinkTo(n, jump) == linked' = Append(linked, [DeviceOf(n) EXCEPT !.jump = jump])
Skip == skipped' = skipped + 1 /\ UNCHANGED <<linked, byKey, created>>

\* jump_host_for: the device the hop names, created if need be; not one that
\* jumps itself.
LinkThrough(n) ==
    LET target == TargetOf(Parsed(n).jump)
        new == NewJumpHost(Parsed(n).jump)
    IN IF target[3] = NoUser THEN Skip
       ELSE IF target \notin DOMAIN byKey
       THEN /\ created' = Append(created, new) /\ LinkTo(n, new.id)
            /\ Remember(target, [id |-> new.id, jumps |-> FALSE])
            /\ UNCHANGED skipped
       ELSE IF byKey[target].jumps THEN Skip
       ELSE LinkTo(n, byKey[target].id) /\ UNCHANGED <<byKey, created, skipped>>

\* linked, in file order.
Link ==
    /\ stage = "linking" /\ planned # {}
    /\ LET n == First(planned) IN
       /\ planned' = planned \ {n}
       /\ CASE Parsed(n).jump.via = "direct" -> LinkTo(n, NoJump) /\ UNCHANGED <<byKey, created, skipped>>
            [] Parsed(n).jump.via = "hop" -> LinkThrough(n)
            [] OTHER -> Skip
    /\ UNCHANGED <<Given, store, stage, hosts>>

AllLinked ==
    /\ stage = "linking" /\ planned = {} /\ stage' = "saving"
    /\ UNCHANGED <<Given, store, hosts, planned, byKey, created, linked, skipped>>

\* The store's upsert, on disk before the next: created jump hosts first.
Save ==
    /\ stage = "saving"
    /\ \/ /\ created # <<>> /\ store' = Append(store, Head(created))
          /\ created' = Tail(created) /\ UNCHANGED linked
       \/ /\ created = <<>> /\ linked # <<>> /\ store' = Append(store, Head(linked))
          /\ linked' = Tail(linked) /\ UNCHANGED created
    /\ UNCHANGED <<Given, stage, hosts, planned, byKey, skipped>>

SaveFails ==
    /\ stage = "saving" /\ (created # <<>> \/ linked # <<>>) /\ stage' = "failed"
    /\ UNCHANGED <<Given, store, hosts, planned, byKey, created, linked, skipped>>

AllSaved ==
    /\ stage = "saving" /\ created = <<>> /\ linked = <<>> /\ stage' = "done"
    /\ UNCHANGED <<Given, store, hosts, planned, byKey, created, linked, skipped>>

Next == Admit \/ AllAdmitted \/ Link \/ AllLinked \/ Save \/ SaveFails \/ AllSaved
Spec == Init /\ [][Next]_sshvars

-----------------------------------------------------------------------------

FromFile == {d \in Range(store) : d.id.of = "file"}
WrittenAs(d) == Parsed(d.id.n).host
\* What is saved once the import is through.
ThisImport == Range(store) \cup Range(created) \cup Range(linked)

\* A device is never saved as going straight to a host that the file has ssh
\* reach otherwise: every section that gives the host a proxy comes after one
\* that turns it off. And the jump host it does get is where the file's first
\* word on it says.
RoutedAsWritten ==
    \A d \in FromFile :
        LET on(i) == HasProxy(file[i]) /\ Applies(file[i], WrittenAs(d))
        IN IF d.jump = NoJump
           THEN \A i \in DOMAIN file : on(i) /\ JumpOf(file[i]) # Direct =>
                    \E j \in 1..i - 1 : on(j) /\ JumpOf(file[j]) = Direct
           ELSE \E i \in DOMAIN file :
                    /\ on(i) /\ \A j \in 1..i - 1 : ~on(j)
                    /\ JumpOf(file[i]).via = "hop"
                    /\ \A j \in ThisImport : j.id = d.jump => KeyOf(j) = TargetOf(JumpOf(file[i]))

\* A jump host never jumps, so never to itself; the import adds no chain.
OneHop ==
    \A d \in FromFile : d.jump # NoJump =>
        /\ d.id # d.jump
        /\ \E j \in ThisImport : j.id = d.jump /\ j.jump = NoJump

\* What is imported is new: no two devices for one host, port and user.
NoTwins ==
    \A d, e \in Range(store) : d.id.of # "saved" /\ KeyOf(d) = KeyOf(e) => d = e

\* Every host of the file is saved or counted as skipped.
AllCounted ==
    stage = "done" => Cardinality(FromFile) + skipped = Cardinality(DOMAIN ParseHosts(file))

\* What a config file can say again: no two devices for one host, port and user,
\* and jumps only through devices that are there and don't jump themselves.
Sayable(devices) ==
    \A i \in DOMAIN devices :
        /\ \A j \in DOMAIN devices : KeyOf(devices[i]) = KeyOf(devices[j]) => i = j
        /\ devices[i].jump # NoJump => \E h \in DOMAIN devices :
                devices[h].id = devices[i].jump /\ devices[h].jump = NoJump

\* Devices exported come back, with their jump hosts, where nothing is saved.
RoundTrip ==
    stage = "done" /\ origin # <<>> /\ Sayable(origin) => \A d \in Range(origin) : \E e \in Range(store) :
        /\ KeyOf(e) = KeyOf(d) /\ e.key = d.key
        /\ d.jump = NoJump <=> e.jump = NoJump
        /\ d.jump # NoJump => \A via \in Range(origin), other \in Range(store) :
                via.id = d.jump /\ other.id = e.jump => KeyOf(via) = KeyOf(other)

\* What the import says of itself: "a write failing part-way must not leave a
\* saved device pointing at a jump host that was never written".
JumpHostIsThere ==
    \A d \in Range(store) : d.jump # NoJump => \E j \in Range(store) : j.id = d.jump
=============================================================================
