----------------------------- MODULE ConfigStores ----------------------------
(***************************************************************************)
(* What one running instance keeps in memory, on disk and in the keyring:   *)
(* devices, profiles, settings, bookmarks, commands and the open workspace  *)
(* (store.rs, profile_store.rs, settings.rs, bookmark_store.rs,             *)
(* command_library.rs, workspace_store.rs on atomic_file.rs, secret.rs).    *)
(* The commands that change them run one at a time, on the main thread, and *)
(* most are made of several writes (commands/devices.rs, transfer.rs); a    *)
(* reload (commands/config.rs) reads the files on a worker meanwhile; writes *)
(* fail, the program is killed, another instance writes.                    *)
(***************************************************************************)
EXTENDS Naturals, Sequences, Lists

CONSTANTS
    Ids,            \* device ids
    Devices,        \* bound: what a device may be saved as
    Imports,        \* bound: the device files that may be imported
    CommandIds, Texts,
    NoOne,          \* no device, no profile, no secret
    Corrupt,        \* a file's content that doesn't parse
    Budgets         \* bounds: how many commands, reloads, faults there are

VARIABLES
    disk, mem,      \* per file, its content and the store's
    keyring,        \* per device id, the secret stored
    op,             \* the command under way, and how far it is
    worker,         \* the reload under way, and how far it is
    forgotten,      \* history: deletes reported as done
    loose,          \* history: secrets that a failure left behind
    behind,         \* history: the files memory fell behind of, now or once
    unagreed,       \* history: an import acted on a risk not confirmed
    trusted,        \* history: commands the user saved, as they were
    left            \* what remains of the budget

vars == <<disk, mem, keyring, op, worker, forgotten, loose, behind, unagreed, trusted, left>>
history == <<forgotten, loose, unagreed, trusted>>

\* The files a reload reads, in its order, and the one it doesn't.
Reloaded == <<"devices", "profiles", "settings", "bookmarks", "commands">>
ConfigFiles == {Reloaded[i] : i \in DOMAIN Reloaded} \cup {"workspace"}

\* A profile is a saved layout: the devices of its panes. There is one.
NoProfiles == [saved |-> FALSE, panes |-> {}, default |-> FALSE, v1 |-> FALSE]
\* Settings stand for one number, kept within its limits.
FontSizes == 1..2
Sanitized(n) == IF n < 1 THEN 1 ELSE IF n > 2 THEN 2 ELSE n

Empty == [devices |-> <<>>, profiles |-> NoProfiles, settings |-> 1, bookmarks |-> {},
          commands |-> <<>>, workspace |-> 0]
With(f, x, v) == [y \in DOMAIN f \cup {x} |-> IF y = x THEN v ELSE f[y]]
Minus(f, x) == [y \in DOMAIN f \ {x} |-> f[y]]

\* What a file may hold, and its store.
Maps(S, T) == UNION {[s -> T] : s \in SUBSET S}
Contents ==
    [devices |-> Maps(Ids, Devices),
     profiles |-> [saved : BOOLEAN, panes : SUBSET Ids, default : BOOLEAN, v1 : BOOLEAN],
     settings |-> FontSizes, bookmarks |-> SUBSET Ids,
     commands |-> Maps(CommandIds, Texts), workspace |-> 0..2]

\* A device is a record, and one without its jump host too; several may have
\* the same name; a file to import
\* has a device (importing none does nothing); a damaged file is none that
\* could be saved.
StoresConstants ==
    /\ Ids # {} /\ NoOne \notin Ids
    /\ \A d \in Devices :
        /\ d = [name |-> d.name, method |-> d.method, target |-> d.target, jump |-> d.jump,
                risks |-> d.risks, forwards |-> d.forwards]
        /\ d.method \in {"password", "key", "serial"} /\ d.jump \in Ids \cup {NoOne}
        /\ [d EXCEPT !.jump = NoOne] \in Devices
    /\ \A file \in Imports : file \in Seq([id : Ids, device : Devices]) /\ file # <<>>
    /\ \A f \in ConfigFiles : \A content \in Contents[f] : content # Corrupt

\* One device, shown by the default profile, which an older version saved.
Init ==
    /\ \E d \in Devices :
        /\ d.jump = NoOne /\ d.risks = {}
        /\ disk = [Empty EXCEPT
                     !["devices"] = [i \in {CHOOSE i \in Ids : TRUE} |-> d],
                     !["profiles"] = [saved |-> TRUE, default |-> TRUE, v1 |-> TRUE,
                                      panes |-> {CHOOSE i \in Ids : TRUE}]]
        /\ keyring \in [Ids -> {NoOne} \cup {[method |-> d.method, target |-> d.target, jump |-> NoOne]}]
        /\ \A i \in Ids : i \notin DOMAIN disk["devices"] \/ d.method = "serial" => keyring[i] = NoOne
    /\ mem = disk
    /\ op = [do |-> "nothing"] /\ worker = [at |-> 0]
    /\ forgotten = {} /\ loose = {} /\ behind = [f \in ConfigFiles |-> "never"] /\ unagreed = FALSE /\ trusted = <<>>
    /\ left \in Budgets

Spend(what) == left[what] > 0 /\ left' = [left EXCEPT ![what] = @ - 1]
Idle == op' = [do |-> "nothing"]

(* ------------------------------- one store ------------------------------ *)

\* A read under way that began before a write will replace what it wrote.
Overtaken(f) == worker.at > 0 /\ worker.read /\ Reloaded[worker.at] = f

\* Persist-then-commit: what the disk took, memory takes.
Commit(f, content) ==
    /\ disk' = [disk EXCEPT ![f] = content]
    /\ mem' = [mem EXCEPT ![f] = content]
    /\ behind' = [behind EXCEPT ![f] = IF Overtaken(f) THEN "now" ELSE IF @ = "now" THEN "once" ELSE @]

\* write_json fails: the temporary file is removed.
WriteFails == Spend("fault") /\ UNCHANGED <<disk, mem, behind>>
KeyringFails == Spend("fault")

\* What deleting the profile leaves: no default that names nothing.
Deleted(p) == [p EXCEPT !.saved = FALSE, !.panes = {}, !.v1 = FALSE, !.default = FALSE]

\* upsert_into, delete, add_into: an imported command whose id is taken gets
\* a new one.
Renamed(commands, c, text) == CHOOSE i \in CommandIds \ DOMAIN commands : TRUE
AddInto(commands, c, text) ==
    With(commands, IF c \in DOMAIN commands THEN Renamed(commands, c, text) ELSE c, text)

\* The commands that are one write of one file.
ProfileEdits ==
    LET p == mem["profiles"] IN
    {[p EXCEPT !.saved = TRUE, !.panes = s, !.v1 = FALSE] : s \in SUBSET DOMAIN mem["devices"]}
    \cup (IF p.saved THEN {Deleted(p), [p EXCEPT !.default = TRUE, !.v1 = FALSE]} ELSE {})
    \cup {[p EXCEPT !.default = FALSE, !.v1 = FALSE]}
SettingsEdits == {Sanitized(n) : n \in 0..3}
BookmarkEdits ==
    LET marked == mem["bookmarks"]
    IN {marked \cup {i} : i \in DOMAIN mem["devices"]} \cup {marked \ {i} : i \in marked}
WorkspaceEdits == {1, 2}

Edits(f) ==
    CASE f = "profiles" -> ProfileEdits
      [] f = "settings" -> SettingsEdits
      [] f = "bookmarks" -> BookmarkEdits
      [] f = "workspace" -> WorkspaceEdits
      [] OTHER -> {}

Edit ==
    /\ op.do = "nothing" /\ Spend("command")
    /\ \E f \in ConfigFiles : \E content \in Edits(f) : Commit(f, content)
    /\ UNCHANGED <<keyring, op, worker, history>>

\* Validation, a profile or command that isn't there, a write that fails.
EditFails ==
    /\ op.do = "nothing" /\ WriteFails
    /\ UNCHANGED <<keyring, op, worker, history>>

SaveCommand ==
    /\ op.do = "nothing" /\ Spend("command")
    /\ \/ \E c \in CommandIds, t \in Texts :
            /\ Commit("commands", With(mem["commands"], c, t))
            /\ trusted' = With(trusted, c, t)
       \/ \E c \in DOMAIN mem["commands"] :
            /\ Commit("commands", Minus(mem["commands"], c))
            /\ trusted' = Minus(trusted, c)
    /\ UNCHANGED <<keyring, op, worker, forgotten, loose, unagreed>>

\* import_commands: all of them in one write.
ImportCommand ==
    /\ op.do = "nothing" /\ Spend("command")
    /\ DOMAIN mem["commands"] # CommandIds
    /\ \E c \in CommandIds, t \in Texts : Commit("commands", AddInto(mem["commands"], c, t))
    /\ UNCHANGED <<keyring, op, worker, history>>

\* import_profiles: the panes may name any device.
ImportProfile ==
    /\ op.do = "nothing" /\ Spend("command")
    /\ \E s \in SUBSET Ids :
        /\ Commit("profiles", [mem["profiles"] EXCEPT !.saved = TRUE, !.panes = s, !.v1 = FALSE])
        /\ forgotten' = forgotten \ s
    /\ UNCHANGED <<keyring, op, worker, loose, unagreed, trusted>>

(* ---------------------------- saving a device --------------------------- *)

HasSecret(dev) == dev.method # "serial"
SecretFor(dev) == [method |-> dev.method, target |-> dev.target, jump |-> dev.jump]
SentTo(secret, dev) == [method |-> secret.method, target |-> dev.target, jump |-> dev.jump]

\* A new device gets an id of its own.
Unused == {i \in Ids : /\ i \notin DOMAIN mem["devices"] \cup mem["profiles"].panes \cup mem["bookmarks"]
                       /\ disk["devices"] # Corrupt /\ i \notin DOMAIN disk["devices"]
                       /\ keyring[i] = NoOne}

StartSave ==
    /\ op.do = "nothing" /\ Spend("command")
    /\ \E i \in Ids, dev \in Devices, typed \in BOOLEAN :
        /\ dev.jump \in {NoOne} \cup (DOMAIN mem["devices"] \ {i})
        /\ i \in DOMAIN mem["devices"] \/ i \in Unused
        /\ op' = [do |-> "secret", id |-> i, device |-> dev,
                  typed |-> typed /\ HasSecret(dev)]
        /\ forgotten' = forgotten \ {i}
    /\ UNCHANGED <<disk, mem, keyring, worker, behind, loose, unagreed, trusted>>

\* write_secret_for_save: the secret typed; none, once the method changed.
SecretSaved(o) ==
    IF o.typed THEN SecretFor(o.device)
    ELSE IF o.id \in DOMAIN mem["devices"] /\ mem["devices"][o.id].method # o.device.method
         THEN NoOne
         ELSE keyring[o.id]

\* The keyring first.
SaveSecret ==
    /\ op.do = "secret"
    /\ \/ /\ keyring' = [keyring EXCEPT ![op.id] = SecretSaved(op)]
          /\ op' = [op EXCEPT !.do = "device"]
          /\ loose' = IF keyring'[op.id] # keyring[op.id] THEN loose \cup {op.id} ELSE loose
          /\ UNCHANGED left
       \/ KeyringFails /\ Idle /\ UNCHANGED <<keyring, loose>>
    /\ UNCHANGED <<disk, mem, worker, forgotten, behind, unagreed, trusted>>

\* DeviceStore::upsert, of the device saved. A secret kept is now meant for
\* the device as the user changed it.
SaveDevice ==
    /\ op.do = "device" /\ Idle
    /\ \/ /\ Commit("devices", With(mem["devices"], op.id, op.device))
          /\ loose' = IF keyring[op.id] = NoOne \/ keyring[op.id].method = op.device.method
                      THEN loose \ {op.id} ELSE loose
          /\ keyring' = [keyring EXCEPT ![op.id] = IF @ = NoOne THEN @ ELSE SentTo(@, op.device)]
          /\ UNCHANGED left
       \/ WriteFails /\ UNCHANGED <<loose, keyring>>
    /\ UNCHANGED <<worker, forgotten, unagreed, trusted>>

(* --------------------------- deleting a device -------------------------- *)

\* DeviceStore::delete: nothing else is done for a device that isn't there.
StartDelete ==
    /\ op.do = "nothing" /\ Spend("command")
    /\ \E i \in DOMAIN mem["devices"] :
        /\ Commit("devices", Minus(mem["devices"], i))
        /\ op' = [do |-> "forget", id |-> i, failed |-> FALSE]
    /\ UNCHANGED <<keyring, worker, history>>

\* Mutant: a cleanup that failed is not remembered.
NextCheerful(step, failed) == op' = [op EXCEPT !.do = step]

\* The cleanups run whether or not one of them failed.
NextCleanup(step, failed) == op' = [op EXCEPT !.do = step, !.failed = @ \/ failed]

ForgetSecret ==
    /\ op.do = "forget"
    /\ \/ /\ keyring' = [keyring EXCEPT ![op.id] = NoOne] /\ loose' = loose \ {op.id}
          /\ NextCleanup("panes", FALSE) /\ UNCHANGED left
       \/ /\ KeyringFails /\ NextCleanup("panes", TRUE)
          /\ loose' = loose \cup {op.id} /\ UNCHANGED keyring
    /\ UNCHANGED <<disk, mem, worker, forgotten, behind, unagreed, trusted>>

\* ProfileStore::clear_device, which writes only what changed.
ClearPanes ==
    /\ op.do = "panes"
    /\ LET p == mem["profiles"] IN
       \/ /\ op.id \in p.panes
          /\ Commit("profiles", [p EXCEPT !.panes = @ \ {op.id}, !.v1 = FALSE])
          /\ NextCleanup("jumps", FALSE) /\ UNCHANGED left
       \/ /\ op.id \notin p.panes
          /\ NextCleanup("jumps", FALSE) /\ UNCHANGED <<disk, mem, behind, left>>
       \/ op.id \in p.panes /\ WriteFails /\ NextCleanup("jumps", TRUE)
    /\ UNCHANGED <<keyring, worker, history>>

Jumping(i) == {j \in DOMAIN mem["devices"] : mem["devices"][j].jump = i}

\* DeviceStore::clear_proxy_jump, and the delete's result.
ClearJumps ==
    /\ op.do = "jumps" /\ Idle
    /\ LET js == Jumping(op.id) IN
       \/ /\ js # {}
          /\ Commit("devices", [j \in DOMAIN mem["devices"] |->
                IF j \in js THEN [mem["devices"][j] EXCEPT !.jump = NoOne] ELSE mem["devices"][j]])
          /\ keyring' = [j \in Ids |-> IF j \in js /\ keyring[j] # NoOne
                                       THEN [keyring[j] EXCEPT !.jump = NoOne] ELSE keyring[j]]
          /\ forgotten' = IF op.failed THEN forgotten ELSE forgotten \cup {op.id}
          /\ UNCHANGED left
       \/ /\ js = {}
          /\ forgotten' = IF op.failed THEN forgotten ELSE forgotten \cup {op.id}
          /\ UNCHANGED <<disk, mem, behind, keyring, left>>
       \/ js # {} /\ WriteFails /\ UNCHANGED <<keyring, forgotten>>
    /\ UNCHANGED <<worker, loose, unagreed, trusted>>

(* --------------------------- importing devices -------------------------- *)

\* device_risks: what the device would do here, and whether its forwards take
\* the place of a saved device's. They are listed by its name, not its id.
DeviceRisks(d, saved) ==
    [name |-> d.device.name,
     risks |-> d.device.risks \cup (IF d.device.forwards /\ d.id \in DOMAIN saved THEN {"replaces"} ELSE {})]

\* risks_of: in the order of the file, the devices that have any.
RisksOf(file, saved) ==
    Without([n \in DOMAIN file |-> DeviceRisks(file[n], saved)],
            {[name |-> file[n].device.name, risks |-> {}] : n \in DOMAIN file})

\* preview_devices_import, and the dialog that lists the risks.
Preview ==
    /\ op.do = "nothing" /\ Spend("command")
    /\ \E file \in Imports :
        op' = [do |-> "confirm", confirmed |-> RisksOf(file, mem["devices"])]
    /\ UNCHANGED <<disk, mem, keyring, worker, behind, history>>

\* The list for the file as it now is, among the devices as they now are: a
\* file with other ids, the same names and the same risks is taken.
Agreed(file) == RisksOf(file, mem["devices"]) = op.confirmed

\* import_devices: an invalid file, or one that isn't as confirmed, is refused.
StartImport ==
    /\ op.do = "confirm"
    /\ \/ \E file \in Imports :
            /\ Agreed(file)
            /\ op' = [do |-> "drop", file |-> file, n |-> 1,
                      saved |-> mem["devices"], confirmed |-> op.confirmed]
       \/ Idle
    /\ UNCHANGED <<disk, mem, keyring, worker, behind, history, left>>

\* Mutant: only the method decides whose secret it is.
SameMethod(saved, dev) == saved.method = dev.method

\* secret_target: what a device's secret is sent to.
SameTarget(saved, dev) ==
    \/ saved.method = "serial" /\ dev.method = "serial"
    \/ SecretFor(saved) = SecretFor(dev)

\* drop_inherited_secret, for each device before any is saved: a keyring that
\* fails stops the import, unless no saved device has the id.
DropSecret ==
    /\ op.do = "drop"
    /\ LET d == op.file[op.n]
           next == IF op.n < Len(op.file) THEN [op EXCEPT !.n = @ + 1]
                   ELSE [op EXCEPT !.do = "add", !.n = 1]
           saved == d.id \in DOMAIN op.saved
       IN \/ /\ saved /\ SameTarget(op.saved[d.id], d.device)
             /\ op' = next /\ UNCHANGED <<keyring, loose, left>>
          \/ /\ ~(saved /\ SameTarget(op.saved[d.id], d.device))
             /\ \/ /\ keyring' = [keyring EXCEPT ![d.id] = NoOne] /\ loose' = loose \ {d.id}
                   /\ op' = next /\ UNCHANGED left
                \/ /\ KeyringFails
                   /\ IF saved THEN Idle ELSE op' = next
                   /\ loose' = loose \cup {d.id} /\ UNCHANGED keyring
    /\ UNCHANGED <<disk, mem, worker, forgotten, behind, unagreed, trusted>>

\* The saved devices that the import itself didn't bring.
SavedBefore(o) ==
    [i \in DOMAIN mem["devices"] \ {o.file[n].id : n \in 1..(o.n - 1)} |-> mem["devices"][i]]

\* The user confirmed these risks, of a device of this name.
Confirmed(confirmed, device) ==
    \/ device.risks = {}
    \/ \E n \in DOMAIN confirmed :
        confirmed[n].name = device.name /\ device.risks \subseteq confirmed[n].risks

\* Each device is saved by itself; a write that fails ends the import there.
AddDevice ==
    /\ op.do = "add"
    /\ LET d == op.file[op.n] IN
       \/ /\ Commit("devices", With(mem["devices"], d.id, d.device))
          /\ unagreed' = (unagreed \/ ~ Confirmed(op.confirmed, DeviceRisks(d, SavedBefore(op))))
          /\ forgotten' = forgotten \ {d.id, d.device.jump}
          /\ IF op.n < Len(op.file) THEN op' = [op EXCEPT !.n = @ + 1] ELSE Idle
          /\ UNCHANGED left
       \/ WriteFails /\ Idle /\ UNCHANGED <<unagreed, forgotten>>
    /\ UNCHANGED <<keyring, worker, loose, trusted>>

(* ------------------------- reload, restart, others ---------------------- *)

StartReload ==
    /\ worker.at = 0 /\ Spend("reload")
    /\ worker' = [at |-> 1, read |-> FALSE]
    /\ UNCHANGED <<disk, mem, keyring, op, behind, history>>

NextFile == worker' = IF worker.at < Len(Reloaded) THEN [at |-> worker.at + 1, read |-> FALSE] ELSE [at |-> 0]

\* The read, without the store's lock: a corrupt file is moved aside, an
\* unreadable one leaves the store as it is.
ReadFile ==
    /\ worker.at > 0 /\ ~worker.read
    /\ LET f == Reloaded[worker.at] IN
       \/ /\ worker' = [at |-> worker.at, read |-> TRUE,
                        found |-> IF disk[f] = Corrupt THEN Empty[f] ELSE disk[f]]
          /\ disk' = [disk EXCEPT ![f] = IF @ = Corrupt THEN Empty[f] ELSE @]
          /\ UNCHANGED left
       \/ Spend("fault") /\ NextFile /\ UNCHANGED disk
    /\ UNCHANGED <<mem, keyring, op, behind, history>>

\* What was read replaces what is in memory.
Swap ==
    /\ worker.at > 0 /\ worker.read
    /\ LET f == Reloaded[worker.at] IN
        /\ mem' = [mem EXCEPT ![f] = worker.found]
        /\ behind' = [behind EXCEPT ![f] = IF @ = "now" /\ worker.found = disk[f] THEN "once" ELSE @]
        /\ trusted' = IF f = "commands" THEN worker.found ELSE trusted
    /\ NextFile
    /\ UNCHANGED <<disk, keyring, op, forgotten, loose, unagreed, left>>

\* The program is killed, and started again: a file that can't be read starts
\* empty, and a profile file of the old version is converted.
Restart ==
    /\ Spend("restart")
    /\ \E unread \in SUBSET {"devices"} :
        /\ behind' = [f \in ConfigFiles |-> IF f \in unread THEN "now" ELSE IF behind[f] = "now" THEN "once" ELSE behind[f]]
        /\ LET found == [f \in ConfigFiles |-> IF f \in unread \/ disk[f] = Corrupt THEN Empty[f] ELSE disk[f]]
               kept == [f \in ConfigFiles |-> IF disk[f] = Corrupt THEN Empty[f] ELSE disk[f]]
           IN \E converted \in BOOLEAN :
               /\ converted => found["profiles"].v1
               /\ mem' = found
               /\ disk' = [kept EXCEPT !["profiles"].v1 = @ /\ ~converted]
               /\ trusted' = found["commands"]
    /\ Idle /\ worker' = [at |-> 0]
    /\ UNCHANGED <<keyring, forgotten, loose, unagreed>>

\* Another instance saves or deletes a device, and clears up after it; or a
\* file is damaged.
Others ==
    /\ Spend("others")
    /\ \/ /\ disk["devices"] # Corrupt /\ disk["profiles"] # Corrupt
          /\ \/ \E i \in Ids, dev \in Devices :
                  /\ dev.jump = NoOne
                  /\ disk' = [disk EXCEPT !["devices"] = With(@, i, dev)]
                  /\ keyring' = [keyring EXCEPT ![i] = IF HasSecret(dev) THEN SecretFor(dev) ELSE NoOne]
                  /\ forgotten' = forgotten \ {i}
             \/ \E i \in DOMAIN disk["devices"] :
                  /\ disk' = [disk EXCEPT !["devices"] = Minus(@, i), !["profiles"].panes = @ \ {i}]
                  /\ keyring' = [keyring EXCEPT ![i] = NoOne]
                  /\ UNCHANGED forgotten
       \/ /\ disk' = [disk EXCEPT !["devices"] = Corrupt]
          /\ UNCHANGED <<keyring, forgotten>>
    /\ behind' = [behind EXCEPT !["devices"] = "now", !["profiles"] = "now"]
    /\ UNCHANGED <<mem, op, worker, loose, unagreed, trusted>>

User == Edit \/ EditFails \/ SaveCommand \/ ImportCommand \/ ImportProfile \/ StartSave \/ StartDelete \/ Preview
Steps ==
    \/ SaveSecret \/ SaveDevice \/ ForgetSecret \/ ClearPanes \/ ClearJumps
    \/ StartImport \/ DropSecret \/ AddDevice
Reload == StartReload \/ ReadFile \/ Swap

Next == User \/ Steps \/ Reload \/ Restart \/ Others
Spec == Init /\ [][Next]_vars

-----------------------------------------------------------------------------

TypeOK ==
    /\ \A f \in ConfigFiles \ {"devices"} : disk[f] # Corrupt
    /\ \A f \in ConfigFiles : mem[f] \in Contents[f]
    /\ \A i \in Ids : keyring[i] # NoOne => keyring[i].method \in {"password", "key"}
    /\ op.do \in {"nothing", "secret", "device", "forget", "panes", "jumps", "confirm", "drop", "add"}
    /\ worker.at \in 0..Len(Reloaded)
    /\ forgotten \subseteq Ids /\ loose \subseteq Ids /\ unagreed \in BOOLEAN
    /\ behind \in [ConfigFiles -> {"never", "once", "now"}]

\* A failed write, wherever a command is when it happens, leaves memory as the
\* disk is: they differ only where another instance wrote, a launch couldn't
\* read, or a reload was overtaken by a save.
MemoryIsDisk ==
    \A f \in ConfigFiles : behind[f] # "now" =>
        IF f = "profiles" THEN [mem[f] EXCEPT !.v1 = FALSE] = [disk[f] EXCEPT !.v1 = FALSE]
        ELSE mem[f] = disk[f]

\* The default layout is one that is saved.
DefaultIsSaved ==
    \A where \in {disk, mem} : where["profiles"].default => where["profiles"].saved

\* Once a delete is reported as done, nothing that is saved knows the device:
\* no secret, no pane, no device that jumps through it.
DeletedIsForgotten ==
    behind["devices"] = "never" /\ behind["profiles"] = "never" =>
        \A i \in forgotten :
            /\ keyring[i] = NoOne /\ i \notin mem["profiles"].panes
            /\ i \notin DOMAIN mem["devices"] /\ Jumping(i) = {}

\* A stored secret is one the user gave for what the saved device is: its
\* method, host and jump host. Whatever an import, an edit or a failed step
\* does, it is not sent elsewhere, unless a save was cut short after the
\* keyring and before the device, or the keyring refused to forget.
SecretsStayPut ==
    behind["devices"] = "never" =>
        \A i \in DOMAIN disk["devices"] \ loose :
            keyring[i] # NoOne => keyring[i] = SecretFor(disk["devices"][i])

\* An import saves no device with a risk the user hasn't confirmed for one of
\* its name, though the file and the devices may change after the preview: an
\* id that is saved by then replaces its forwards only where that was confirmed.
RisksAgreed == unagreed => behind["devices"] # "never"

\* A command is what the user saved under its name: no import changes it.
CommandsTrusted ==
    \A c \in DOMAIN trusted : c \in DOMAIN mem["commands"] /\ mem["commands"][c] = trusted[c]
=============================================================================
