---------------------------- MODULE SftpTransfers ----------------------------
(***************************************************************************)
(* The SFTP connection of one device and the transfers over it (sftp.rs,     *)
(* commands/sftp.rs). The panel's queue runs one transfer at a time; the user *)
(* may cancel it, disconnect or connect anew at any await of it, and the       *)
(* server may go away. `files` is the side written to: local for a download,   *)
(* remote for an upload.                                                      *)
(***************************************************************************)
EXTENDS Integers, Sequences, SequencesExt

CONSTANTS
  Specs,      \* the transfers the panel asks for, see SpecShapes
  Names,      \* the file names in them
  ConnIds,    \* connections that may be opened: 1 .. n
  Chunks,     \* length of every file, in TRANSFER_CHUNKs
  MaxJobs     \* bound: transfers started

EntryTypes == {"file", "dir", "link", "special", "badName"}

\* A job over entries in the order they are walked: a single file is one entry;
\* "edit" is overwrite_from_path; `policy` is what a folder does with what exists.
SpecShapes ==
  [kind : {"download", "upload", "edit", "remove"}, tree : BOOLEAN,
   policy : {"overwrite", "skip", "rename"}, entries : Seq([name : Names, type : EntryTypes])]

\* partial_path
Part(name) == name \o ".part"

Paths == Names \cup {Part(n) : n \in Names}

\* No entry is met twice, a job that is no folder is one file, as an edit is, and
\* nobody names a file like the scratch file of another.
TransfersConstants ==
  /\ Specs # {} /\ Specs \subseteq SpecShapes
  /\ \A s \in Specs :
       /\ \A i, j \in DOMAIN s.entries : s.entries[i].name = s.entries[j].name => i = j
       /\ ~s.tree /\ s.kind # "remove" => Len(s.entries) = 1
       /\ s.kind = "edit" => ~s.tree
  /\ \A n \in Names : Part(n) \notin Names /\ \A m \in Names : Part(m) = Part(n) => m = n
  /\ ConnIds \subseteq Nat \ {0}
  /\ Chunks \in Nat /\ MaxJobs \in Nat

VARIABLES
  mapped,      \* SftpManager.conns: the device's connection, or 0
  conns,       \* each connection: "none", "dialing", "open", "closed"
  spec,        \* the running or last job
  job,         \* how far it is
  registered,  \* SftpManager.transfers has its cancel flag
  cancelled,   \* the flag is set
  files, before,  \* the target side now, and when the job started
  skipped,     \* entries it reports as skipped
  outcome,     \* "none", "ok", "cancelled", "failed", "unclosed"
  started

vars == <<mapped, conns, spec, job, registered, cancelled, files, before, skipped, outcome, started>>
connVars == <<mapped, conns>>
jobVars == <<spec, job, registered, cancelled, files, before, skipped, outcome, started>>

Steps == {"idle", "listing", "next", "opening", "copying", "closing", "removing"}

TypeOK ==
  /\ mapped \in ConnIds \cup {0}
  /\ conns \in [ConnIds -> {"none", "dialing", "open", "closed"}]
  /\ spec \in Specs
  /\ job.step \in Steps /\ job.conn \in ConnIds \cup {0}
  /\ job.i \in 1 .. Len(spec.entries) + 1 /\ job.at \in 0 .. Chunks /\ job.keep \in BOOLEAN
  /\ {registered, cancelled} \subseteq BOOLEAN /\ (cancelled => registered)
  /\ files \in [Paths -> {"absent", "old", "partial", "new"}]
  /\ before \in [Paths -> {"absent", "old"}]
  /\ skipped \subseteq Names
  /\ outcome \in {"none", "ok", "cancelled", "failed", "unclosed"}
  /\ started \in 0 .. MaxJobs

Idle == [step |-> "idle", conn |-> 0, i |-> 1, at |-> 0, keep |-> FALSE]

Init ==
  /\ mapped = 0
  /\ conns = [c \in ConnIds |-> "none"]
  /\ spec = CHOOSE s \in Specs : TRUE
  /\ job = Idle
  /\ registered = FALSE /\ cancelled = FALSE
  /\ files = [p \in Paths |-> "absent"] /\ before = files
  /\ skipped = {}
  /\ outcome = "none"
  /\ started = 0

Running == job.step # "idle"
Reachable == conns[job.conn] = "open"
Entry == spec.entries[job.i]
Target == Entry.name

-----------------------------------------------------------------------------
(* The connection. *)

\* A connection the map let go of ends with its last user (Arc<SftpConn>).
Released(c) == IF c # 0 /\ ~(Running /\ job.conn = c) THEN "closed" ELSE "open"

\* SftpManager::connect: establish_target.
Dial(c) ==
  /\ conns[c] = "none" /\ (c > 1 => conns[c - 1] # "none")
  /\ conns' = [conns EXCEPT ![c] = "dialing"]
  /\ UNCHANGED <<mapped, jobVars>>

\* Refused, no subsystem, or no home directory: nothing is stored.
DialFails(c) ==
  /\ conns[c] = "dialing"
  /\ conns' = [conns EXCEPT ![c] = "closed"]
  /\ UNCHANGED <<mapped, jobVars>>

\* The new connection replaces the device's old one.
Store(c) ==
  /\ conns[c] = "dialing"
  /\ mapped' = c
  /\ conns' = [d \in ConnIds |->
                 IF d = c THEN "open"
                 ELSE IF d = mapped /\ conns[d] = "open" THEN Released(d) ELSE conns[d]]
  /\ UNCHANGED jobVars

\* disconnect, disconnect_all, close_conn: ended explicitly, whoever uses it.
Disconnect ==
  /\ mapped # 0
  /\ mapped' = 0
  /\ conns' = [conns EXCEPT ![mapped] = "closed"]
  /\ UNCHANGED jobVars

\* The transport ends; the map still holds it.
ServerDies(c) ==
  /\ conns[c] = "open"
  /\ conns' = [conns EXCEPT ![c] = "closed"]
  /\ UNCHANGED <<mapped, jobVars>>

-----------------------------------------------------------------------------
(* A transfer starts and ends. *)

FirstStep(s) ==
  IF s.kind = "remove" THEN "removing" ELSE IF s.tree THEN "listing" ELSE "opening"

\* fresh_local_path: a renamed download meets nothing. A renamed upload may: a
\* name whose stat fails passes for free (remote_exists).
MayExist(s) ==
  IF s.policy = "rename" /\ s.kind = "download" THEN {} ELSE {e.name : e \in Range(s.entries)}

\* conn_of, begin_transfer; what the target side holds is up to its owner.
Start(s) ==
  /\ ~Running /\ started < MaxJobs
  /\ started' = started + 1
  /\ spec' = s
  /\ skipped' = {}
  /\ cancelled' = FALSE
  /\ \E existing \in SUBSET MayExist(s) :
       before' = [p \in Paths |-> IF p \in existing \/ (s.kind = "remove" /\ p \in Names)
                                  THEN "old" ELSE "absent"]
  /\ files' = before'
  /\ IF mapped = 0
     THEN outcome' = "failed" /\ registered' = FALSE /\ job' = Idle
     ELSE /\ outcome' = "none"
          /\ registered' = (s.kind # "remove")
          /\ job' = [Idle EXCEPT !.step = FirstStep(s), !.conn = mapped]
  /\ UNCHANGED connVars

\* cancel_transfer
Cancel ==
  /\ registered
  /\ cancelled' = TRUE
  /\ UNCHANGED <<connVars, spec, job, registered, files, before, skipped, outcome, started>>

\* TransferGuard, end_transfer
End(how) ==
  /\ outcome' = how
  /\ job' = [job EXCEPT !.step = "idle"]
  /\ registered' = FALSE /\ cancelled' = FALSE
  /\ conns' = IF job.conn # mapped /\ Reachable THEN [conns EXCEPT ![job.conn] = "closed"] ELSE conns
  /\ UNCHANGED <<mapped, spec, before, started>>

GoTo(step) ==
  /\ job' = [job EXCEPT !.step = step]
  /\ UNCHANGED <<connVars, spec, registered, cancelled, before, outcome, started>>

Advance ==
  /\ job' = [job EXCEPT !.step = "next", !.i = @ + 1, !.at = 0]
  /\ UNCHANGED <<connVars, spec, registered, cancelled, before, outcome, started>>

-----------------------------------------------------------------------------
(* download_tree, upload_tree. *)

\* The target folder is created and the source listed (walk_local is local).
List ==
  /\ job.step = "listing"
  /\ \/ (spec.kind = "download" => Reachable) /\ GoTo("next")
     \/ End("failed")
  /\ UNCHANGED <<files, skipped>>

TreeEnds ==
  /\ job.step = "next" /\ job.i > Len(spec.entries)
  /\ End("ok")
  /\ UNCHANGED <<files, skipped>>

TreeCancelled ==
  /\ job.step = "next" /\ job.i <= Len(spec.entries) /\ cancelled
  /\ End("cancelled")
  /\ UNCHANGED <<files, skipped>>

AtEntry == job.step = "next" /\ job.i <= Len(spec.entries) /\ ~cancelled

\* entry_action, link_action: a link is a file if it leads to one.
EntryActions ==
  CASE Entry.type = "dir" -> {"Descend"}
    [] Entry.type = "file" -> {"Fetch"}
    [] Entry.type = "link" -> IF Reachable THEN {"Fetch", "Skip"} ELSE {"Skip"}
    [] OTHER -> {"Skip"}

\* walk_local_entry: links are passed over, names that are no Unicode reported.
WalkActions ==
  CASE Entry.type = "dir" -> {"Descend"}
    [] Entry.type = "file" -> {"Fetch"}
    [] Entry.type = "badName" -> {"Skip"}
    [] OTHER -> {"Pass"}

\* fetch_file sees the local file; upload_tree's stat may fail: then it uploads.
Existing == IF spec.kind = "download" THEN {files[Target] # "absent"}
            ELSE {FALSE} \cup {Reachable /\ files[Target] # "absent"}

Fetch ==
  /\ \/ TRUE \in Existing /\ spec.policy = "skip" /\ Advance
     \/ (FALSE \in Existing \/ spec.policy # "skip") /\ GoTo("opening")
  /\ UNCHANGED <<files, skipped>>

\* A folder that cannot be created or listed ends a download; an upload tries
\* the files in it all the same.
Descend ==
  /\ \/ (spec.kind = "download" => Reachable) /\ Advance
     \/ spec.kind = "download" /\ End("failed")
  /\ UNCHANGED <<files, skipped>>

TreeEntry ==
  /\ AtEntry
  /\ \E action \in IF spec.kind = "download" THEN EntryActions ELSE WalkActions :
       \/ action = "Fetch" /\ Fetch
       \/ action = "Descend" /\ Descend
       \/ action = "Skip" /\ skipped' = skipped \cup {Target} /\ Advance /\ UNCHANGED files
       \/ action = "Pass" /\ Advance /\ UNCHANGED <<files, skipped>>

-----------------------------------------------------------------------------
(* One file: download_to_file, upload_from_file. *)

\* Where the bytes land.
Written == IF spec.kind = "download" THEN Part(Target) ELSE Target

\* The partial file is removed; an upload's, if it did not exist before and the
\* server still answers.
FileFails(how) ==
  /\ End(how)
  /\ files' = IF spec.kind = "download" \/ (~job.keep /\ Reachable)
              THEN [files EXCEPT ![Written] = "absent"] ELSE files
  /\ UNCHANGED skipped

\* download_into_scratch: the source first, then the scratch file.
OpenDownload ==
  /\ job.step = "opening" /\ spec.kind = "download"
  /\ \/ Reachable /\ files' = [files EXCEPT ![Written] = "partial"] /\ GoTo("copying")
        /\ UNCHANGED skipped
     \/ FileFails("failed")

\* Mutant: only a target that is seen is kept.
KeepIfSeen == IF spec.kind = "edit" THEN {TRUE} ELSE {FALSE, files[Target] # "absent"}

\* keep_if_existing: a target that exists, or may, is never deleted.
KeepIfExisting == IF spec.kind = "edit" THEN {TRUE} ELSE {files[Target] # "absent", TRUE}

\* upload_from_file: a source that cannot be read touches nothing.
OpenUpload ==
  /\ job.step = "opening" /\ spec.kind # "download"
  /\ \/ /\ Reachable
        /\ files' = [files EXCEPT ![Target] = "partial"]
        /\ \E keep \in KeepIfExisting : job' = [job EXCEPT !.step = "copying", !.keep = keep]
        /\ UNCHANGED <<connVars, spec, registered, cancelled, before, outcome, started>>
     \/ End("failed") /\ UNCHANGED files
  /\ UNCHANGED skipped

\* Mutant: a read of a dead connection is waited for.
CopyWaiting ==
  /\ job.step = "copying"
  /\ \/ cancelled /\ FileFails("cancelled")
     \/ ~cancelled /\ Reachable /\ FileFails("failed")
     \/ /\ ~cancelled /\ Reachable /\ job.at < Chunks
        /\ job' = [job EXCEPT !.at = @ + 1]
        /\ UNCHANGED <<connVars, spec, registered, cancelled, files, before, skipped, outcome, started>>
     \/ ~cancelled /\ Reachable /\ job.at = Chunks /\ GoTo("closing") /\ UNCHANGED <<files, skipped>>

\* One chunk per step; the flag is looked at before each.
Copy ==
  /\ job.step = "copying"
  /\ \/ cancelled /\ FileFails("cancelled")
     \/ ~cancelled /\ FileFails("failed")
     \/ /\ ~cancelled /\ Reachable /\ job.at < Chunks
        /\ job' = [job EXCEPT !.at = @ + 1]
        /\ UNCHANGED <<connVars, spec, registered, cancelled, files, before, skipped, outcome, started>>
     \/ ~cancelled /\ Reachable /\ job.at = Chunks /\ GoTo("closing") /\ UNCHANGED <<files, skipped>>

FileDone == IF spec.tree THEN Advance ELSE End("ok")

\* The finished download takes its target's place.
RenameScratch ==
  /\ job.step = "closing" /\ spec.kind = "download"
  /\ \/ /\ files' = [files EXCEPT ![Target] = "new", ![Written] = "absent"]
        /\ UNCHANGED skipped
        /\ FileDone
     \/ FileFails("failed")

\* A close that fails is reported; the file stays as it is.
CloseUpload ==
  /\ job.step = "closing" /\ spec.kind # "download"
  /\ \/ Reachable /\ files' = [files EXCEPT ![Target] = "new"] /\ FileDone
     \/ End("unclosed") /\ UNCHANGED files
  /\ UNCHANGED skipped

\* remove_tree, remove_file, remove_dir: children first, links as links.
RemoveNext ==
  /\ job.step = "removing"
  /\ \/ /\ Reachable /\ job.i <= Len(spec.entries)
        /\ files' = [files EXCEPT ![Target] = "absent"]
        /\ job' = [job EXCEPT !.i = @ + 1]
        /\ UNCHANGED <<connVars, spec, registered, cancelled, before, outcome, started>>
     \/ Reachable /\ job.i > Len(spec.entries) /\ End("ok") /\ UNCHANGED files
     \/ End("failed") /\ UNCHANGED files
  /\ UNCHANGED skipped

JobStep ==
  \/ List \/ TreeEnds \/ TreeCancelled \/ TreeEntry
  \/ OpenDownload \/ OpenUpload \/ Copy \/ RenameScratch \/ CloseUpload
  \/ RemoveNext

Next ==
  \/ \E c \in ConnIds : Dial(c) \/ DialFails(c) \/ Store(c) \/ ServerDies(c)
  \/ Disconnect
  \/ \E s \in Specs : Start(s)
  \/ Cancel
  \/ JobStep

Spec == Init /\ [][Next]_vars

\* Every request is answered or fails: keepalives end a silent connection.
LiveSpec == Spec /\ WF_vars(JobStep)

-----------------------------------------------------------------------------
(* Properties. *)

Ended(outcomes) == ~Running /\ outcome \in outcomes

\* A file the user had is never lost: a download leaves the old or the whole new
\* one, a merge leaves it alone, a failed upload never deletes it
\* (download_to_file, keep_if_existing).
ExistingSurvives ==
  \A p \in Paths : before[p] = "old" /\ spec.kind # "remove" =>
    /\ files[p] # "absent"
    /\ spec.kind = "download" => files[p] = "old" \/ (files[p] = "new" /\ ~(spec.tree /\ spec.policy = "skip"))

\* A download that ended leaves no scratch file; an upload that failed leaves
\* nothing it created, unless the server is gone, its close failed, or the
\* target may have existed.
FailureCleansUp ==
  Ended({"ok", "failed", "cancelled"}) =>
    /\ \A n \in Names : spec.kind = "download" /\ Part(n) \notin Names => files[Part(n)] = "absent"
    /\ spec.kind = "upload" /\ job.conn # 0 /\ ~job.keep /\ Reachable =>
         \A p \in Paths : before[p] = "absent" => files[p] \in {"absent", "new"}

\* A folder transfer that reports success brought every file, and names every
\* other entry it left out, but for the local links of an upload; a folder that
\* was removed left nothing behind.
OkMeansDone ==
  Ended({"ok"}) =>
    \A e \in Range(spec.entries) :
      IF spec.kind = "remove" THEN files[e.name] = "absent" ELSE
      \/ e.type = "dir" \/ (e.type \in {"link", "special"} /\ spec.kind = "upload")
      \/ files[e.name] = "new" \/ (spec.tree /\ spec.policy = "skip" /\ files[e.name] = "old")
      \/ e.type # "file" /\ e.name \in skipped

\* No transport stays open that neither the map nor a transfer knows.
NoLeakedConnection ==
  \A c \in ConnIds : conns[c] = "open" => c = mapped \/ (Running /\ job.conn = c)

\* A transfer never hangs, whatever becomes of its connection.
TransfersEnd == Running ~> ~Running
=============================================================================
