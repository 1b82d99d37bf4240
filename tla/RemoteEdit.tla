------------------------------ MODULE RemoteEdit ------------------------------
(***************************************************************************)
(* A remote file edited in place (sftp_edit.rs, commands/sftp_edit.rs; the    *)
(* panel's side is editSessions.ts): a private copy, an editor that saves it   *)
(* whenever it likes, a debounced watcher, and a sync that uploads each save   *)
(* unless somebody else changed the remote file since the last one. Contents   *)
(* are version numbers, so a digest is the content it is of; Torn is a file    *)
(* half written. A stamp is only ever compared with those that are held; every  *)
(* change gives the file another (the stamp's one-second resolution is a       *)
(* stated limit of RemoteStamp).                                              *)
(***************************************************************************)
EXTENDS Integers

CONSTANTS
  MaxVersions,   \* bound: contents ever saved, by the user and by others
  MaxOpens,      \* bound: times the file is opened and the device connected
  Starts         \* bound: how much of both is used up before

EditConstants ==
  /\ MaxVersions \in Nat /\ MaxOpens \in Nat
  /\ Starts \subseteq [versions : 0 .. MaxVersions, opens : 0 .. MaxOpens]

Torn == 0
NoStamp == 0
Stamps == 1 .. 4
Contents == 0 .. MaxVersions + 1

VARIABLES
  remote,    \* the file on the server: [content, stamp]
  conn,      \* the connection in the map: "up", "dead" (not noticed) or "none"
  leaving,   \* an sftp_disconnect took a connection away and has not ended its edits
  edit,      \* EditManager.edits has it
  copy,      \* the local copy: [content, exists, locked, old]
  base,      \* its Baseline: [stamp, digest]
  op,        \* what runs for it: [kind, step, stamp, snap, overwrite]
  front,     \* EditEntry.status, or "none"
  again,     \* EditEntry.again
  stale,     \* the generation moved since the opening that is under way began
  burst,     \* the watcher saw a change it has not reported
  event,     \* sftp_edit_changed is on its way
  closing,   \* sftp_edit_close is on its way
  others,    \* ghost: since the edit's baseline, others made a change it must not
             \* lose ("guarded") or cannot tell from its own ("mixed"), or "none"
  versions, opens

vars == <<remote, conn, leaving, edit, copy, base, op, front, again, stale, burst, event, closing,
          others, versions, opens>>
frontVars == <<front, again, stale, event, closing>>
worldVars == <<conn, leaving, versions, opens>>

Op(kind, step, overwrite) ==
  [kind |-> kind, step |-> step, stamp |-> NoStamp, snap |-> Torn, overwrite |-> overwrite]
NoCopy == [content |-> Torn, exists |-> FALSE, locked |-> FALSE, old |-> FALSE]
NoOp == Op("none", "none", FALSE)
Check == Op("check", "digest", FALSE)

TypeOK ==
  /\ remote.content \in Contents /\ remote.stamp \in Stamps
  /\ conn \in {"up", "dead", "none"}
  /\ copy.content \in Contents /\ {copy.exists, copy.locked, copy.old} \subseteq BOOLEAN
  /\ base.stamp \in Stamps \cup {NoStamp} /\ base.digest \in Contents
  /\ op.kind \in {"none", "open", "check", "upload", "discard", "choose"}
  /\ front \in {"none", "synced", "syncing", "pending"}
  /\ {leaving, edit, again, stale, burst, event, closing} \subseteq BOOLEAN
  /\ others \in {"none", "guarded", "mixed"}
  /\ versions \in 0 .. MaxVersions /\ opens \in 0 .. MaxOpens
  /\ op.kind \in {"check", "upload", "discard", "choose"} /\ front # "none" => front = "syncing"

Init ==
  /\ remote = [content |-> MaxVersions + 1, stamp |-> 1]
  /\ conn = "up" /\ leaving = FALSE
  /\ copy = NoCopy
  /\ base = [stamp |-> NoStamp, digest |-> Torn]
  /\ op = NoOp
  /\ front = "none"
  /\ edit = FALSE /\ burst = FALSE
  /\ again = FALSE /\ stale = FALSE /\ event = FALSE /\ closing = FALSE
  /\ others = "none"
  /\ \E s \in Starts : versions = s.versions /\ opens = s.opens

NewStamp == CHOOSE s \in Stamps : s \notin {remote.stamp, base.stamp, op.stamp}
Answers == conn = "up"
Connected == conn \in {"up", "dead"}
At(kind, step) == op.kind = kind /\ op.step = step

-----------------------------------------------------------------------------
(* The edit ends: its directory goes with its last user (Drop of EditDir). *)

\* EditManager::close, close_device
CloseEdit ==
  /\ edit' = FALSE
  /\ copy' = IF op.kind \in {"none", "choose"} THEN NoCopy ELSE copy
  /\ burst' = FALSE

\* sync ends; a save that came meanwhile is synced right away.
Settle(status) ==
  /\ front' = IF front = "none" THEN "none" ELSE IF again THEN "syncing" ELSE status
  /\ op' = IF again /\ front # "none" THEN Check ELSE NoOp
  /\ again' = FALSE
  /\ copy' = IF edit THEN copy ELSE NoCopy
  /\ UNCHANGED <<stale, event, closing>>

\* A step of the running operation that changes nothing else.
Goes(next) == op' = next /\ UNCHANGED <<front, again, stale, event, closing>>

-----------------------------------------------------------------------------
(* Opening: the stamp first, so that a change racing the download shows. *)

Open ==
  /\ front = "none" /\ op = NoOp /\ ~closing /\ ~edit /\ ~event
  /\ conn \in {"up", "dead"} /\ opens < MaxOpens
  /\ opens' = opens + 1
  /\ op' = Op("open", "stamp", FALSE)
  /\ stale' = FALSE
  /\ others' = "none"
  /\ UNCHANGED <<remote, conn, leaving, edit, copy, base, front, again, burst, event, closing, versions>>

OpenFails ==
  /\ op.kind = "open" /\ ~edit
  /\ op' = NoOp
  /\ copy' = NoCopy
  /\ others' = "none"
  /\ UNCHANGED <<remote, edit, base, frontVars, burst, worldVars>>

\* remote_stamp, EditDir::create; the lock is best effort.
OpenStamp ==
  /\ At("open", "stamp") /\ Answers
  /\ op' = [op EXCEPT !.step = "download", !.stamp = remote.stamp]
  /\ copy' \in [content : {Torn}, exists : {TRUE}, locked : BOOLEAN, old : {FALSE}]
  /\ UNCHANGED <<remote, edit, base, frontVars, burst, others, worldVars>>

\* download_into, then the watcher.
OpenDownload ==
  /\ At("open", "download") /\ Answers
  /\ op' = [op EXCEPT !.step = "register", !.snap = remote.content]
  /\ copy' = [copy EXCEPT !.content = remote.content]
  /\ UNCHANGED <<remote, edit, base, frontVars, burst, others, worldVars>>

\* register: only while its connection is there.
Register ==
  /\ At("open", "register") /\ Connected
  /\ edit' = TRUE
  /\ base' = [stamp |-> op.stamp, digest |-> op.snap]
  /\ op' = [op EXCEPT !.step = "launch"]
  /\ UNCHANGED <<remote, copy, frontVars, burst, others, worldVars>>

\* sftp_edit_open: the editor starts; the panel drops what closed meanwhile.
Launch ==
  /\ At("open", "launch")
  /\ op' = NoOp
  /\ IF stale THEN closing' = TRUE /\ UNCHANGED front ELSE front' = "synced" /\ UNCHANGED closing
  /\ copy' = IF edit THEN copy ELSE NoCopy
  /\ UNCHANGED <<remote, edit, base, again, stale, burst, event, others, worldVars>>

LaunchFails ==
  /\ At("open", "launch")
  /\ op' = NoOp
  /\ edit' = FALSE /\ burst' = FALSE
  /\ copy' = NoCopy
  /\ UNCHANGED <<remote, base, frontVars, others, worldVars>>

-----------------------------------------------------------------------------
(* Saves. *)

Saved(content) ==
  /\ edit /\ copy.exists
  /\ copy' = [copy EXCEPT !.content = content, !.old = FALSE]
  /\ burst' = TRUE
  /\ UNCHANGED <<remote, conn, leaving, edit, base, op, frontVars, others, opens>>

\* The editor truncates and rewrites the copy, or puts a new file in its place.
BeginSave ==
  /\ front # "none" /\ versions < MaxVersions
  /\ versions' = versions + 1
  /\ Saved(Torn)
Save ==
  \/ /\ front # "none" /\ versions < MaxVersions
     /\ versions' = versions + 1
     /\ Saved(versions + 1)
  \/ /\ copy.content = Torn
     /\ \E content \in {versions, base.digest} \ {Torn} : Saved(content)
     /\ UNCHANGED versions

\* next_burst, settle: DEBOUNCE after the last change (the reply to the opening
\* comes before that).
Report ==
  /\ burst /\ op.kind # "open"
  /\ burst' = FALSE
  /\ event' = TRUE
  /\ UNCHANGED <<remote, edit, copy, base, op, front, again, stale, closing, others, worldVars>>

\* handleChange
HandleChange ==
  /\ event
  /\ event' = FALSE
  /\ again' = (again \/ front = "syncing")
  /\ IF front \in {"synced", "pending"} THEN op' = Check /\ front' = "syncing" ELSE UNCHANGED <<op, front>>
  /\ UNCHANGED <<remote, edit, copy, base, stale, burst, closing, others, worldVars>>

-----------------------------------------------------------------------------
(* The sync: check, upload_snapshot, discard. *)

SyncVars == <<remote, edit, base, burst, others, worldVars>>

Failed == Settle("pending") /\ UNCHANGED SyncVars

\* Any step of it may fail: the edit is gone, or its copy, or its connection.
SyncFails ==
  /\ \/ op.kind = "check" \/ At("upload", "snapshot") \/ At("upload", "compare")
     \/ At("discard", "stamp") \/ At("discard", "download")
  /\ Failed

Unchanged == Settle("synced") /\ UNCHANGED SyncVars

CheckDigest ==
  /\ At("check", "digest") /\ edit /\ copy.exists
  /\ IF copy.content = base.digest THEN Unchanged
     ELSE Goes([op EXCEPT !.step = "compare"]) /\ UNCHANGED <<copy, SyncVars>>

\* remote_moved: a remote we wrote without confirming it never counts as moved.
Moved == base.stamp # NoStamp /\ remote.stamp # base.stamp

CheckRemote ==
  /\ At("check", "compare") /\ (base.stamp # NoStamp => Answers)
  /\ Goes(IF Moved THEN Op("choose", "ask", FALSE) ELSE Op("upload", "snapshot", FALSE))
  /\ UNCHANGED <<copy, SyncVars>>

\* take_snapshot
Snapshot ==
  /\ At("upload", "snapshot") /\ edit /\ copy.exists
  /\ Goes([op EXCEPT !.step = "compare", !.snap = copy.content])
  /\ UNCHANGED <<copy, SyncVars>>

\* Mutant: the check before the upload is enough.
CompareOnce ==
  /\ At("upload", "compare")
  /\ IF op.snap = base.digest THEN Unchanged
     ELSE Goes([op EXCEPT !.step = "write"]) /\ UNCHANGED <<copy, SyncVars>>

\* upload_snapshot
Compare ==
  /\ At("upload", "compare") /\ (base.stamp # NoStamp /\ ~op.overwrite => Answers)
  /\ IF op.snap = base.digest THEN Unchanged
     ELSE /\ Goes(IF Moved /\ ~op.overwrite THEN Op("choose", "ask", FALSE)
                  ELSE [op EXCEPT !.step = "write"])
          /\ UNCHANGED <<copy, SyncVars>>

\* overwrite_from_path truncates the file ...
Truncate ==
  /\ At("upload", "write") /\ Answers
  /\ remote' = [content |-> Torn, stamp |-> NewStamp]
  /\ others' = "none"
  /\ Goes([op EXCEPT !.step = "fill"])
  /\ UNCHANGED <<copy, edit, base, burst, worldVars>>

Fill ==
  /\ At("upload", "fill") /\ Answers
  /\ remote' = [content |-> op.snap, stamp |-> NewStamp]
  /\ Goes([op EXCEPT !.step = "stamp"])
  /\ UNCHANGED <<copy, edit, base, burst, others, worldVars>>

\* ... and a failure may leave part of it: forget_remote.
WriteFails ==
  /\ At("upload", "write") \/ At("upload", "fill")
  /\ base' = [base EXCEPT !.stamp = NoStamp]
  /\ others' = IF others = "guarded" THEN "mixed" ELSE others
  /\ Settle("pending")
  /\ UNCHANGED <<remote, edit, burst, worldVars>>

\* Mutant: the digest is of the copy as it is by then.
ConfirmCopy ==
  /\ At("upload", "stamp")
  /\ \/ Answers /\ base' = [stamp |-> remote.stamp, digest |-> copy.content]
     \/ base' = [stamp |-> NoStamp, digest |-> copy.content]
  /\ Settle("synced")
  /\ UNCHANGED <<remote, edit, burst, others, worldVars>>

\* write_back: the baseline moves to what went up.
Confirm ==
  /\ At("upload", "stamp")
  /\ \/ Answers /\ base' = [stamp |-> remote.stamp, digest |-> op.snap]
     \/ base' = [stamp |-> NoStamp, digest |-> op.snap]
  /\ Settle("synced")
  /\ UNCHANGED <<remote, edit, burst, others, worldVars>>

\* resolveConflict
Choose ==
  /\ op.kind = "choose"
  /\ \/ Goes(Op("upload", "snapshot", TRUE)) /\ UNCHANGED copy
     \/ Goes(Op("discard", "stamp", FALSE)) /\ UNCHANGED copy
     \/ Settle("pending")
  /\ UNCHANGED SyncVars

DiscardStamp ==
  /\ At("discard", "stamp") /\ edit /\ Answers
  /\ Goes([op EXCEPT !.step = "download", !.stamp = remote.stamp])
  /\ UNCHANGED <<copy, SyncVars>>

\* The copy is replaced, which the watcher sees, too.
DiscardDownload ==
  /\ At("discard", "download") /\ Answers /\ copy.exists
  /\ copy' = [copy EXCEPT !.content = remote.content, !.old = FALSE]
  /\ burst' = edit
  /\ Goes([op EXCEPT !.step = "rebase", !.snap = remote.content])
  /\ UNCHANGED <<remote, edit, base, others, worldVars>>

\* Mutant: the stamp is taken after the download.
RebaseLate ==
  /\ At("discard", "rebase")
  /\ base' = [stamp |-> remote.stamp, digest |-> op.snap]
  /\ Settle("synced")
  /\ UNCHANGED <<remote, edit, burst, others, worldVars>>

DiscardRebase ==
  /\ At("discard", "rebase")
  /\ base' = [stamp |-> op.stamp, digest |-> op.snap]
  /\ others' = IF op.snap = remote.content THEN "none" ELSE others
  /\ Settle("synced")
  /\ UNCHANGED <<remote, edit, burst, worldVars>>

OpStep ==
  \/ OpenFails \/ OpenStamp \/ OpenDownload \/ Register \/ Launch \/ LaunchFails
  \/ SyncFails \/ CheckDigest \/ CheckRemote \/ Snapshot \/ Compare
  \/ Truncate \/ Fill \/ WriteFails \/ Confirm \/ Choose
  \/ DiscardStamp \/ DiscardDownload \/ DiscardRebase

-----------------------------------------------------------------------------
(* Others, and the ends. *)

\* Between an upload's last look and its new stamp, and after an upload that
\* was not confirmed, nobody's change can be told from our own.
Syncing == op.kind \in {"check", "upload", "discard", "choose"}
Window == \/ op.kind = "upload" /\ op.step \in {"write", "fill", "stamp"}
          \/ (edit \/ Syncing) /\ base.stamp = NoStamp

\* From the first look at the remote file on, its changes matter to the edit.
Editing == edit \/ Syncing \/ (op.kind = "open" /\ op.step # "stamp")

\* While nothing is open or being opened, it is a file opened later.
OthersChange ==
  /\ Editing \/ op.kind = "open"
  /\ versions < MaxVersions
  /\ versions' = versions + 1
  /\ remote' = [content |-> versions + 1, stamp |-> NewStamp]
  /\ others' = IF Window THEN "mixed" ELSE IF Editing THEN "guarded" ELSE "none"
  /\ UNCHANGED <<conn, leaving, edit, copy, base, op, frontVars, burst, opens>>

\* stop, once the user confirmed if need be: the panel forgets the edit first;
\* a sync of it that is under way goes on.
Stop ==
  /\ front # "none"
  /\ front' = "none" /\ again' = FALSE
  /\ closing' = TRUE
  /\ UNCHANGED <<remote, edit, copy, base, op, stale, burst, event, others, worldVars>>

Close ==
  /\ closing
  /\ closing' = FALSE
  /\ CloseEdit
  /\ UNCHANGED <<remote, base, op, front, again, stale, event, others, worldVars>>

\* closeDevice, then sftp_disconnect: the connection first, the edits after it.
\* Meanwhile the panel has no active device and may connect again; bound: one
\* disconnect at a time.
Disconnect ==
  /\ Connected /\ ~leaving
  /\ conn' = "none" /\ leaving' = TRUE
  /\ stale' = (op.kind = "open") /\ front' = "none" /\ again' = FALSE
  /\ UNCHANGED <<remote, edit, copy, base, op, burst, event, closing, others, versions, opens>>

\* Whatever edit the device has by now.
CloseDevice ==
  /\ leaving
  /\ leaving' = FALSE
  /\ CloseEdit
  /\ UNCHANGED <<remote, conn, base, op, frontVars, others, versions, opens>>

Connect ==
  /\ conn \in {"none", "dead"} /\ opens < MaxOpens
  /\ conn' = "up" /\ opens' = opens + 1
  /\ UNCHANGED <<remote, leaving, edit, copy, base, op, frontVars, burst, others, versions>>

ServerDies ==
  /\ conn = "up"
  /\ conn' = "dead"
  /\ UNCHANGED <<remote, leaving, edit, copy, base, op, frontVars, burst, others, versions, opens>>

\* A day passes without a save, or anything else under way.
Age ==
  /\ edit /\ copy.exists /\ op = NoOp /\ ~burst /\ ~event /\ ~closing
  /\ copy' = [copy EXCEPT !.old = TRUE]
  /\ UNCHANGED <<remote, edit, base, op, frontVars, burst, others, worldVars>>

\* sweep_stale_copies of another instance that starts.
Sweep ==
  /\ copy.exists /\ copy.old /\ ~copy.locked
  /\ copy' = NoCopy
  /\ UNCHANGED <<remote, edit, base, op, frontVars, burst, others, worldVars>>

Next ==
  \/ Open \/ OpStep
  \/ BeginSave \/ Save \/ Report \/ HandleChange
  \/ OthersChange
  \/ Stop \/ Close \/ Disconnect \/ CloseDevice \/ Connect \/ ServerDies
  \/ Age \/ Sweep

Spec == Init /\ [][Next]_vars

\* The steps of an operation are taken, or fail, and its dialogs are answered.
Fairness == WF_vars(OpStep)

LiveSpec == Spec /\ Fairness

-----------------------------------------------------------------------------
(* Properties. *)

\* An upload that was not asked to overwrite never replaces a change others made
\* while the edit was in sync (upload_snapshot, remote_moved).
AsksFirst == Truncate /\ others = "guarded" => op.overwrite
NoSilentOverwrite == [][AsksFirst]_vars

\* An edit shown as synced, with no save of it still to be reported.
ShownSynced == front = "synced" /\ edit /\ copy.exists /\ ~burst /\ ~event

\* The copy is then what was transferred last; and the remote file holds it,
\* unless others changed the file, or an upload failed or was not confirmed
\* since (check, upload_snapshot, discard).
SyncedIsTrue ==
  ShownSynced =>
    /\ copy.content = base.digest
    /\ others = "none" /\ base.stamp # NoStamp => remote.content = copy.content

\* "synced: the remote holds the saved content" (editSessions.ts:35), if nobody
\* else changed it. The code keeps the digest of the last success when an upload
\* fails, so saving that content again finds nothing to send.
SyncedWentUp ==
  ShownSynced /\ others = "none" => remote.content = copy.content

\* A remote file that did not move since the baseline holds what the baseline
\* says (open and discard take the stamp first), except for a change of others
\* that an upload of ours covers.
BaselineIsTrue ==
  edit /\ op = NoOp /\ base.stamp = remote.stamp /\ others # "mixed"
    => remote.content = base.digest

\* No edit outlives its connection (register, close_device), and none is open
\* that the panel does not list.
EditsAreListed ==
  edit => /\ conn # "none" \/ leaving
          /\ op = NoOp => closing \/ leaving \/ front # "none"

\* The copy of an open edit is never swept away (is_in_use), if it can be locked.
LiveCopyStays == edit /\ copy.locked => copy.exists

\* Each save goes up, or the panel shows that it is pending.
SavesSettle == front = "syncing" ~> front # "syncing"
=============================================================================
