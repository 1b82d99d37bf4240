------------------------------ MODULE FilesProofs ------------------------------
(***************************************************************************)
(* Theorems about RemoteEdit and SftpTransfers, for any number of versions, *)
(* openings, jobs and connections and any folders: an upload that was not   *)
(* asked to overwrite replaces no change of others, what the panel shows as *)
(* synced is, no edit outlives its connection, and no transfer loses a file *)
(* or says it succeeded when it did not. They are stated of the parts       *)
(* MCOutputAndFiles runs, whatever their bounds.                                     *)
(***************************************************************************)
EXTENDS MCOutputAndFiles, TLAPS

Held == Edit!Stamps \cup {Edit!NoStamp}
Remote == [content : Edit!Contents, stamp : Edit!Stamps]
Copy == [content : Edit!Contents, exists : BOOLEAN, locked : BOOLEAN, old : BOOLEAN]
Baseline == [stamp : Held, digest : Edit!Contents]
Operation == [kind : {"none", "open", "check", "upload", "discard", "choose"},
              step : {"none", "stamp", "download", "register", "launch", "digest", "compare",
                      "ask", "snapshot", "write", "fill", "rebase"},
              stamp : Held, snap : Edit!Contents, overwrite : BOOLEAN]

Types ==
  /\ remote \in Remote /\ copy \in Copy /\ base \in Baseline /\ op \in Operation
  /\ conn \in {"up", "dead", "none"} /\ leaving \in BOOLEAN
  /\ front \in {"none", "synced", "syncing", "pending"}
  /\ edit \in BOOLEAN /\ again \in BOOLEAN /\ stale \in BOOLEAN
  /\ burst \in BOOLEAN /\ event \in BOOLEAN /\ closing \in BOOLEAN
  /\ others \in {"none", "guarded", "mixed"}
  /\ versions \in 0 .. MaxVersions /\ opens \in 0 .. MaxOpens

\* The panel syncs while an operation of a sync runs, and lists what is open.
OpsFit ==
  /\ op.kind \in {"check", "upload", "discard", "choose"} /\ front # "none" => front = "syncing"
  /\ front = "syncing" => op.kind \in {"check", "upload", "discard", "choose"}
  /\ op.kind = "open" => front = "none" /\ (op.step # "launch" => ~edit)

\* An operation that looked at the remote file holds a stamp of it, and the content
\* that goes with the stamp.
Looked == (op.kind = "open" /\ op.step \in {"download", "register"})
          \/ (op.kind = "discard" /\ op.step \in {"download", "rebase"})
Fetched == Edit!At("open", "register") \/ Edit!At("discard", "rebase")
StampsFit ==
  /\ Looked => op.stamp # Edit!NoStamp
  /\ Edit!At("open", "launch") => base.stamp # Edit!NoStamp
  /\ Fetched /\ op.stamp = remote.stamp => op.snap = remote.content

\* While a change of others is to be kept, the baseline shows that the remote
\* file moved, or the stamp that will be the baseline's does.
Opening == op.kind = "open" /\ op.step # "launch"
GuardedMoved ==
  others = "guarded" =>
    IF Opening THEN op.step # "stamp" /\ op.stamp # remote.stamp
    ELSE Edit!Moved

\* An upload past its last look replaces such a change only if it was asked to.
UploadIsClear ==
  /\ Edit!At("upload", "write") /\ ~op.overwrite => others # "guarded"
  /\ Edit!At("upload", "fill") \/ Edit!At("upload", "stamp") => others # "guarded"
  /\ Edit!At("upload", "stamp") /\ others # "mixed" => remote.content = op.snap

\* What is being opened has no change of ours yet.
OpensClean == Opening => others # "mixed" /\ ~edit

\* The baseline is true, also while operations run, until an upload of ours
\* writes; and what was fetched is what the file holds, unless others changed it.
BaseHolds ==
  /\ edit /\ base.stamp = remote.stamp /\ others # "mixed" => remote.content = base.digest
  /\ edit /\ others = "none" /\ base.stamp # Edit!NoStamp
       => remote.content = base.digest \/ Edit!At("upload", "fill") \/ Edit!At("upload", "stamp")
  /\ Fetched /\ others = "none" => remote.content = op.snap

\* What an operation took from the copy, or put there, is still in it, or the
\* watcher and the panel will look at it again.
TakenCopy == (op.kind = "upload" /\ op.step \in {"compare", "write", "fill", "stamp"})
             \/ Edit!At("discard", "rebase")
TakenIsCopy ==
  /\ TakenCopy /\ front = "syncing" /\ edit /\ copy.exists
       => copy.content = op.snap \/ burst \/ event \/ again
  /\ Edit!At("open", "register") /\ copy.exists => copy.content = op.snap
  /\ Edit!At("open", "launch") /\ edit /\ copy.exists => copy.content = base.digest \/ burst

\* An edit is listed, or is about to be, or to be closed.
Listed ==
  edit => /\ conn # "none" \/ leaving
          /\ op.kind # "open" => closing \/ leaving \/ front # "none"

LockedExists == copy.locked => copy.exists

EditInv ==
  /\ Types /\ OpsFit /\ StampsFit /\ GuardedMoved /\ UploadIsClear /\ OpensClean
  /\ BaseHolds /\ TakenIsCopy /\ Edit!SyncedIsTrue /\ Listed /\ LockedExists

-----------------------------------------------------------------------------
\* An operation that starts afresh, or none.
Fresh(o, k, t, w) == o \in Operation /\ o.kind = k /\ o.step = t /\ o.overwrite = w

\* The bounds of the edit, whatever they are.
LEMMA EditBounds ==
  /\ MaxVersions \in Nat /\ MaxOpens \in Nat
  /\ Starts \subseteq [versions : 0 .. MaxVersions, opens : 0 .. MaxOpens]
BY FilesAssumption DEF Edit!EditConstants

LEMMA ZeroContents == 0 \in Edit!Contents
BY EditBounds DEF Edit!Contents

\* What each operation starts as.
LEMMA OpTypes ==
  /\ Fresh(Edit!NoOp, "none", "none", FALSE)
  /\ Fresh(Edit!Op("open", "stamp", FALSE), "open", "stamp", FALSE)
  /\ Fresh(Edit!Check, "check", "digest", FALSE)
  /\ Fresh(Edit!Op("choose", "ask", FALSE), "choose", "ask", FALSE)
  /\ Fresh(Edit!Op("upload", "snapshot", FALSE), "upload", "snapshot", FALSE)
  /\ Fresh(Edit!Op("upload", "snapshot", TRUE), "upload", "snapshot", TRUE)
  /\ Fresh(Edit!Op("discard", "stamp", FALSE), "discard", "stamp", FALSE)
BY ZeroContents DEF Fresh, Edit!Op, Edit!NoOp, Edit!Check, Operation, Edit!NoStamp, Edit!Torn, Held

LEMMA StampFacts ==
  /\ Edit!Stamps \subseteq Held /\ Edit!NoStamp \in Held /\ Edit!NoStamp \notin Edit!Stamps
  /\ Edit!NewStamp \in Edit!Stamps /\ Edit!NewStamp \notin {remote.stamp, base.stamp, op.stamp}
<1>1. \E s \in Edit!Stamps : s \notin {remote.stamp, base.stamp, op.stamp}
  <2>1. {1, 2, 3, 4} \subseteq Edit!Stamps
    BY DEF Edit!Stamps
  <2> QED
    BY <2>1
<1> QED
  BY <1>1 DEF Held, Edit!Stamps, Edit!NoStamp, Edit!NewStamp

\* There is no copy any more.
LEMMA NoCopyFacts ==
  Edit!NoCopy \in Copy /\ ~Edit!NoCopy.exists /\ ~Edit!NoCopy.locked
BY ZeroContents DEF Edit!NoCopy, Copy, Edit!Torn

\* A file nobody opened.
LEMMA EditInit ==
  ASSUME Edit!Init
  PROVE  EditInv
<1>1. /\ remote = [content |-> MaxVersions + 1, stamp |-> 1]
      /\ copy \in Copy /\ ~copy.exists /\ ~copy.locked
      /\ base = [stamp |-> Edit!NoStamp, digest |-> 0]
      /\ op \in Operation /\ op.kind = "none" /\ op.step = "none"
  BY OpTypes, NoCopyFacts DEF Fresh, Edit!Init, Edit!Torn
<1>2. /\ 0 \in Edit!Contents /\ MaxVersions + 1 \in Edit!Contents
      /\ versions \in 0 .. MaxVersions /\ opens \in 0 .. MaxOpens
  BY EditBounds DEF Edit!Contents, Edit!Init
<1>3. remote \in Remote /\ base \in Baseline
  BY <1>1, <1>2, StampFacts DEF Remote, Baseline, Edit!Stamps
<1>4. Types
  BY <1>1, <1>2, <1>3 DEF Edit!Init, Types
<1> QED
  BY <1>1, <1>4 DEF Edit!Init, EditInv, OpsFit, StampsFit, Looked, Fetched, Edit!At,
     GuardedMoved, Opening, Edit!Syncing,
     UploadIsClear, OpensClean, BaseHolds, TakenIsCopy, TakenCopy, Edit!SyncedIsTrue, Edit!ShownSynced, Listed,
     LockedExists, Edit!Moved

-----------------------------------------------------------------------------
(* Opening. *)

LEMMA OpenKeeps ==
  ASSUME EditInv, Edit!Open
  PROVE  EditInv'
<1>1. /\ op' \in Operation /\ op'.kind = "open" /\ op'.step = "stamp"
      /\ front = "none" /\ ~edit
  BY OpTypes DEF Fresh, Edit!Open
<1>0. opens' \in 0 .. MaxOpens
  BY EditBounds DEF Edit!Open, EditInv, Types
<1>2. Types'
  BY <1>0, <1>1 DEF EditInv, Types, Edit!Open
<1> QED
  BY <1>1, <1>2 DEF Edit!Open, EditInv, OpsFit, StampsFit, Looked, Fetched, Edit!At,
     GuardedMoved, Opening, Edit!Syncing,
     UploadIsClear, OpensClean, BaseHolds, TakenIsCopy, TakenCopy, Edit!SyncedIsTrue, Edit!ShownSynced, Listed,
     LockedExists, Edit!Moved

LEMMA OpenFailsKeeps ==
  ASSUME EditInv, Edit!OpenFails
  PROVE  EditInv'
<1>1. /\ op' \in Operation /\ op'.kind = "none" /\ op'.step = "none"
  BY OpTypes DEF Fresh, Edit!OpenFails
<1>2. copy' \in Copy /\ ~copy'.exists /\ ~copy'.locked
  BY NoCopyFacts DEF Edit!OpenFails, EditInv, Types
<1>3. Types'
  BY <1>1, <1>2 DEF EditInv, Types, Edit!OpenFails, Edit!frontVars, Edit!worldVars
<1> QED
  BY <1>1, <1>2, <1>3 DEF Edit!OpenFails, EditInv, OpsFit, StampsFit, Looked, Fetched, Edit!At,
     GuardedMoved, Opening, Edit!Syncing, UploadIsClear, OpensClean, BaseHolds, TakenIsCopy, TakenCopy, Edit!SyncedIsTrue,
     Edit!ShownSynced, Listed, LockedExists, Edit!Moved, Edit!frontVars, Edit!worldVars

LEMMA OpenStampKeeps ==
  ASSUME EditInv, Edit!OpenStamp
  PROVE  EditInv'
<1>1. op' \in Operation /\ op'.kind = "open" /\ op'.step = "download" /\ op'.stamp = remote.stamp
  BY StampFacts DEF Edit!OpenStamp, Edit!At, EditInv, Types, Operation, Remote
<1>2. copy' \in Copy /\ copy'.exists
  BY ZeroContents DEF Edit!OpenStamp, Copy, Edit!Torn
<1>3. remote.stamp \in Edit!Stamps /\ remote.stamp # Edit!NoStamp
  BY StampFacts DEF EditInv, Types, Remote
<1>4. Types'
  BY <1>1, <1>2, <1>3 DEF Edit!frontVars, Edit!worldVars, EditInv, Types, Edit!OpenStamp
<1> QED
  BY <1>1, <1>2, <1>3, <1>4
  DEF Edit!frontVars, Edit!worldVars, Edit!OpenStamp, EditInv, OpsFit, StampsFit, Looked, Fetched, Edit!At,
     GuardedMoved, Opening, Edit!Syncing, UploadIsClear, OpensClean, BaseHolds, TakenIsCopy, TakenCopy, Edit!SyncedIsTrue,
     Edit!ShownSynced, Listed, LockedExists, Edit!Moved

LEMMA OpenDownloadKeeps ==
  ASSUME EditInv, Edit!OpenDownload
  PROVE  EditInv'
<1>1. /\ op' \in Operation /\ op'.kind = "open" /\ op'.step = "register"
      /\ op'.stamp = op.stamp /\ op'.snap = remote.content
  BY DEF Edit!OpenDownload, Edit!At, EditInv, Types, Operation, Remote
<1>2. copy' \in Copy /\ copy'.content = remote.content /\ copy'.exists = copy.exists
      /\ copy'.locked = copy.locked
  BY DEF Edit!OpenDownload, Copy, EditInv, Types, Remote
<1>3. Types'
  BY <1>1, <1>2 DEF Edit!frontVars, Edit!worldVars, EditInv, Types, Edit!OpenDownload
<1> QED
  BY <1>1, <1>2, <1>3
  DEF Edit!frontVars, Edit!worldVars, Edit!OpenDownload, EditInv, OpsFit, StampsFit, Looked, Fetched, Edit!At,
     GuardedMoved, Opening, Edit!Syncing, UploadIsClear, OpensClean, BaseHolds, TakenIsCopy, TakenCopy, Edit!SyncedIsTrue,
     Edit!ShownSynced, Listed, LockedExists, Edit!Moved

\* The baseline becomes what was fetched under the stamp taken before: it holds whoever
\* changed the file meanwhile (StampsFit).
LEMMA RegisterKeeps ==
  ASSUME EditInv, Edit!Register
  PROVE  EditInv'
<1>1. /\ op' \in Operation /\ op'.kind = "open" /\ op'.step = "launch"
  BY DEF Edit!Register, Edit!At, EditInv, Types, Operation
<1>2. base' \in Baseline /\ base'.stamp = op.stamp /\ base'.digest = op.snap
  BY DEF Edit!Register, Baseline, Operation, EditInv, Types
<1>3. Types'
  BY <1>1, <1>2 DEF Edit!frontVars, Edit!worldVars, EditInv, Types, Edit!Register
<1> QED
  BY <1>1, <1>2, <1>3
  DEF Edit!frontVars, Edit!worldVars, Edit!Connected, Edit!Register, EditInv, OpsFit, StampsFit, Looked, Fetched,
     Edit!At,
     GuardedMoved, Opening, Edit!Syncing, UploadIsClear, OpensClean, BaseHolds, TakenIsCopy, TakenCopy, Edit!SyncedIsTrue,
     Edit!ShownSynced, Listed, LockedExists, Edit!Moved

LEMMA LaunchKeeps ==
  ASSUME EditInv, Edit!Launch
  PROVE  EditInv'
<1>1. op' \in Operation /\ op'.kind = "none" /\ op'.step = "none"
  BY OpTypes DEF Fresh, Edit!Launch
<1>2. copy' \in Copy /\ (edit => copy' = copy) /\ (~edit => ~copy'.exists /\ ~copy'.locked)
  BY NoCopyFacts DEF Edit!Launch, EditInv, Types
<1>3. Types'
  BY <1>1, <1>2 DEF Edit!frontVars, Edit!worldVars, EditInv, Types, Edit!Launch
<1> QED
  BY <1>1, <1>2, <1>3
  DEF Edit!frontVars, Edit!worldVars, Edit!Launch, EditInv, OpsFit, StampsFit, Looked, Fetched, Edit!At,
     GuardedMoved, Opening, Edit!Syncing, UploadIsClear, OpensClean, BaseHolds, TakenIsCopy, TakenCopy, Edit!SyncedIsTrue,
     Edit!ShownSynced, Listed, LockedExists, Edit!Moved

LEMMA LaunchFailsKeeps ==
  ASSUME EditInv, Edit!LaunchFails
  PROVE  EditInv'
<1>1. op' \in Operation /\ op'.kind = "none" /\ op'.step = "none"
  BY OpTypes DEF Fresh, Edit!LaunchFails
<1>2. copy' \in Copy /\ ~copy'.exists /\ ~copy'.locked
  BY NoCopyFacts DEF Edit!LaunchFails, EditInv, Types
<1>3. Types'
  BY <1>1, <1>2 DEF Edit!frontVars, Edit!worldVars, EditInv, Types, Edit!LaunchFails
<1> QED
  BY <1>1, <1>2, <1>3
  DEF Edit!frontVars, Edit!worldVars, Edit!LaunchFails, EditInv, OpsFit, StampsFit, Looked, Fetched, Edit!At,
     GuardedMoved, Opening, Edit!Syncing, UploadIsClear, OpensClean, BaseHolds, TakenIsCopy, TakenCopy, Edit!SyncedIsTrue,
     Edit!ShownSynced, Listed, LockedExists, Edit!Moved

-----------------------------------------------------------------------------
(* Saves, and how the panel hears of them. *)

\* A save is reported later, so nothing may rely on the copy without looking at burst.
LEMMA SavedKeeps ==
  ASSUME EditInv, NEW content \in Edit!Contents, Edit!Saved(content), versions' \in 0 .. MaxVersions
  PROVE  EditInv'
<1>1. /\ copy' \in Copy /\ copy'.content = content /\ copy'.exists = copy.exists
      /\ copy'.locked = copy.locked
  BY DEF Edit!Saved, Copy, EditInv, Types
<1>2. Types'
  BY <1>1 DEF EditInv, Types, Edit!Saved, Edit!frontVars
<1> QED
  BY <1>1, <1>2
  DEF Edit!frontVars, Edit!Saved, EditInv, OpsFit, StampsFit, Looked, Fetched, Edit!At,
     GuardedMoved, Opening, Edit!Syncing, UploadIsClear, OpensClean, BaseHolds, TakenIsCopy, TakenCopy, Edit!SyncedIsTrue,
     Edit!ShownSynced, Listed, LockedExists, Edit!Moved

LEMMA BeginSaveKeeps ==
  ASSUME EditInv, Edit!BeginSave
  PROVE  EditInv'
<1>1. versions' \in 0 .. MaxVersions
  BY EditBounds DEF Edit!BeginSave, EditInv, Types
<1> QED
  BY <1>1, ZeroContents, SavedKeeps DEF Edit!BeginSave, Edit!Torn

LEMMA SaveKeeps ==
  ASSUME EditInv, Edit!Save
  PROVE  EditInv'
<1>1. CASE versions < MaxVersions /\ versions' = versions + 1 /\ Edit!Saved(versions + 1)
  <2>1. versions + 1 \in Edit!Contents /\ versions' \in 0 .. MaxVersions
    BY <1>1, EditBounds DEF EditInv, Types, Edit!Contents
  <2> QED
    BY <1>1, <2>1, SavedKeeps
<1>2. CASE /\ UNCHANGED versions
           /\ \E content \in {versions, base.digest} \ {Edit!Torn} : Edit!Saved(content)
  <2>1. versions \in Edit!Contents /\ base.digest \in Edit!Contents /\ versions' \in 0 .. MaxVersions
    BY <1>2, EditBounds DEF EditInv, Types, Edit!Contents, Baseline
  <2> QED
    BY <1>2, <2>1, SavedKeeps
<1> QED
  BY <1>1, <1>2 DEF Edit!Save

LEMMA ReportKeeps ==
  ASSUME EditInv, Edit!Report
  PROVE  EditInv'
<1>1. Types'
  BY DEF Edit!frontVars, Edit!worldVars, EditInv, Types, Edit!Report
<1> QED
  BY <1>1
  DEF Edit!frontVars, Edit!worldVars, Edit!Report, EditInv, OpsFit, StampsFit, Looked, Fetched, Edit!At,
     GuardedMoved, Opening, Edit!Syncing, UploadIsClear, OpensClean, BaseHolds, TakenIsCopy, TakenCopy, Edit!SyncedIsTrue,
     Edit!ShownSynced, Listed, LockedExists, Edit!Moved

\* A change that comes during a sync is remembered in `again'.
LEMMA HandleChangeKeeps ==
  ASSUME EditInv, Edit!HandleChange
  PROVE  EditInv'
<1>1. CASE front \in {"synced", "pending"}
  <2>1. /\ op' \in Operation /\ op'.kind = "check" /\ op'.step = "digest"
        /\ front' = "syncing"
    BY <1>1, OpTypes DEF Fresh, Edit!HandleChange
  <2>2. Types'
    BY <1>1, <2>1 DEF EditInv, Types, Edit!HandleChange, Edit!frontVars, Edit!worldVars
  <2> QED
    BY <1>1, <2>1, <2>2
    DEF Edit!HandleChange, Edit!frontVars, Edit!worldVars, EditInv, OpsFit, StampsFit, Looked, Fetched, Edit!At,
     GuardedMoved, Opening, Edit!Syncing, UploadIsClear, OpensClean, BaseHolds, TakenIsCopy, TakenCopy, Edit!SyncedIsTrue,
     Edit!ShownSynced, Listed, LockedExists, Edit!Moved
<1>2. CASE front \notin {"synced", "pending"}
  <2>1. Types'
    BY <1>2 DEF EditInv, Types, Edit!HandleChange, Edit!frontVars, Edit!worldVars
  <2>2. again' \in BOOLEAN /\ (front = "syncing" => again')
    BY <1>2 DEF Edit!HandleChange
  <2>3. op' = op /\ front' = front
    BY <1>2 DEF Edit!HandleChange
  <2> QED
    BY <1>2, <2>1, <2>2, <2>3
    DEF Edit!HandleChange, Edit!frontVars, Edit!worldVars, EditInv, OpsFit, StampsFit, Looked, Fetched, Edit!At,
     GuardedMoved, Opening, Edit!Syncing, UploadIsClear, OpensClean, BaseHolds, TakenIsCopy, TakenCopy, Edit!SyncedIsTrue,
     Edit!ShownSynced, Listed, LockedExists, Edit!Moved
<1> QED
  BY <1>1, <1>2

-----------------------------------------------------------------------------
(* The sync. *)

\* How a sync ends: with the status it asks for, or checking again.
LEMMA SettleEffect ==
  ASSUME EditInv, NEW status \in {"synced", "pending"}, Edit!Settle(status)
  PROVE  /\ op' \in Operation /\ op'.kind \in {"none", "check"}
         /\ op'.kind = "none" => op'.step = "none" /\ front' \in {"none", status}
         /\ op'.kind = "check" => op'.step = "digest" /\ front' = "syncing"
         /\ front' = "none" <=> front = "none"
         /\ op'.kind = "none" /\ front' = status => ~again
         /\ copy' \in Copy /\ (edit => copy' = copy)
         /\ ~edit => ~copy'.exists /\ ~copy'.locked
         /\ again' = FALSE /\ UNCHANGED <<stale, event, closing>>
<1>1. copy' \in Copy /\ (edit => copy' = copy) /\ (~edit => ~copy'.exists /\ ~copy'.locked)
  BY NoCopyFacts DEF Edit!Settle, EditInv, Types
<1> QED
  BY <1>1, OpTypes DEF Fresh, Edit!Settle, EditInv, Types

LEMMA SyncFailsKeeps ==
  ASSUME EditInv, Edit!SyncFails
  PROVE  EditInv'
<1>1. Edit!Settle("pending")
  BY DEF Edit!SyncFails, Edit!Failed
<1>2. /\ op' \in Operation /\ op'.kind \in {"none", "check"}
      /\ op'.kind = "none" => op'.step = "none" /\ front' \in {"none", "pending"}
      /\ op'.kind = "check" => op'.step = "digest" /\ front' = "syncing"
      /\ front' = "none" <=> front = "none"
      /\ op'.kind = "none" /\ front' = "pending" => ~again
      /\ copy' \in Copy /\ (edit => copy' = copy)
      /\ ~edit => ~copy'.exists /\ ~copy'.locked
      /\ again' = FALSE /\ UNCHANGED <<stale, event, closing>>
  BY <1>1, SettleEffect
<1>3. Types'
  BY <1>1, <1>2 DEF EditInv, Types, Edit!SyncFails, Edit!Failed, Edit!SyncVars, Edit!worldVars
<1> QED
  BY <1>1, <1>2, <1>3
  DEF Edit!SyncFails, Edit!Failed, Edit!SyncVars, Edit!worldVars, EditInv, OpsFit, StampsFit, Looked, Fetched, Edit!At,
     GuardedMoved, Opening, Edit!Syncing, UploadIsClear, OpensClean, BaseHolds, TakenIsCopy, TakenCopy, Edit!SyncedIsTrue,
     Edit!ShownSynced, Listed, LockedExists, Edit!Moved

LEMMA CheckRemoteKeeps ==
  ASSUME EditInv, Edit!CheckRemote
  PROVE  EditInv'
<1>1. /\ op' \in Operation
      /\ \/ op'.kind = "choose" /\ op'.step = "ask"
         \/ op'.kind = "upload" /\ op'.step = "snapshot"
  BY OpTypes DEF Fresh, Edit!CheckRemote, Edit!Goes
<1>2. Types'
  BY <1>1 DEF EditInv, Types, Edit!CheckRemote, Edit!Goes, Edit!SyncVars, Edit!worldVars
<1> QED
  BY <1>1, <1>2
  DEF Edit!CheckRemote, Edit!Goes, Edit!SyncVars, Edit!worldVars, EditInv, OpsFit, StampsFit, Looked, Fetched, Edit!At,
     GuardedMoved, Opening, Edit!Syncing, UploadIsClear, OpensClean, BaseHolds, TakenIsCopy, TakenCopy, Edit!SyncedIsTrue,
     Edit!ShownSynced, Listed, LockedExists, Edit!Moved

LEMMA SnapshotKeeps ==
  ASSUME EditInv, Edit!Snapshot
  PROVE  EditInv'
<1>1. /\ op' \in Operation /\ op'.kind = "upload" /\ op'.step = "compare"
      /\ op'.snap = copy.content /\ op'.overwrite = op.overwrite
  BY DEF Edit!Snapshot, Edit!Goes, Edit!At, EditInv, Types, Operation, Copy
<1>2. Types'
  BY <1>1 DEF Edit!Goes, Edit!SyncVars, Edit!worldVars, EditInv, Types, Edit!Snapshot
<1> QED
  BY <1>1, <1>2
  DEF Edit!Goes, Edit!SyncVars, Edit!worldVars, Edit!Snapshot, EditInv, OpsFit, StampsFit, Looked, Fetched, Edit!At,
     GuardedMoved, Opening, Edit!Syncing, UploadIsClear, OpensClean, BaseHolds, TakenIsCopy, TakenCopy, Edit!SyncedIsTrue,
     Edit!ShownSynced, Listed, LockedExists, Edit!Moved

\* What is replaced here was seen (UploadIsClear).
LEMMA TruncateKeeps ==
  ASSUME EditInv, Edit!Truncate
  PROVE  EditInv'
<1>1. /\ op' \in Operation /\ op'.kind = "upload" /\ op'.step = "fill"
      /\ op'.snap = op.snap
  BY DEF Edit!Truncate, Edit!Goes, Edit!At, EditInv, Types, Operation
<1>2. remote' \in Remote /\ remote'.content = 0 /\ remote'.stamp = Edit!NewStamp
  BY ZeroContents, StampFacts DEF Edit!Truncate, EditInv, Types, Remote, Edit!Torn
<1>3. Edit!NewStamp # base.stamp /\ Edit!NewStamp # op.stamp /\ Edit!NewStamp # Edit!NoStamp
  BY StampFacts
<1>4. Types'
  BY <1>1, <1>2, <1>3 DEF Edit!Goes, Edit!SyncVars, Edit!worldVars, EditInv, Types, Edit!Truncate
<1> QED
  BY <1>1, <1>2, <1>3, <1>4
  DEF Edit!Goes, Edit!SyncVars, Edit!worldVars, Edit!Truncate, EditInv, OpsFit, StampsFit, Looked, Fetched, Edit!At,
     GuardedMoved, Opening, Edit!Syncing, UploadIsClear, OpensClean, BaseHolds, TakenIsCopy, TakenCopy, Edit!SyncedIsTrue,
     Edit!ShownSynced, Listed, LockedExists, Edit!Moved

LEMMA FillKeeps ==
  ASSUME EditInv, Edit!Fill
  PROVE  EditInv'
<1>1. /\ op' \in Operation /\ op'.kind = "upload" /\ op'.step = "stamp"
      /\ op'.snap = op.snap
  BY DEF Edit!Fill, Edit!Goes, Edit!At, EditInv, Types, Operation
<1>2. /\ remote' \in Remote /\ remote'.content = op.snap
      /\ remote'.stamp = Edit!NewStamp
  BY StampFacts DEF Edit!Fill, EditInv, Types, Remote, Operation
<1>3. Edit!NewStamp # base.stamp /\ Edit!NewStamp # op.stamp /\ Edit!NewStamp # Edit!NoStamp
  BY StampFacts
<1>4. Types'
  BY <1>1, <1>2, <1>3 DEF Edit!Goes, Edit!SyncVars, Edit!worldVars, EditInv, Types, Edit!Fill
<1> QED
  BY <1>1, <1>2, <1>3, <1>4
  DEF Edit!Goes, Edit!SyncVars, Edit!worldVars, Edit!Fill, EditInv, OpsFit, StampsFit, Looked, Fetched, Edit!At,
     GuardedMoved, Opening, Edit!Syncing, UploadIsClear, OpensClean, BaseHolds, TakenIsCopy, TakenCopy, Edit!SyncedIsTrue,
     Edit!ShownSynced, Listed, LockedExists, Edit!Moved

LEMMA WriteFailsKeeps ==
  ASSUME EditInv, Edit!WriteFails
  PROVE  EditInv'
<1>1. Edit!Settle("pending")
  BY DEF Edit!WriteFails
<1>2. /\ op' \in Operation /\ op'.kind \in {"none", "check"}
      /\ op'.kind = "none" => op'.step = "none" /\ front' \in {"none", "pending"}
      /\ op'.kind = "check" => op'.step = "digest" /\ front' = "syncing"
      /\ front' = "none" <=> front = "none"
      /\ op'.kind = "none" /\ front' = "pending" => ~again
      /\ copy' \in Copy /\ (edit => copy' = copy)
      /\ ~edit => ~copy'.exists /\ ~copy'.locked
      /\ again' = FALSE /\ UNCHANGED <<stale, event, closing>>
  BY <1>1, SettleEffect
<1>3. base' \in Baseline /\ base'.stamp = Edit!NoStamp /\ base'.digest = base.digest
  BY StampFacts DEF Edit!WriteFails, Baseline, EditInv, Types
<1>4. remote.stamp \in Edit!Stamps /\ remote.stamp # Edit!NoStamp
  BY StampFacts DEF EditInv, Types, Remote
<1>5. Types'
  BY <1>1, <1>2, <1>3, <1>4 DEF EditInv, Types, Edit!WriteFails, Edit!SyncVars, Edit!worldVars
<1> QED
  BY <1>1, <1>2, <1>3, <1>4, <1>5
  DEF Edit!WriteFails, Edit!SyncVars, Edit!worldVars, EditInv, OpsFit, StampsFit, Looked, Fetched, Edit!At,
     GuardedMoved, Opening, Edit!Syncing, UploadIsClear, OpensClean, BaseHolds, TakenIsCopy, TakenCopy, Edit!SyncedIsTrue,
     Edit!ShownSynced, Listed, LockedExists, Edit!Moved

\* The new baseline is what went up, unless somebody's change came within the window.
LEMMA ConfirmKeeps ==
  ASSUME EditInv, Edit!Confirm
  PROVE  EditInv'
<1>1. Edit!Settle("synced")
  BY DEF Edit!Confirm
<1>2. /\ op' \in Operation /\ op'.kind \in {"none", "check"}
      /\ op'.kind = "none" => op'.step = "none" /\ front' \in {"none", "synced"}
      /\ op'.kind = "check" => op'.step = "digest" /\ front' = "syncing"
      /\ front' = "none" <=> front = "none"
      /\ op'.kind = "none" /\ front' = "synced" => ~again
      /\ copy' \in Copy /\ (edit => copy' = copy)
      /\ ~edit => ~copy'.exists /\ ~copy'.locked
      /\ again' = FALSE /\ UNCHANGED <<stale, event, closing>>
  BY <1>1, SettleEffect
<1>3. base' \in Baseline /\ base'.stamp \in {Edit!NoStamp, remote.stamp} /\ base'.digest = op.snap
  BY StampFacts DEF Edit!Confirm, Baseline, EditInv, Types, Remote, Operation
<1>4. remote.stamp \in Edit!Stamps /\ remote.stamp # Edit!NoStamp
  BY StampFacts DEF EditInv, Types, Remote
<1>5. Types'
  BY <1>1, <1>2, <1>3, <1>4 DEF EditInv, Types, Edit!Confirm, Edit!SyncVars, Edit!worldVars
<1> QED
  BY <1>1, <1>2, <1>3, <1>4, <1>5
  DEF Edit!Confirm, Edit!SyncVars, Edit!worldVars, EditInv, OpsFit, StampsFit, Looked, Fetched, Edit!At,
     GuardedMoved, Opening, Edit!Syncing, UploadIsClear, OpensClean, BaseHolds, TakenIsCopy, TakenCopy, Edit!SyncedIsTrue,
     Edit!ShownSynced, Listed, LockedExists, Edit!Moved

\* A sync that finds nothing to send, or stays pending, leaves all as it is.
LEMMA EndsWithoutChange ==
  ASSUME EditInv, NEW status \in {"synced", "pending"}, Edit!Settle(status),
         UNCHANGED Edit!SyncVars, op.kind # "open", front # "none" => front = "syncing",
         ~Edit!At("upload", "fill"), ~Edit!At("upload", "stamp"),
         status = "synced" /\ edit /\ front # "none" /\ copy.exists
           => copy.content = base.digest \/ burst \/ event \/ again
  PROVE  EditInv'
<1>1. /\ op' \in Operation /\ op'.kind \in {"none", "check"}
      /\ op'.kind = "none" => op'.step = "none" /\ front' \in {"none", status}
      /\ op'.kind = "check" => op'.step = "digest" /\ front' = "syncing"
      /\ front' = "none" <=> front = "none"
      /\ op'.kind = "none" /\ front' = status => ~again
      /\ copy' \in Copy /\ (edit => copy' = copy)
      /\ ~edit => ~copy'.exists /\ ~copy'.locked
      /\ again' = FALSE /\ UNCHANGED <<stale, event, closing>>
  BY SettleEffect
<1>2. Types'
  BY <1>1 DEF EditInv, Types, Edit!SyncVars, Edit!worldVars
<1>3. UNCHANGED <<remote, edit, base, burst, others, conn, leaving, versions, opens>>
  BY DEF Edit!SyncVars, Edit!worldVars
<1>4. OpsFit'
  BY <1>1, <1>3 DEF EditInv, OpsFit
<1>5. StampsFit' /\ GuardedMoved' /\ UploadIsClear' /\ OpensClean' /\ BaseHolds'
  BY <1>1, <1>3 DEF EditInv, StampsFit, Looked, Fetched, Edit!At, GuardedMoved, Opening,
     Edit!Syncing, Edit!Moved,
     UploadIsClear, OpensClean, BaseHolds
<1>6. TakenIsCopy' /\ Listed' /\ LockedExists'
  BY <1>1, <1>3 DEF EditInv, TakenIsCopy, TakenCopy, Edit!At, Listed, LockedExists, OpsFit
<1>7. Edit!SyncedIsTrue'
  BY <1>1, <1>3 DEF EditInv, Edit!SyncedIsTrue, Edit!ShownSynced, BaseHolds
<1> QED
  BY <1>2, <1>4, <1>5, <1>6, <1>7 DEF EditInv

LEMMA CheckDigestKeeps ==
  ASSUME EditInv, Edit!CheckDigest
  PROVE  EditInv'
<1>1. CASE copy.content = base.digest
  <2>1. Edit!Settle("synced") /\ UNCHANGED Edit!SyncVars
    BY <1>1 DEF Edit!CheckDigest, Edit!Unchanged
  <2> QED
    BY <1>1, <2>1, EndsWithoutChange DEF Edit!CheckDigest, Edit!At, EditInv, OpsFit
<1>2. CASE copy.content # base.digest
  <2>1. /\ op' \in Operation /\ op'.kind = "check" /\ op'.step = "compare"
        /\ UNCHANGED <<front, again, stale, event, closing, copy>> /\ UNCHANGED Edit!SyncVars
    BY <1>2 DEF Edit!CheckDigest, Edit!Goes, Edit!At, EditInv, Types, Operation
  <2>2. Types'
    BY <2>1 DEF EditInv, Types, Edit!SyncVars, Edit!worldVars
  <2> QED
    BY <2>1, <2>2
    DEF Edit!CheckDigest, Edit!SyncVars, Edit!worldVars, EditInv, OpsFit, StampsFit, Looked, Fetched, Edit!At,
     GuardedMoved, Opening, Edit!Syncing, UploadIsClear, OpensClean, BaseHolds, TakenIsCopy, TakenCopy, Edit!SyncedIsTrue,
     Edit!ShownSynced, Listed, LockedExists, Edit!Moved
<1> QED
  BY <1>1, <1>2

\* Past this look an upload that must not overwrite has nobody's change before it.
LEMMA CompareKeeps ==
  ASSUME EditInv, Edit!Compare
  PROVE  EditInv'
<1>1. CASE op.snap = base.digest
  <2>1. Edit!Settle("synced") /\ UNCHANGED Edit!SyncVars
    BY <1>1 DEF Edit!Compare, Edit!Unchanged
  <2>2. edit /\ front # "none" /\ copy.exists
          => copy.content = base.digest \/ burst \/ event \/ again
    BY <1>1 DEF Edit!Compare, Edit!At, EditInv, OpsFit, TakenIsCopy, TakenCopy
  <2> QED
    BY <1>1, <2>1, <2>2, EndsWithoutChange DEF Edit!Compare, Edit!At, EditInv, OpsFit
<1>2. CASE op.snap # base.digest
  <2>1. /\ op' \in Operation
        /\ \/ op'.kind = "choose" /\ op'.step = "ask" /\ Edit!Moved /\ ~op.overwrite
           \/ /\ op'.kind = "upload" /\ op'.step = "write" /\ op'.snap = op.snap
              /\ op'.overwrite = op.overwrite /\ (Edit!Moved => op.overwrite)
        /\ UNCHANGED <<front, again, stale, event, closing, copy>> /\ UNCHANGED Edit!SyncVars
    BY <1>2, OpTypes DEF Fresh, Edit!Compare, Edit!Goes, Edit!At, EditInv, Types, Operation
  <2>2. Types'
    BY <2>1 DEF EditInv, Types, Edit!SyncVars, Edit!worldVars
  <2> QED
    BY <2>1, <2>2
    DEF Edit!Compare, Edit!SyncVars, Edit!worldVars, EditInv, OpsFit, StampsFit, Looked, Fetched, Edit!At,
     GuardedMoved, Opening, Edit!Syncing, UploadIsClear, OpensClean, BaseHolds, TakenIsCopy, TakenCopy, Edit!SyncedIsTrue,
     Edit!ShownSynced, Listed, LockedExists, Edit!Moved
<1> QED
  BY <1>1, <1>2

LEMMA ChooseKeeps ==
  ASSUME EditInv, Edit!Choose
  PROVE  EditInv'
<1>1. CASE Edit!Settle("pending")
  BY <1>1, EndsWithoutChange DEF Edit!Choose, EditInv, OpsFit, Edit!At
<1>2. CASE /\ Edit!Goes(Edit!Op("upload", "snapshot", TRUE)) \/ Edit!Goes(Edit!Op("discard", "stamp", FALSE))
           /\ UNCHANGED copy
  <2>1. /\ op' \in Operation
        /\ \/ op'.kind = "upload" /\ op'.step = "snapshot"
           \/ op'.kind = "discard" /\ op'.step = "stamp"
        /\ UNCHANGED <<front, again, stale, event, closing, copy>> /\ UNCHANGED Edit!SyncVars
    BY <1>2, OpTypes DEF Fresh, Edit!Choose, Edit!Goes
  <2>2. Types'
    BY <2>1 DEF EditInv, Types, Edit!SyncVars, Edit!worldVars
  <2> QED
    BY <2>1, <2>2
    DEF Edit!Choose, Edit!SyncVars, Edit!worldVars, EditInv, OpsFit, StampsFit, Looked, Fetched, Edit!At,
     GuardedMoved, Opening, Edit!Syncing, UploadIsClear, OpensClean, BaseHolds, TakenIsCopy, TakenCopy, Edit!SyncedIsTrue,
     Edit!ShownSynced, Listed, LockedExists, Edit!Moved
<1> QED
  BY <1>1, <1>2 DEF Edit!Choose

LEMMA DiscardStampKeeps ==
  ASSUME EditInv, Edit!DiscardStamp
  PROVE  EditInv'
<1>1. /\ op' \in Operation /\ op'.kind = "discard" /\ op'.step = "download"
      /\ op'.stamp = remote.stamp
  BY StampFacts DEF Edit!DiscardStamp, Edit!Goes, Edit!At, EditInv, Types, Operation, Remote
<1>2. remote.stamp \in Edit!Stamps /\ remote.stamp # Edit!NoStamp
  BY StampFacts DEF EditInv, Types, Remote
<1>3. Types'
  BY <1>1, <1>2 DEF Edit!Goes, Edit!SyncVars, Edit!worldVars, EditInv, Types, Edit!DiscardStamp
<1> QED
  BY <1>1, <1>2, <1>3
  DEF Edit!Goes, Edit!SyncVars, Edit!worldVars, Edit!DiscardStamp, EditInv, OpsFit, StampsFit, Looked, Fetched, Edit!At,
     GuardedMoved, Opening, Edit!Syncing, UploadIsClear, OpensClean, BaseHolds, TakenIsCopy, TakenCopy, Edit!SyncedIsTrue,
     Edit!ShownSynced, Listed, LockedExists, Edit!Moved

LEMMA DiscardDownloadKeeps ==
  ASSUME EditInv, Edit!DiscardDownload
  PROVE  EditInv'
<1>1. /\ op' \in Operation /\ op'.kind = "discard" /\ op'.step = "rebase"
      /\ op'.snap = remote.content /\ op'.stamp = op.stamp
  BY DEF Edit!DiscardDownload, Edit!Goes, Edit!At, EditInv, Types, Operation, Remote
<1>2. /\ copy' \in Copy /\ copy'.content = remote.content /\ copy'.exists = copy.exists
      /\ copy'.locked = copy.locked
  BY DEF Edit!DiscardDownload, EditInv, Types, Copy, Remote
<1>3. Types'
  BY <1>1, <1>2 DEF Edit!Goes, Edit!SyncVars, Edit!worldVars, EditInv, Types, Edit!DiscardDownload
<1> QED
  BY <1>1, <1>2, <1>3
  DEF Edit!Goes, Edit!SyncVars, Edit!worldVars, Edit!DiscardDownload, EditInv, OpsFit, StampsFit, Looked, Fetched,
     Edit!At,
     GuardedMoved, Opening, Edit!Syncing, UploadIsClear, OpensClean, BaseHolds, TakenIsCopy, TakenCopy, Edit!SyncedIsTrue,
     Edit!ShownSynced, Listed, LockedExists, Edit!Moved

LEMMA DiscardRebaseKeeps ==
  ASSUME EditInv, Edit!DiscardRebase
  PROVE  EditInv'
<1>1. Edit!Settle("synced")
  BY DEF Edit!DiscardRebase
<1>2. /\ op' \in Operation /\ op'.kind \in {"none", "check"}
      /\ op'.kind = "none" => op'.step = "none" /\ front' \in {"none", "synced"}
      /\ op'.kind = "check" => op'.step = "digest" /\ front' = "syncing"
      /\ front' = "none" <=> front = "none"
      /\ op'.kind = "none" /\ front' = "synced" => ~again
      /\ copy' \in Copy /\ (edit => copy' = copy)
      /\ ~edit => ~copy'.exists /\ ~copy'.locked
      /\ again' = FALSE /\ UNCHANGED <<stale, event, closing>>
  BY <1>1, SettleEffect
<1>3. base' \in Baseline /\ base'.stamp = op.stamp /\ base'.digest = op.snap
  BY DEF Edit!DiscardRebase, Baseline, Operation, EditInv, Types
<1>4. remote.stamp \in Edit!Stamps /\ remote.stamp # Edit!NoStamp /\ op.stamp \in Held
  BY StampFacts DEF EditInv, Types, Remote, Operation
<1>5. Types'
  BY <1>1, <1>2, <1>3, <1>4 DEF EditInv, Types, Edit!DiscardRebase, Edit!SyncVars, Edit!worldVars
<1> QED
  BY <1>1, <1>2, <1>3, <1>4, <1>5
  DEF Edit!DiscardRebase, Edit!SyncVars, Edit!worldVars, EditInv, OpsFit, StampsFit, Looked, Fetched, Edit!At,
     GuardedMoved, Opening, Edit!Syncing, UploadIsClear, OpensClean, BaseHolds, TakenIsCopy, TakenCopy, Edit!SyncedIsTrue,
     Edit!ShownSynced, Listed, LockedExists, Edit!Moved

-----------------------------------------------------------------------------
(* Others, and the ends. *)

\* A change moves the stamp, so the baseline shows it (GuardedMoved), or falls in a window.
LEMMA OthersChangeKeeps ==
  ASSUME EditInv, Edit!OthersChange
  PROVE  EditInv'
<1>1. /\ versions' \in 0 .. MaxVersions /\ versions + 1 \in Edit!Contents
  BY EditBounds DEF Edit!OthersChange, EditInv, Types, Edit!Contents
<1>2. /\ remote' \in Remote /\ remote'.content = versions + 1
      /\ remote'.stamp = Edit!NewStamp
  BY <1>1, StampFacts DEF Edit!OthersChange, EditInv, Types, Remote
<1>3. Edit!NewStamp # base.stamp /\ Edit!NewStamp # op.stamp /\ Edit!NewStamp # Edit!NoStamp
  BY StampFacts
<1>4. Types'
  BY <1>1, <1>2, <1>3 DEF Edit!frontVars, EditInv, Types, Edit!OthersChange
<1>5. UNCHANGED <<conn, leaving, edit, copy, base, op, front, again, stale, event, closing, burst, opens>>
  BY DEF Edit!OthersChange, Edit!frontVars
<1>6. /\ others' \in {"mixed", "guarded", "none"}
      /\ others' = "mixed" <=> Edit!Window
      /\ others' = "guarded" <=> Edit!Editing /\ ~Edit!Window
  BY DEF Edit!OthersChange
<1>7. GuardedMoved'
  <2> SUFFICES ASSUME Edit!Editing, ~Edit!Window PROVE GuardedMoved'
    BY <1>6 DEF GuardedMoved
  <2>1. CASE Opening
    BY <1>2, <1>3, <1>5, <2>1 DEF GuardedMoved, Opening, Edit!Editing, Edit!Syncing, EditInv,
       OpensClean
  <2>2. CASE ~Opening
    <3>1. base.stamp # Edit!NoStamp
      BY <2>2 DEF Edit!Window, Edit!Editing, Edit!Syncing, Opening, EditInv, StampsFit, Edit!At,
         Types, Operation
    <3> QED
      BY <1>2, <1>3, <1>5, <2>2, <3>1 DEF GuardedMoved, Opening, Edit!Moved
  <2> QED
    BY <2>1, <2>2
<1>8. UploadIsClear' /\ OpensClean'
  BY <1>5, <1>6 DEF EditInv, UploadIsClear, OpensClean, Opening, Edit!Window, Edit!Editing,
     Edit!At, Edit!Syncing
<1>9. StampsFit' /\ BaseHolds' /\ Edit!SyncedIsTrue'
  <2>1. others' = "none" => ~edit /\ ~Fetched
    BY <1>6 DEF Edit!Editing, Edit!Window, Fetched, Edit!At, Edit!Syncing
  <2> QED
    BY <1>2, <1>3, <1>5, <2>1 DEF EditInv, StampsFit, Looked, Fetched, Edit!At, BaseHolds,
       Edit!SyncedIsTrue, Edit!ShownSynced
<1>10. OpsFit' /\ TakenIsCopy' /\ Listed' /\ LockedExists'
  BY <1>5 DEF EditInv, OpsFit, TakenIsCopy, TakenCopy, Edit!At, Listed, LockedExists
<1> QED
  BY <1>4, <1>7, <1>8, <1>9, <1>10 DEF EditInv

LEMMA StopKeeps ==
  ASSUME EditInv, Edit!Stop
  PROVE  EditInv'
<1>1. Types'
  BY DEF Edit!frontVars, Edit!worldVars, EditInv, Types, Edit!Stop
<1> QED
  BY <1>1
  DEF Edit!frontVars, Edit!worldVars, Edit!Stop, EditInv, OpsFit, StampsFit, Looked, Fetched, Edit!At,
     GuardedMoved, Opening, Edit!Syncing, UploadIsClear, OpensClean, BaseHolds, TakenIsCopy, TakenCopy, Edit!SyncedIsTrue,
     Edit!ShownSynced, Listed, LockedExists, Edit!Moved

LEMMA CloseKeeps ==
  ASSUME EditInv, Edit!Close
  PROVE  EditInv'
<1>1. /\ copy' \in Copy /\ ~edit' /\ edit' \in BOOLEAN /\ burst' = FALSE
      /\ copy' = copy \/ (~copy'.exists /\ ~copy'.locked /\ op.kind \in {"none", "choose"})
  BY NoCopyFacts DEF Edit!Close, Edit!CloseEdit, EditInv, Types
<1>2. Types'
  BY <1>1 DEF EditInv, Types, Edit!Close, Edit!frontVars, Edit!worldVars
<1> QED
  BY <1>1, <1>2
  DEF Edit!Close, Edit!frontVars, Edit!worldVars, EditInv, OpsFit, StampsFit, Looked, Fetched, Edit!At,
     GuardedMoved, Opening, Edit!Syncing, UploadIsClear, OpensClean, BaseHolds, TakenIsCopy, TakenCopy, Edit!SyncedIsTrue,
     Edit!ShownSynced, Listed, LockedExists, Edit!Moved

LEMMA DisconnectKeeps ==
  ASSUME EditInv, Edit!Disconnect
  PROVE  EditInv'
<1>1. Types'
  BY DEF EditInv, Types, Edit!Disconnect
<1> QED
  BY <1>1
  DEF Edit!Disconnect, EditInv, OpsFit, StampsFit, Looked, Fetched, Edit!At,
     GuardedMoved, Opening, Edit!Syncing, UploadIsClear, OpensClean, BaseHolds, TakenIsCopy, TakenCopy, Edit!SyncedIsTrue,
     Edit!ShownSynced, Listed, LockedExists, Edit!Moved

LEMMA CloseDeviceKeeps ==
  ASSUME EditInv, Edit!CloseDevice
  PROVE  EditInv'
<1>1. /\ copy' \in Copy /\ ~edit' /\ edit' \in BOOLEAN /\ burst' = FALSE
      /\ copy' = copy \/ (~copy'.exists /\ ~copy'.locked /\ op.kind \in {"none", "choose"})
  BY NoCopyFacts DEF Edit!CloseDevice, Edit!CloseEdit, EditInv, Types
<1>2. Types'
  BY <1>1 DEF EditInv, Types, Edit!CloseDevice, Edit!frontVars, Edit!worldVars
<1> QED
  BY <1>1, <1>2
  DEF Edit!CloseDevice, Edit!frontVars, Edit!worldVars, EditInv, OpsFit, StampsFit, Looked, Fetched, Edit!At,
     GuardedMoved, Opening, Edit!Syncing, UploadIsClear, OpensClean, BaseHolds, TakenIsCopy, TakenCopy, Edit!SyncedIsTrue,
     Edit!ShownSynced, Listed, LockedExists, Edit!Moved

LEMMA ConnectKeeps ==
  ASSUME EditInv, Edit!Connect
  PROVE  EditInv'
<1>1. opens' \in 0 .. MaxOpens
  BY EditBounds DEF Edit!Connect, EditInv, Types
<1>2. Types'
  BY <1>1 DEF Edit!frontVars, Edit!worldVars, EditInv, Types, Edit!Connect
<1> QED
  BY <1>1, <1>2
  DEF Edit!frontVars, Edit!worldVars, Edit!Connect, EditInv, OpsFit, StampsFit, Looked, Fetched, Edit!At,
     GuardedMoved, Opening, Edit!Syncing, UploadIsClear, OpensClean, BaseHolds, TakenIsCopy, TakenCopy, Edit!SyncedIsTrue,
     Edit!ShownSynced, Listed, LockedExists, Edit!Moved

LEMMA ServerDiesKeeps ==
  ASSUME EditInv, Edit!ServerDies
  PROVE  EditInv'
<1>1. Types'
  BY DEF Edit!frontVars, Edit!worldVars, EditInv, Types, Edit!ServerDies
<1> QED
  BY <1>1
  DEF Edit!frontVars, Edit!worldVars, Edit!ServerDies, EditInv, OpsFit, StampsFit, Looked, Fetched, Edit!At,
     GuardedMoved, Opening, Edit!Syncing, UploadIsClear, OpensClean, BaseHolds, TakenIsCopy, TakenCopy, Edit!SyncedIsTrue,
     Edit!ShownSynced, Listed, LockedExists, Edit!Moved

LEMMA AgeKeeps ==
  ASSUME EditInv, Edit!Age
  PROVE  EditInv'
<1>1. /\ copy' \in Copy /\ copy'.content = copy.content /\ copy'.exists = copy.exists
      /\ copy'.locked = copy.locked
  BY DEF Edit!Age, EditInv, Types, Copy
<1>2. Types'
  BY <1>1 DEF Edit!frontVars, Edit!worldVars, EditInv, Types, Edit!Age
<1> QED
  BY <1>1, <1>2
  DEF Edit!frontVars, Edit!worldVars, Edit!Age, EditInv, OpsFit, StampsFit, Looked, Fetched, Edit!At,
     GuardedMoved, Opening, Edit!Syncing, UploadIsClear, OpensClean, BaseHolds, TakenIsCopy, TakenCopy, Edit!SyncedIsTrue,
     Edit!ShownSynced, Listed, LockedExists, Edit!Moved

LEMMA SweepKeeps ==
  ASSUME EditInv, Edit!Sweep
  PROVE  EditInv'
<1>1. copy' \in Copy /\ ~copy'.exists /\ ~copy'.locked /\ ~copy.locked
  BY NoCopyFacts DEF Edit!Sweep
<1>2. Types'
  BY <1>1 DEF Edit!frontVars, Edit!worldVars, EditInv, Types, Edit!Sweep
<1> QED
  BY <1>1, <1>2
  DEF Edit!frontVars, Edit!worldVars, Edit!Sweep, EditInv, OpsFit, StampsFit, Looked, Fetched, Edit!At,
     GuardedMoved, Opening, Edit!Syncing, UploadIsClear, OpensClean, BaseHolds, TakenIsCopy, TakenCopy, Edit!SyncedIsTrue,
     Edit!ShownSynced, Listed, LockedExists, Edit!Moved

-----------------------------------------------------------------------------
\* One case per action.
LEMMA EditStepKeeps ==
  ASSUME EditInv, [Edit!Next]_Edit!vars
  PROVE  EditInv'
<1>1. CASE Edit!OpStep
  BY <1>1, OpenFailsKeeps, OpenStampKeeps, OpenDownloadKeeps, RegisterKeeps, LaunchKeeps,
     LaunchFailsKeeps, SyncFailsKeeps, CheckDigestKeeps, CheckRemoteKeeps, SnapshotKeeps,
     CompareKeeps, TruncateKeeps, FillKeeps, WriteFailsKeeps, ConfirmKeeps, ChooseKeeps,
     DiscardStampKeeps, DiscardDownloadKeeps, DiscardRebaseKeeps
  DEF Edit!OpStep
<1>2. CASE Edit!BeginSave \/ Edit!Save \/ Edit!Report \/ Edit!HandleChange
  BY <1>2, BeginSaveKeeps, SaveKeeps, ReportKeeps, HandleChangeKeeps
<1>3. CASE Edit!Open \/ Edit!OthersChange \/ Edit!Stop \/ Edit!Close \/ Edit!Disconnect \/ Edit!CloseDevice
  BY <1>3, OpenKeeps, OthersChangeKeeps, StopKeeps, CloseKeeps, DisconnectKeeps, CloseDeviceKeeps
<1>4. CASE Edit!Connect \/ Edit!ServerDies \/ Edit!Age \/ Edit!Sweep
  BY <1>4, ConnectKeeps, ServerDiesKeeps, AgeKeeps, SweepKeeps
<1>5. CASE UNCHANGED Edit!vars
  BY <1>5
  DEF Edit!vars, EditInv, Types, OpsFit, StampsFit, Looked, Fetched, Edit!At, GuardedMoved, Opening, Edit!Syncing,
      UploadIsClear, OpensClean, BaseHolds, TakenIsCopy, TakenCopy, Edit!SyncedIsTrue, Edit!ShownSynced, Listed,
      LockedExists, Edit!Moved
<1> QED
  BY <1>1, <1>2, <1>3, <1>4, <1>5 DEF Edit!Next

\* What the edit knows of the copy and of the remote file agrees with them, however
\* saves, others' changes, syncs, failures, closing and reconnecting interleave
\* (sftp_edit.rs, editSessions.ts).
THEOREM EditInvariant == PartSpec => [](part = "edit" => EditInv)
<1>1. PartInit => (part = "edit" => EditInv)
  BY EditInit DEF PartInit
<1>2. (part = "edit" => EditInv) /\ [PartNext]_allVars => (part = "edit" => EditInv)'
  <2>1. PartNext => UNCHANGED part /\ ((EditRuns /\ Edit!Next) \/ UNCHANGED editVars)
    BY DEF PartNext, OutputRuns, TransfersRun, EditRuns
  <2>2. UNCHANGED allVars => UNCHANGED part /\ UNCHANGED editVars
    BY DEF allVars
  <2>3. UNCHANGED editVars => UNCHANGED Edit!vars
    BY DEF editVars, Edit!vars
  <2> QED
    BY <2>1, <2>2, <2>3, EditStepKeeps
<1> QED
  BY <1>1, <1>2, PTL DEF PartSpec

\* An upload that was not asked to overwrite never replaces a change others made
\* while the edit was in sync (upload_snapshot, remote_moved).
THEOREM OthersChangesAreKept == PartSpec => NoSilentOverwrite
<1>1. EditInv => Edit!AsksFirst
  BY DEF EditInv, UploadIsClear, Edit!AsksFirst, Edit!Truncate, Edit!At, Types, Operation
<1>2. (part = "edit" => EditInv) => [part = "edit" => Edit!AsksFirst]_allVars
  BY <1>1
<1> QED
  BY <1>2, EditInvariant, PTL DEF PartSpec, NoSilentOverwrite

\* However saves, failures, closing and reconnecting mix: a remote file that did not
\* move since the baseline holds what the baseline says, no edit outlives its
\* connection or its line in the panel, and no copy that is locked is swept away
\* (write_back, discard, register, close_device, is_in_use).
THEOREM EditsAreKeptTrackOf == PartSpec => []EditsAreTrue
<1>1. EditInv => Edit!TypeOK
  BY DEF EditInv, Types, OpsFit, Edit!TypeOK, Remote, Copy, Baseline, Operation, Edit!Syncing, Held
<1>2. EditInv => Edit!BaselineIsTrue
  BY DEF EditInv, BaseHolds, Edit!BaselineIsTrue
<1>3. EditInv => Edit!EditsAreListed /\ Edit!LiveCopyStays
  BY OpTypes
  DEF EditInv, Listed, LockedExists, Edit!EditsAreListed, Edit!LiveCopyStays, Fresh
<1>4. (part = "edit" => EditInv) => EditsAreTrue
  BY <1>1, <1>2, <1>3 DEF EditsAreTrue
<1> QED
  BY <1>4, EditInvariant, PTL

\* What the panel shows as synced is the copy that was transferred last, and the
\* server holds it, unless others changed the file, or an upload failed or was not
\* confirmed since (check, write_back, forget_remote, discard).
THEOREM EditsAreAsShown == PartSpec => []SyncedIsTrue
<1>1. (part = "edit" => EditInv) => SyncedIsTrue
  BY DEF EditInv, SyncedIsTrue
<1> QED
  BY <1>1, EditInvariant, PTL
-----------------------------------------------------------------------------
(* Transfers: a job touches the files of its entries one after the other, and  *)
(* between two of them every file is whole.                                  *)

InFile == job.step \in {"copying", "closing"}
Loading == spec.kind = "download"
Merging == spec.tree /\ spec.policy = "skip"
NameOf(k) == spec.entries[k].name

TransferTypes ==
  /\ mapped \in ConnIds \cup {0}
  /\ conns \in [ConnIds -> {"none", "dialing", "open", "closed"}]
  /\ spec \in Specs
  /\ job \in [step : Transfers!Steps, conn : ConnIds \cup {0}, i : Nat, at : 0 .. Chunks,
              keep : BOOLEAN]
  /\ job.i \in 1 .. Len(spec.entries) + 1
  /\ registered \in BOOLEAN /\ cancelled \in BOOLEAN /\ (cancelled => registered)
  /\ files \in [Transfers!Paths -> {"absent", "old", "partial", "new"}]
  /\ before \in [Transfers!Paths -> {"absent", "old"}]
  /\ skipped \subseteq Names
  /\ outcome \in {"none", "ok", "cancelled", "failed", "unclosed"}
  /\ started \in 0 .. MaxJobs

\* Where a job can be.
JobFits ==
  /\ Transfers!Running => job.conn # 0
  /\ job.step = "removing" <=> Transfers!Running /\ spec.kind = "remove"
  /\ job.step \in {"listing", "next"} => spec.tree
  /\ job.step = "listing" => job.i = 1
  /\ job.step \in {"opening", "copying", "closing"} => job.i <= Len(spec.entries)

\* The transport of a job was opened, and may be gone; no other is left open.
TransportsFit ==
  /\ job.conn # 0 => conns[job.conn] \in {"open", "closed"}
  /\ mapped # 0 => conns[mapped] \in {"open", "closed"}
  /\ Transfers!NoLeakedConnection

\* A download writes beside the file, which keeps what it was or gets it all.
ScratchIsForOne ==
  \A n \in Names :
    /\ before[Transfers!Part(n)] = "absent"
    /\ files[Transfers!Part(n)] # "absent" => Loading /\ InFile /\ n = Transfers!Target

FilesKept ==
  \A p \in Names :
    /\ before[p] = "old" /\ spec.kind # "remove" => files[p] # "absent"
    /\ Loading => files[p] \in {before[p], "new"}
    /\ Loading /\ Merging /\ before[p] = "old" => files[p] = "old"

\* What is written to may be written to, and deleted if it fails.
TargetIsClear ==
  /\ Loading /\ Merging /\ (InFile \/ job.step = "opening") => before[Transfers!Target] = "absent"
  /\ ~Loading /\ InFile /\ ~job.keep => before[Transfers!Target] = "absent"

\* An upload leaves half a file only where it may have been there before.
HalvesAreKnown ==
  \A p \in Names :
    spec.kind = "upload" /\ before[p] = "absent" =>
      \/ files[p] \in {"absent", "new"}
      \/ InFile /\ p = Transfers!Target
      \/ ~Transfers!Running /\ (outcome = "unclosed" \/ job.keep \/ (job.conn # 0 => ~Transfers!Reachable))

\* The entries before the one at hand are done, those after it untouched.
Done(k) ==
  LET e == spec.entries[k] IN
  IF spec.kind = "remove" THEN files[e.name] = "absent" ELSE
  \/ e.type = "dir" \/ (e.type \in {"link", "special"} /\ spec.kind = "upload")
  \/ files[e.name] = "new" \/ (Merging /\ files[e.name] = "old")
  \/ e.type # "file" /\ e.name \in skipped

EntriesInOrder ==
  /\ Transfers!Running =>
       /\ \A k \in 1 .. job.i - 1 : Done(k)
       /\ \A k \in job.i .. Len(spec.entries) :
            (InFile /\ k = job.i) \/ spec.kind = "remove" \/ files[NameOf(k)] = before[NameOf(k)]
  /\ ~Transfers!Running /\ outcome = "ok" => \A k \in 1 .. Len(spec.entries) : Done(k)

TransferInv ==
  /\ TransferTypes /\ JobFits /\ TransportsFit
  /\ ScratchIsForOne /\ FilesKept /\ TargetIsClear /\ HalvesAreKnown /\ EntriesInOrder

-----------------------------------------------------------------------------
EntryRecords == [name : Names, type : Transfers!EntryTypes]

LEMMA TheSpec ==
  ASSUME TransferTypes
  PROVE  /\ spec.kind \in {"download", "upload", "edit", "remove"} /\ spec.tree \in BOOLEAN
         /\ Len(spec.entries) \in Nat
         /\ \A k \in 1 .. Len(spec.entries) :
              /\ spec.entries[k] \in EntryRecords
              /\ NameOf(k) \in Names
              /\ \A l \in 1 .. Len(spec.entries) : NameOf(k) = NameOf(l) => k = l
         /\ ~spec.tree /\ spec.kind # "remove" => Len(spec.entries) = 1
         /\ spec.kind = "edit" => ~spec.tree
         /\ Transfers!Range(spec.entries) = {spec.entries[k] : k \in 1 .. Len(spec.entries)}
<1>1. spec \in Transfers!SpecShapes
  BY FilesAssumption DEF TransferTypes, Transfers!TransfersConstants
<1>2. /\ spec.entries \in Seq(EntryRecords)
      /\ spec.kind \in {"download", "upload", "edit", "remove"} /\ spec.tree \in BOOLEAN
  BY <1>1 DEF Transfers!SpecShapes, EntryRecords
<1>3. DOMAIN spec.entries = 1 .. Len(spec.entries)
  BY <1>2
<1>4. /\ \A i, j \in 1 .. Len(spec.entries) : spec.entries[i].name = spec.entries[j].name => i = j
      /\ ~spec.tree /\ spec.kind # "remove" => Len(spec.entries) = 1
      /\ spec.kind = "edit" => ~spec.tree
  BY <1>3, FilesAssumption DEF TransferTypes, Transfers!TransfersConstants
<1>5. \A k \in 1 .. Len(spec.entries) : spec.entries[k] \in EntryRecords
  BY <1>2
<1>6. Transfers!Range(spec.entries) = {spec.entries[k] : k \in 1 .. Len(spec.entries)}
  BY <1>3 DEF Transfers!Range
<1>7. Len(spec.entries) \in Nat
  BY <1>2
<1>8. \A k \in 1 .. Len(spec.entries) : NameOf(k) \in Names
  BY <1>5 DEF NameOf, EntryRecords
<1> QED
  BY <1>2, <1>4, <1>5, <1>6, <1>7, <1>8 DEF NameOf

LEMMA ThePaths ==
  /\ \A n \in Names : n \in Transfers!Paths /\ Transfers!Part(n) \in Transfers!Paths
  /\ \A n \in Names : Transfers!Part(n) \notin Names
  /\ \A n, m \in Names : Transfers!Part(n) = Transfers!Part(m) => n = m
  /\ \A p \in Transfers!Paths : p \in Names \/ \E n \in Names : p = Transfers!Part(n)
  /\ 0 \notin ConnIds /\ MaxJobs \in Nat /\ Chunks \in Nat
BY FilesAssumption DEF Transfers!TransfersConstants, Transfers!Paths

Jobs == [step : Transfers!Steps, conn : ConnIds \cup {0}, i : Nat, at : 0 .. Chunks, keep : BOOLEAN]
FileMaps == [Transfers!Paths -> {"absent", "old", "partial", "new"}]

\* The entry at hand.
LEMMA AtHand ==
  ASSUME TransferInv, job.i <= Len(spec.entries)
  PROVE  /\ Transfers!Target \in Names /\ Transfers!Target = NameOf(job.i)
         /\ job.i \in 1 .. Len(spec.entries) /\ job.i \in Nat
         /\ Transfers!Part(Transfers!Target) \in Transfers!Paths
         /\ Transfers!Target \in Transfers!Paths
         /\ Transfers!Entry \in EntryRecords
         /\ \A k \in 1 .. Len(spec.entries) : k # job.i => NameOf(k) # Transfers!Target
<1>1. job.i \in 1 .. Len(spec.entries) /\ job.i \in Nat
  BY TheSpec DEF TransferInv, TransferTypes
<1> QED
  BY <1>1, TheSpec, ThePaths DEF TransferInv, Transfers!Target, Transfers!Entry, NameOf

-----------------------------------------------------------------------------
(* What a step does to the job and its transport. *)

LEMMA JobGoesOn ==
  ASSUME TransferInv, Transfers!Running, NEW j \in Jobs, job' = j, j.step # "idle", j.conn = job.conn,
         j.i \in 1 .. Len(spec.entries) + 1,
         UNCHANGED <<mapped, conns, spec, registered, cancelled, before, outcome, started>>,
         files' \in FileMaps, skipped' \subseteq Names
  PROVE  TransferTypes' /\ TransportsFit' /\ Transfers!Running'
<1>1. TransferTypes'
  BY DEF TransferInv, TransferTypes, Jobs, FileMaps
<1>2. TransportsFit'
  BY DEF TransferInv, TransportsFit, Transfers!NoLeakedConnection, Transfers!Running
<1> QED
  BY <1>1, <1>2 DEF Transfers!Running

LEMMA JobEnds ==
  ASSUME TransferInv, Transfers!Running, NEW how \in {"ok", "cancelled", "failed", "unclosed"},
         Transfers!End(how), files' \in FileMaps, skipped' \subseteq Names
  PROVE  /\ TransferTypes' /\ TransportsFit' /\ JobFits'
         /\ ~Transfers!Running' /\ outcome' = how /\ ~InFile' /\ job'.step = "idle"
         /\ job'.i = job.i /\ job'.keep = job.keep /\ job'.conn = job.conn /\ job.conn # 0
         /\ UNCHANGED <<spec, before>>
         /\ Transfers!Reachable' => Transfers!Reachable
<1>1. job.conn # 0 /\ job.conn \in ConnIds
  BY DEF TransferInv, JobFits, TransferTypes
<1>2. /\ job' = [job EXCEPT !.step = "idle"] /\ outcome' = how
      /\ registered' = FALSE /\ cancelled' = FALSE
      /\ UNCHANGED <<mapped, spec, before, started>>
      /\ conns' = IF job.conn # mapped /\ Transfers!Reachable
                  THEN [conns EXCEPT ![job.conn] = "closed"] ELSE conns
  BY DEF Transfers!End
<1>3. /\ job' \in Jobs /\ job'.step = "idle" /\ job'.i = job.i /\ job'.keep = job.keep
      /\ job'.conn = job.conn
  BY <1>2 DEF TransferInv, TransferTypes, Jobs, Transfers!Steps
<1>4. /\ conns' \in [ConnIds -> {"none", "dialing", "open", "closed"}]
      /\ \A c \in ConnIds : c # job.conn => conns'[c] = conns[c]
      /\ conns'[job.conn] \in {"open", "closed"}
      /\ conns'[job.conn] = "open" => conns[job.conn] = "open" /\ job.conn = mapped
  BY <1>1, <1>2 DEF TransferInv, TransferTypes, TransportsFit, Transfers!Reachable
<1>5. TransferTypes'
  BY <1>2, <1>3, <1>4 DEF TransferInv, TransferTypes, Jobs, FileMaps
<1>6. ~Transfers!Running' /\ ~InFile'
  BY <1>3 DEF Transfers!Running, InFile
<1>7. TransportsFit'
  BY <1>2, <1>3, <1>4 DEF TransferInv, TransferTypes, TransportsFit, Transfers!NoLeakedConnection
<1>8. JobFits'
  BY <1>3, <1>6 DEF JobFits
<1>9. Transfers!Reachable' => Transfers!Reachable
  BY <1>3, <1>4 DEF Transfers!Reachable
<1> QED
  BY <1>1, <1>2, <1>3, <1>5, <1>6, <1>7, <1>8, <1>9
-----------------------------------------------------------------------------
(* What a step does to the files. *)

\* While no file is written, none changes.
LEMMA Quiet ==
  ASSUME TransferInv, Transfers!Running, ~InFile, ~InFile', UNCHANGED <<spec, before, files>>
  PROVE  ScratchIsForOne' /\ FilesKept' /\ HalvesAreKnown'
<1>1. ScratchIsForOne'
  BY DEF TransferInv, ScratchIsForOne, Transfers!Part
<1>2. FilesKept'
  BY DEF TransferInv, FilesKept, Loading, Merging
<1>3. HalvesAreKnown'
  BY DEF TransferInv, HalvesAreKnown
<1> QED
  BY <1>1, <1>2, <1>3

\* What is done stays so while its file does.
LEMMA DoneStays ==
  ASSUME UNCHANGED spec, skipped \subseteq skipped', NEW k, Done(k), files'[NameOf(k)] = files[NameOf(k)]
  PROVE  Done(k)'
BY DEF Done, NameOf, Merging

LEMMA EntriesGoOn ==
  ASSUME TransferInv, TransferTypes', Transfers!Running,
         UNCHANGED <<spec, before>>, skipped \subseteq skipped',
         \A k \in 1 .. Len(spec.entries) : k # job.i => files'[NameOf(k)] = files[NameOf(k)],
         Transfers!Running',
         \/ job'.i = job.i /\ (InFile' \/ spec.kind = "remove" \/ (~InFile /\ files' = files))
         \/ job'.i = job.i + 1 /\ (\A k \in 1 .. Len(spec.entries) : k = job.i => Done(k)')
            /\ job.i <= Len(spec.entries)
  PROVE  EntriesInOrder'
<1>1. job.i \in 1 .. Len(spec.entries) + 1 /\ job.i \in Nat /\ Len(spec.entries) \in Nat
  BY TheSpec DEF TransferInv, TransferTypes
<1>2. ASSUME NEW k \in 1 .. job'.i - 1
      PROVE  Done(k)'
  <2>1. k \in 1 .. Len(spec.entries)
    BY <1>1, <1>2
  <2>2. CASE k # job.i
    <3>1. k \in 1 .. job.i - 1
      BY <1>1, <1>2, <2>2
    <3>2. Done(k)
      BY <3>1 DEF TransferInv, EntriesInOrder
    <3> QED
      BY <3>2, <2>1, <2>2, DoneStays
  <2>3. CASE k = job.i
    BY <1>1, <1>2, <2>3
  <2> QED
    BY <2>2, <2>3
<1>3. ASSUME NEW k \in job'.i .. Len(spec.entries)
      PROVE  (InFile' /\ k = job'.i) \/ spec.kind = "remove" \/ files'[NameOf(k)] = before[NameOf(k)]
  <2>1. k \in job.i .. Len(spec.entries) /\ k \in 1 .. Len(spec.entries)
    BY <1>1, <1>3
  <2>2. (InFile /\ k = job.i) \/ spec.kind = "remove" \/ files[NameOf(k)] = before[NameOf(k)]
    BY <2>1 DEF TransferInv, EntriesInOrder
  <2>3. CASE k # job.i
    BY <2>1, <2>2, <2>3
  <2>4. CASE k = job.i
    BY <1>1, <1>3, <2>1, <2>2, <2>4
  <2> QED
    BY <2>3, <2>4
<1>4. UNCHANGED Len(spec.entries)
  OBVIOUS
<1>5. \A k : NameOf(k)' = NameOf(k)
  BY DEF NameOf
<1> QED
  BY <1>2, <1>3, <1>4, <1>5 DEF EntriesInOrder

LEMMA EntriesEnd ==
  ASSUME TransferInv, Transfers!Running,
         UNCHANGED <<spec, before>>, skipped \subseteq skipped',
         \A k \in 1 .. Len(spec.entries) : k # job.i => files'[NameOf(k)] = files[NameOf(k)],
         ~Transfers!Running',
         \/ outcome' # "ok" \/ job.i > Len(spec.entries)
         \/ job.i = Len(spec.entries) /\ \A k \in 1 .. Len(spec.entries) : k = job.i => Done(k)'
  PROVE  EntriesInOrder'
<1>1. job.i \in 1 .. Len(spec.entries) + 1 /\ job.i \in Nat /\ Len(spec.entries) \in Nat
  BY TheSpec DEF TransferInv, TransferTypes
<1>2. ASSUME outcome' = "ok", NEW k \in 1 .. Len(spec.entries)
      PROVE  Done(k)'
  <2>1. CASE k # job.i
    <3>1. k \in 1 .. job.i - 1
      BY <1>1, <1>2, <2>1
    <3>2. Done(k)
      BY <3>1 DEF TransferInv, EntriesInOrder
    <3> QED
      BY <3>2, <2>1, DoneStays
  <2>2. CASE k = job.i
    BY <1>1, <1>2, <2>2
  <2> QED
    BY <2>1, <2>2
<1> QED
  BY <1>2 DEF EntriesInOrder
-----------------------------------------------------------------------------
(* The actions of a job. *)

LEMMA QuietEnd ==
  ASSUME TransferInv, Transfers!Running, ~InFile, NEW how \in {"ok", "cancelled", "failed", "unclosed"},
         Transfers!End(how), UNCHANGED <<files, skipped>>,
         how = "ok" => job.i > Len(spec.entries)
  PROVE  TransferInv'
<1>1. files' \in FileMaps /\ skipped' \subseteq Names
  BY DEF TransferInv, TransferTypes, FileMaps
<1>2. /\ TransferTypes' /\ TransportsFit' /\ JobFits'
      /\ ~Transfers!Running' /\ outcome' = how /\ ~InFile' /\ job'.step = "idle"
      /\ UNCHANGED <<spec, before>>
  BY <1>1, JobEnds
<1>3. ScratchIsForOne' /\ FilesKept' /\ HalvesAreKnown'
  BY <1>2, Quiet
<1>4. TargetIsClear'
  BY <1>2 DEF TargetIsClear
<1>5. EntriesInOrder'
  BY <1>2, EntriesEnd
<1> QED
  BY <1>2, <1>3, <1>4, <1>5 DEF TransferInv

LEMMA QuietGoTo ==
  ASSUME TransferInv, Transfers!Running, ~InFile, spec.kind # "remove", spec.tree,
         NEW step \in {"next", "opening"}, Transfers!GoTo(step), UNCHANGED <<files, skipped>>,
         step = "opening" =>
           /\ job.i <= Len(spec.entries)
           /\ Loading /\ Merging => files[Transfers!Target] = "absent"
  PROVE  TransferInv'
<1>1. /\ job' = [job EXCEPT !.step = step]
      /\ UNCHANGED <<mapped, conns, spec, registered, cancelled, before, outcome, started>>
  BY DEF Transfers!GoTo, Transfers!connVars
<1>2. /\ job' \in Jobs /\ job'.step = step /\ job'.i = job.i /\ job'.conn = job.conn
      /\ job'.keep = job.keep
  BY <1>1 DEF TransferInv, TransferTypes, Jobs, Transfers!Steps
<1>3. files' \in FileMaps /\ skipped' \subseteq Names /\ job.i \in 1 .. Len(spec.entries) + 1
  BY DEF TransferInv, TransferTypes, FileMaps
<1>4. TransferTypes' /\ TransportsFit' /\ Transfers!Running'
  BY <1>1, <1>2, <1>3, JobGoesOn
<1>5. JobFits'
  BY <1>1, <1>2, <1>4 DEF TransferInv, JobFits, Transfers!Running
<1>6. ~InFile'
  BY <1>2 DEF InFile
<1>7. ScratchIsForOne' /\ FilesKept' /\ HalvesAreKnown'
  BY <1>1, <1>6, Quiet
<1>8. TargetIsClear'
  <2>1. Transfers!Target' = Transfers!Target
    BY <1>1, <1>2 DEF Transfers!Target, Transfers!Entry
  <2>2. CASE step = "opening" /\ Loading /\ Merging
    <3>1. Transfers!Target \in Names /\ files[Transfers!Target] = "absent" /\ Transfers!Target \in Transfers!Paths
      BY <2>2, AtHand
    <3>2. before[Transfers!Target] # "old"
      BY <3>1, <2>2 DEF TransferInv, FilesKept, Loading
    <3>3. before[Transfers!Target] = "absent"
      BY <3>1, <3>2 DEF TransferInv, TransferTypes
    <3> QED
      BY <3>3, <2>1, <1>1, <1>6 DEF TargetIsClear
  <2>3. CASE ~(step = "opening" /\ Loading /\ Merging)
    BY <2>3, <1>1, <1>2, <1>6 DEF TargetIsClear, Loading, Merging
  <2> QED
    BY <2>2, <2>3
<1>9. EntriesInOrder'
  BY <1>1, <1>2, <1>4, EntriesGoOn
<1> QED
  BY <1>4, <1>5, <1>7, <1>8, <1>9 DEF TransferInv

LEMMA QuietAdvance ==
  ASSUME TransferInv, Transfers!Running, ~InFile, spec.kind # "remove", spec.tree,
         job.i <= Len(spec.entries), Transfers!Advance,
         UNCHANGED files, skipped \subseteq skipped', skipped' \subseteq Names,
         \A k \in 1 .. Len(spec.entries) : k = job.i => Done(k)'
  PROVE  TransferInv'
<1>1. /\ job' = [job EXCEPT !.step = "next", !.i = job.i + 1, !.at = 0]
      /\ UNCHANGED <<mapped, conns, spec, registered, cancelled, before, outcome, started>>
  BY DEF Transfers!Advance, Transfers!connVars
<1>2. job.i \in Nat /\ Len(spec.entries) \in Nat /\ job.i + 1 \in 1 .. Len(spec.entries) + 1
      /\ Chunks \in Nat
  BY AtHand, TheSpec, ThePaths DEF TransferInv
<1>3. /\ job' \in Jobs /\ job'.step = "next" /\ job'.i = job.i + 1 /\ job'.conn = job.conn
      /\ job'.keep = job.keep
  <2>1. 0 \in 0 .. Chunks /\ job.i + 1 \in Nat /\ "next" \in Transfers!Steps
    BY <1>2 DEF Transfers!Steps
  <2>2. job \in Jobs
    BY DEF TransferInv, TransferTypes, Jobs
  <2> QED
    BY <1>1, <2>1, <2>2 DEF Jobs
<1>4. files' \in FileMaps
  BY DEF TransferInv, TransferTypes, FileMaps
<1>5. TransferTypes' /\ TransportsFit' /\ Transfers!Running'
  BY <1>1, <1>2, <1>3, <1>4, JobGoesOn
<1>6. JobFits'
  BY <1>1, <1>3, <1>5 DEF TransferInv, JobFits, Transfers!Running
<1>7. ~InFile'
  BY <1>3 DEF InFile
<1>8. ScratchIsForOne' /\ FilesKept' /\ HalvesAreKnown'
  BY <1>1, <1>7, Quiet
<1>9. TargetIsClear'
  BY <1>3, <1>7 DEF TargetIsClear
<1>10. EntriesInOrder'
  BY <1>1, <1>3, <1>5, EntriesGoOn
<1> QED
  BY <1>5, <1>6, <1>8, <1>9, <1>10 DEF TransferInv
LEMMA InTree ==
  ASSUME TransferInv, job.step \in {"listing", "next"}
  PROVE  Transfers!Running /\ ~InFile /\ spec.tree /\ spec.kind # "remove" /\ job.conn # 0
<1>1. Transfers!Running /\ ~InFile /\ job.step # "removing"
  BY DEF Transfers!Running, InFile
<1> QED
  BY <1>1 DEF TransferInv, JobFits

LEMMA OnList ==
  ASSUME TransferInv, Transfers!List
  PROVE  TransferInv'
<1>1. job.step = "listing" /\ UNCHANGED <<files, skipped>>
  BY DEF Transfers!List
<1>2. CASE Transfers!GoTo("next")
  BY <1>1, <1>2, InTree, QuietGoTo
<1>3. CASE Transfers!End("failed")
  BY <1>1, <1>3, InTree, QuietEnd
<1> QED
  BY <1>2, <1>3 DEF Transfers!List

LEMMA OnTreeEnds ==
  ASSUME TransferInv, Transfers!TreeEnds \/ Transfers!TreeCancelled
  PROVE  TransferInv'
<1>1. job.step = "next" /\ UNCHANGED <<files, skipped>>
  BY DEF Transfers!TreeEnds, Transfers!TreeCancelled
<1>2. CASE Transfers!TreeEnds
  BY <1>1, <1>2, InTree, QuietEnd DEF Transfers!TreeEnds, TransferInv, TransferTypes
<1>3. CASE Transfers!TreeCancelled
  BY <1>1, <1>3, InTree, QuietEnd DEF Transfers!TreeCancelled
<1> QED
  BY <1>2, <1>3

\* What may be done with an entry of a tree.
LEMMA EntryKinds ==
  ASSUME TransferInv, job.step = "next", job.i <= Len(spec.entries), NEW action,
         action \in IF spec.kind = "download" THEN Transfers!EntryActions ELSE Transfers!WalkActions
  PROVE  /\ action \in {"Fetch", "Descend", "Skip", "Pass"}
         /\ action = "Descend" => Transfers!Entry.type = "dir"
         /\ action = "Skip" => Transfers!Entry.type # "file"
         /\ action = "Pass" => Transfers!Entry.type \in {"link", "special"} /\ spec.kind = "upload"
<1>1. Transfers!Entry.type \in {"file", "dir", "link", "special", "badName"}
  BY AtHand DEF EntryRecords, Transfers!EntryTypes
<1>2. spec.tree /\ spec.kind \in {"download", "upload"}
  <2>1. spec.tree /\ spec.kind # "remove"
    BY InTree
  <2> QED
    BY <2>1, TheSpec DEF TransferInv
<1>3. CASE Transfers!Entry.type = "file"
  BY <1>2, <1>3 DEF Transfers!EntryActions, Transfers!WalkActions
<1>4. CASE Transfers!Entry.type = "dir"
  BY <1>2, <1>4 DEF Transfers!EntryActions, Transfers!WalkActions
<1>5. CASE Transfers!Entry.type = "link"
  BY <1>2, <1>5 DEF Transfers!EntryActions, Transfers!WalkActions
<1>6. CASE Transfers!Entry.type = "special"
  BY <1>2, <1>6 DEF Transfers!EntryActions, Transfers!WalkActions
<1>7. CASE Transfers!Entry.type = "badName"
  BY <1>2, <1>7 DEF Transfers!EntryActions, Transfers!WalkActions
<1> QED
  BY <1>1, <1>3, <1>4, <1>5, <1>6, <1>7

\* An entry whose file was there is done when the policy is to skip it.
LEMMA OnFetch ==
  ASSUME TransferInv, job.step = "next", job.i <= Len(spec.entries), Transfers!Fetch
  PROVE  TransferInv'
<1>1. UNCHANGED <<files, skipped>>
  BY DEF Transfers!Fetch
<1>2. Transfers!Running /\ ~InFile /\ spec.tree /\ spec.kind # "remove"
  BY InTree
<1>3. Transfers!Target = NameOf(job.i) /\ Transfers!Target \in Transfers!Paths
      /\ job.i \in 1 .. Len(spec.entries) /\ job.i \in Nat /\ Len(spec.entries) \in Nat
      /\ Transfers!Target \in Names
  BY AtHand, TheSpec DEF TransferInv
<1>4. CASE TRUE \in Transfers!Existing /\ spec.policy = "skip" /\ Transfers!Advance
  <2>1. files[Transfers!Target] # "absent"
    BY <1>4 DEF Transfers!Existing
  <2>2. files[NameOf(job.i)] = before[NameOf(job.i)]
    BY <1>2, <1>3 DEF TransferInv, EntriesInOrder
  <2>3. before[Transfers!Target] \in {"absent", "old"}
    BY <1>3 DEF TransferInv, TransferTypes
  <2>4. files[NameOf(job.i)] = "old" /\ Merging
    BY <2>1, <2>2, <2>3, <1>2, <1>3, <1>4 DEF Merging
  <2>5. ASSUME NEW k \in 1 .. Len(spec.entries), k = job.i
        PROVE  Done(k)'
    <3>1. Done(k)
      BY <2>4, <2>5, <1>2 DEF Done, NameOf
    <3> QED
      BY <3>1, <1>1, <1>4, DoneStays DEF Transfers!Advance
  <2> QED
    BY <1>1, <1>2, <1>3, <1>4, <2>5, QuietAdvance DEF TransferInv, TransferTypes
<1>5. CASE (FALSE \in Transfers!Existing \/ spec.policy # "skip") /\ Transfers!GoTo("opening")
  <2>1. Loading /\ Merging => files[Transfers!Target] = "absent"
    BY <1>5 DEF Loading, Merging, Transfers!Existing
  <2> QED
    BY <1>1, <1>2, <1>5, <2>1, QuietGoTo
<1> QED
  BY <1>4, <1>5 DEF Transfers!Fetch

LEMMA OnTreeEntry ==
  ASSUME TransferInv, Transfers!TreeEntry
  PROVE  TransferInv'
<1>1. job.step = "next" /\ job.i <= Len(spec.entries)
  BY DEF Transfers!TreeEntry, Transfers!AtEntry
<1>2. Transfers!Running /\ ~InFile /\ spec.tree /\ spec.kind # "remove"
  BY <1>1, InTree
<1>3. Transfers!Target = NameOf(job.i) /\ Transfers!Target \in Names /\ job.i \in 1 .. Len(spec.entries)
      /\ Transfers!Entry = spec.entries[job.i]
  BY <1>1, AtHand DEF Transfers!Entry
<1>4. PICK action \in IF spec.kind = "download" THEN Transfers!EntryActions ELSE Transfers!WalkActions :
        \/ action = "Fetch" /\ Transfers!Fetch
        \/ action = "Descend" /\ Transfers!Descend
        \/ /\ action = "Skip" /\ skipped' = skipped \cup {Transfers!Target} /\ Transfers!Advance
           /\ UNCHANGED files
        \/ action = "Pass" /\ Transfers!Advance /\ UNCHANGED <<files, skipped>>
  BY DEF Transfers!TreeEntry
<1>5. /\ action = "Descend" => spec.entries[job.i].type = "dir"
      /\ action = "Skip" => spec.entries[job.i].type # "file"
      /\ action = "Pass" => spec.entries[job.i].type \in {"link", "special"} /\ spec.kind = "upload"
  BY <1>1, <1>3, EntryKinds
<1>6. skipped \subseteq Names
  BY DEF TransferInv, TransferTypes
<1>7. ASSUME Transfers!Advance, UNCHANGED files, skipped \subseteq skipped', skipped' \subseteq Names,
             \/ spec.entries[job.i].type = "dir"
             \/ spec.entries[job.i].type # "file" /\ NameOf(job.i) \in skipped'
             \/ spec.entries[job.i].type \in {"link", "special"} /\ spec.kind = "upload"
      PROVE  TransferInv'
  <2>1. UNCHANGED spec
    BY <1>7 DEF Transfers!Advance
  <2>2. ASSUME NEW k \in 1 .. Len(spec.entries), k = job.i
        PROVE  Done(k)'
    BY <2>1, <2>2, <1>2, <1>7 DEF Done, NameOf, Merging
  <2> QED
    BY <1>1, <1>2, <1>7, <2>2, QuietAdvance
<1>8. CASE action = "Fetch" /\ Transfers!Fetch
  BY <1>1, <1>8, OnFetch
<1>9. CASE action = "Descend" /\ Transfers!Descend
  <2>1. UNCHANGED <<files, skipped>>
    BY <1>9 DEF Transfers!Descend
  <2>2. CASE Transfers!Advance
    BY <2>1, <2>2, <1>5, <1>6, <1>7, <1>9
  <2>3. CASE Transfers!End("failed")
    BY <2>1, <2>3, <1>2, QuietEnd
  <2> QED
    BY <2>2, <2>3, <1>9 DEF Transfers!Descend
<1>10. CASE action = "Skip" /\ skipped' = skipped \cup {Transfers!Target} /\ Transfers!Advance /\ UNCHANGED files
  BY <1>3, <1>5, <1>6, <1>7, <1>10
<1>11. CASE action = "Pass" /\ Transfers!Advance /\ UNCHANGED <<files, skipped>>
  BY <1>5, <1>6, <1>7, <1>11
<1> QED
  BY <1>4, <1>8, <1>9, <1>10, <1>11
-----------------------------------------------------------------------------
(* The actions that write. *)

LEMMA AtFile ==
  ASSUME TransferInv, job.step \in {"opening", "copying", "closing"}
  PROVE  /\ Transfers!Running /\ job.conn # 0 /\ job.i <= Len(spec.entries)
         /\ spec.kind \in {"download", "upload", "edit"} /\ spec.kind # "remove"
         /\ Transfers!Target \in Names /\ Transfers!Part(Transfers!Target) \in Transfers!Paths
         /\ Transfers!Part(Transfers!Target) \notin Names /\ Transfers!Target \in Transfers!Paths
         /\ job.i \in 1 .. Len(spec.entries) /\ Transfers!Target = NameOf(job.i)
         /\ \A k \in 1 .. Len(spec.entries) : NameOf(k) \in Names /\ (k # job.i => NameOf(k) # Transfers!Target)
<1>1. Transfers!Running /\ job.step # "removing"
  BY DEF Transfers!Running
<1>2. job.i <= Len(spec.entries) /\ spec.kind # "remove" /\ job.conn # 0
  BY <1>1 DEF TransferInv, JobFits
<1> QED
  BY <1>1, <1>2, AtHand, ThePaths, TheSpec DEF TransferInv

LEMMA OnFileFails ==
  ASSUME TransferInv, NEW how \in {"cancelled", "failed"}, Transfers!FileFails(how),
         job.step \in {"opening", "copying", "closing"},
         spec.kind = "download" \/ job.step = "copying"
  PROVE  TransferInv'
<1> DEFINE t == Transfers!Target
<1>1. /\ Transfers!Running /\ job.conn # 0 /\ spec.kind # "remove" /\ t \in Names /\ t \in Transfers!Paths
      /\ Transfers!Part(t) \in Transfers!Paths /\ Transfers!Part(t) \notin Names
      /\ spec.kind \in {"download", "upload", "edit"}
      /\ \A k \in 1 .. Len(spec.entries) : NameOf(k) \in Names /\ (k # job.i => NameOf(k) # t)
  BY AtFile
<1>2. /\ Transfers!End(how) /\ UNCHANGED skipped
      /\ files' = IF spec.kind = "download" \/ (~job.keep /\ Transfers!Reachable)
                  THEN [files EXCEPT ![Transfers!Written] = "absent"] ELSE files
  BY DEF Transfers!FileFails
<1>3. files \in FileMaps /\ skipped' \subseteq Names
  BY <1>2 DEF TransferInv, TransferTypes, FileMaps
<1>4. /\ files' \in FileMaps
      /\ spec.kind = "download" => /\ files'[Transfers!Part(t)] = "absent"
                                   /\ \A p \in Transfers!Paths : p # Transfers!Part(t) => files'[p] = files[p]
      /\ spec.kind # "download" => /\ \A p \in Transfers!Paths : p # t => files'[p] = files[p]
                                   /\ \/ files' = files /\ (job.keep \/ ~Transfers!Reachable)
                                      \/ files'[t] = "absent" /\ ~job.keep
  <2>1. CASE spec.kind = "download"
    BY <2>1, <1>1, <1>2, <1>3 DEF FileMaps, Transfers!Written
  <2>2. CASE spec.kind # "download"
    BY <2>2, <1>1, <1>2, <1>3 DEF FileMaps, Transfers!Written
  <2> QED
    BY <2>1, <2>2
<1>5. /\ TransferTypes' /\ TransportsFit' /\ JobFits'
      /\ ~Transfers!Running' /\ outcome' = how /\ ~InFile' /\ job'.step = "idle"
      /\ job'.keep = job.keep /\ job'.conn = job.conn
      /\ UNCHANGED <<spec, before>>
      /\ Transfers!Reachable' => Transfers!Reachable
  BY <1>1, <1>2, <1>3, <1>4, JobEnds
<1> HIDE DEF t
<1>6. ScratchIsForOne'
  <2>1. ASSUME NEW n \in Names
        PROVE  before'[Transfers!Part(n)] = "absent" /\ files'[Transfers!Part(n)] = "absent"
    <3>1. before[Transfers!Part(n)] = "absent"
          /\ (files[Transfers!Part(n)] # "absent" => spec.kind = "download" /\ n = t)
      BY DEF TransferInv, ScratchIsForOne, Loading, t
    <3>2. Transfers!Part(n) \in Transfers!Paths /\ Transfers!Part(n) \notin Names
      BY ThePaths
    <3>3. CASE spec.kind = "download"
      BY <3>1, <3>2, <3>3, <1>4, <1>5
    <3>4. CASE spec.kind # "download"
      BY <3>1, <3>2, <3>4, <1>1, <1>4, <1>5
    <3> QED
      BY <3>3, <3>4
  <2> QED
    BY <2>1 DEF ScratchIsForOne, Transfers!Part
<1>7. FilesKept'
  <2>1. ASSUME NEW p \in Names
        PROVE  /\ before[p] = "old" => files'[p] # "absent"
               /\ spec.kind = "download" => files'[p] = files[p]
    <3>1. p \in Transfers!Paths
      BY ThePaths
    <3>2. before[p] = "old" => files[p] # "absent"
      BY <1>1 DEF TransferInv, FilesKept
    <3>3. CASE spec.kind = "download"
      BY <3>1, <3>2, <3>3, <1>1, <1>4
    <3>4. CASE spec.kind # "download"
      <4>1. ~job.keep => before[t] = "absent"
        BY <3>4 DEF TransferInv, TargetIsClear, Loading, InFile, t
      <4> QED
        BY <3>1, <3>2, <3>4, <4>1, <1>4
    <3> QED
      BY <3>3, <3>4
  <2> QED
    BY <2>1, <1>5 DEF TransferInv, FilesKept, Loading, Merging
<1>8. TargetIsClear'
  BY <1>5 DEF TargetIsClear
<1>9. HalvesAreKnown'
  <2>1. ASSUME NEW p \in Names, spec.kind = "upload", before[p] = "absent"
        PROVE  files'[p] \in {"absent", "new"} \/ job.keep \/ ~Transfers!Reachable
    <3>1. p \in Transfers!Paths
      BY ThePaths
    <3>2. p # t => files[p] \in {"absent", "new"}
      BY <2>1, <1>1 DEF TransferInv, HalvesAreKnown, t
    <3> QED
      BY <3>1, <3>2, <2>1, <1>4
  <2> QED
    BY <2>1, <1>5 DEF HalvesAreKnown
<1>10. EntriesInOrder'
  <2>1. \A k \in 1 .. Len(spec.entries) : k # job.i => files'[NameOf(k)] = files[NameOf(k)]
    BY <1>1, <1>4, ThePaths
  <2>2. skipped \subseteq skipped' /\ outcome' # "ok"
    BY <1>2, <1>5
  <2> QED
    BY <2>1, <2>2, <1>1, <1>5, EntriesEnd
<1> QED
  BY <1>5, <1>6, <1>7, <1>8, <1>9, <1>10 DEF TransferInv

\* A chunk is written, or nothing yet or no more.
LEMMA Writes ==
  ASSUME TransferInv, job.step \in {"opening", "copying"}, NEW j \in Jobs, job' = j,
         j.step \in {"copying", "closing"}, j.conn = job.conn, j.i = job.i,
         UNCHANGED <<mapped, conns, spec, registered, cancelled, before, skipped, outcome, started>>,
         (files' = files /\ job.step = "copying") \/ files' = [files EXCEPT ![Transfers!Written] = "partial"],
         ~Loading /\ ~j.keep => before[Transfers!Target] = "absent"
  PROVE  TransferInv'
<1> DEFINE t == Transfers!Target
<1>1. /\ Transfers!Running /\ job.conn # 0 /\ spec.kind # "remove" /\ t \in Names /\ t \in Transfers!Paths
      /\ Transfers!Part(t) \in Transfers!Paths /\ Transfers!Part(t) \notin Names
      /\ job.i \in 1 .. Len(spec.entries) /\ job.i <= Len(spec.entries) /\ Len(spec.entries) \in Nat
      /\ \A k \in 1 .. Len(spec.entries) : NameOf(k) \in Names /\ (k # job.i => NameOf(k) # t)
  BY AtFile, TheSpec DEF TransferInv
<1>2. files \in FileMaps
  BY DEF TransferInv, TransferTypes, FileMaps
<1>3. /\ files' \in FileMaps
      /\ \A p \in Transfers!Paths : (IF spec.kind = "download" THEN p # Transfers!Part(t) ELSE p # t)
                                    => files'[p] = files[p]
      /\ spec.kind # "download" => files'[t] = files[t] \/ files'[t] = "partial"
  <2>1. CASE spec.kind = "download"
    BY <2>1, <1>1, <1>2 DEF FileMaps, Transfers!Written
  <2>2. CASE spec.kind # "download"
    BY <2>2, <1>1, <1>2 DEF FileMaps, Transfers!Written
  <2> QED
    BY <2>1, <2>2
<1>4. InFile' /\ job'.step \in {"copying", "closing"} /\ t' = t
  BY DEF InFile, Transfers!Target, Transfers!Entry
<1> HIDE DEF t
<1>5. TransferTypes' /\ TransportsFit' /\ Transfers!Running'
  <2>1. skipped' \subseteq Names /\ j.step # "idle" /\ j.i \in 1 .. Len(spec.entries) + 1
    BY <1>1 DEF TransferInv, TransferTypes
  <2> QED
    BY <2>1, <1>1, <1>3, JobGoesOn
<1>6. JobFits'
  BY <1>1, <1>5 DEF JobFits, Transfers!Running
<1>7. ScratchIsForOne'
  <2>1. ASSUME NEW n \in Names
        PROVE  /\ before'[Transfers!Part(n)] = "absent"
               /\ files'[Transfers!Part(n)] # "absent" => Loading' /\ n = t'
    <3>1. before[Transfers!Part(n)] = "absent"
          /\ (files[Transfers!Part(n)] # "absent" => spec.kind = "download" /\ n = t)
      BY DEF TransferInv, ScratchIsForOne, Loading, t
    <3>2. Transfers!Part(n) \in Transfers!Paths /\ Transfers!Part(n) \notin Names
          /\ (n # t => Transfers!Part(n) # Transfers!Part(t))
      BY <1>1, ThePaths
    <3>3. CASE spec.kind = "download"
      BY <3>1, <3>2, <3>3, <1>3, <1>4 DEF Loading
    <3>4. CASE spec.kind # "download"
      BY <3>1, <3>2, <3>4, <1>1, <1>3
    <3> QED
      BY <3>3, <3>4
  <2> QED
    BY <2>1, <1>4 DEF ScratchIsForOne, Transfers!Part, t
<1>8. FilesKept'
  <2>1. ASSUME NEW p \in Names
        PROVE  /\ before[p] = "old" => files'[p] # "absent"
               /\ spec.kind = "download" => files'[p] = files[p]
    <3>1. p \in Transfers!Paths
      BY ThePaths
    <3>2. before[p] = "old" => files[p] # "absent"
      BY <1>1 DEF TransferInv, FilesKept
    <3> QED
      BY <3>1, <3>2, <1>1, <1>3
  <2> QED
    BY <2>1 DEF TransferInv, FilesKept, Loading, Merging
<1>9. TargetIsClear'
  <2>1. Loading /\ Merging => before[t] = "absent"
    BY DEF TransferInv, TargetIsClear, InFile, t
  <2> QED
    BY <2>1, <1>4 DEF TargetIsClear, Loading, Merging, t
<1>10. HalvesAreKnown'
  <2>1. ASSUME NEW p \in Names, spec.kind = "upload", before[p] = "absent"
        PROVE  files'[p] \in {"absent", "new"} \/ p = t
    <3>1. p \in Transfers!Paths
      BY ThePaths
    <3>2. p # t => files[p] \in {"absent", "new"}
      BY <2>1, <1>1 DEF TransferInv, HalvesAreKnown, t
    <3> QED
      BY <3>1, <3>2, <2>1, <1>3
  <2> QED
    BY <2>1, <1>4 DEF HalvesAreKnown, t
<1>11. EntriesInOrder'
  <2>1. \A k \in 1 .. Len(spec.entries) : k # job.i => files'[NameOf(k)] = files[NameOf(k)]
    BY <1>1, <1>3, ThePaths
  <2>2. job'.i = job.i
    OBVIOUS
  <2> QED
    BY <2>1, <2>2, <1>1, <1>4, <1>5, EntriesGoOn
<1> QED
  BY <1>5, <1>6, <1>7, <1>8, <1>9, <1>10, <1>11 DEF TransferInv
\* The file is whole, and the job goes on to the next or is over.
LEMMA FileIsWhole ==
  ASSUME TransferInv, job.step = "closing", Transfers!FileDone, files' \in FileMaps, UNCHANGED skipped,
         files'[Transfers!Target] = "new",
         \A n \in Names : n # Transfers!Target => files'[n] = files[n],
         \A n \in Names : files'[Transfers!Part(n)] = "absent"
  PROVE  TransferInv'
<1> DEFINE t == Transfers!Target
<1>1. /\ Transfers!Running /\ job.conn # 0 /\ spec.kind # "remove" /\ t \in Names
      /\ job.i \in 1 .. Len(spec.entries) /\ job.i <= Len(spec.entries) /\ Len(spec.entries) \in Nat
      /\ t = NameOf(job.i)
      /\ \A k \in 1 .. Len(spec.entries) : NameOf(k) \in Names /\ (k # job.i => NameOf(k) # t)
  BY AtFile, TheSpec DEF TransferInv
<1>2. skipped' \subseteq Names
  BY DEF TransferInv, TransferTypes
<1>3. UNCHANGED <<spec, before>>
  BY DEF Transfers!FileDone, Transfers!Advance, Transfers!End
<1>4. /\ TransferTypes' /\ TransportsFit' /\ JobFits' /\ ~InFile' /\ job'.step \in {"next", "idle"}
      /\ spec.tree => Transfers!Running' /\ job'.i = job.i + 1
      /\ ~spec.tree => ~Transfers!Running'
  <2>1. CASE spec.tree
    <3>1. /\ job' = [job EXCEPT !.step = "next", !.i = job.i + 1, !.at = 0]
          /\ UNCHANGED <<mapped, conns, spec, registered, cancelled, before, outcome, started>>
      BY <2>1 DEF Transfers!FileDone, Transfers!Advance, Transfers!connVars
    <3>2. /\ job' \in Jobs /\ job'.step = "next" /\ job'.i = job.i + 1 /\ job'.conn = job.conn
      <4>1. 0 \in 0 .. Chunks /\ job.i + 1 \in Nat /\ "next" \in Transfers!Steps
        BY <1>1, ThePaths DEF Transfers!Steps
      <4>2. job \in Jobs
        BY DEF TransferInv, TransferTypes, Jobs
      <4> QED
        BY <3>1, <4>1, <4>2 DEF Jobs
    <3>3. job'.i \in 1 .. Len(spec.entries) + 1
      BY <1>1, <3>2
    <3>4. TransferTypes' /\ TransportsFit' /\ Transfers!Running'
      BY <1>1, <1>2, <3>1, <3>2, <3>3, JobGoesOn
    <3>5. JobFits'
      BY <1>1, <2>1, <3>1, <3>2, <3>4 DEF TransferInv, JobFits, Transfers!Running
    <3>6. ~InFile'
      BY <3>2 DEF InFile
    <3> QED
      BY <2>1, <3>2, <3>4, <3>5, <3>6
  <2>2. CASE ~spec.tree
    <3>1. Transfers!End("ok")
      BY <2>2 DEF Transfers!FileDone
    <3> QED
      BY <1>1, <1>2, <2>2, <3>1, JobEnds
  <2> QED
    BY <2>1, <2>2
<1> HIDE DEF t
<1>5. ScratchIsForOne'
  BY <1>3 DEF TransferInv, ScratchIsForOne, Transfers!Part
<1>6. FilesKept'
  <2>1. Loading /\ Merging => before[t] = "absent"
    BY DEF TransferInv, TargetIsClear, InFile, t
  <2>2. ASSUME NEW p \in Names
        PROVE  (p = t /\ files'[p] = "new") \/ files'[p] = files[p]
    BY DEF t
  <2> QED
    BY <1>3, <2>1, <2>2 DEF TransferInv, FilesKept, Loading, Merging
<1>7. TargetIsClear'
  BY <1>4 DEF TargetIsClear, InFile
<1>8. HalvesAreKnown'
  <2>1. ASSUME NEW p \in Names, spec.kind = "upload", before[p] = "absent"
        PROVE  files'[p] \in {"absent", "new"}
    <3>1. p # t => files[p] \in {"absent", "new"}
      BY <2>1, <1>1 DEF TransferInv, HalvesAreKnown, t
    <3> QED
      BY <3>1 DEF t
  <2> QED
    BY <2>1, <1>3 DEF HalvesAreKnown
<1>9. EntriesInOrder'
  <2>1. /\ \A k \in 1 .. Len(spec.entries) : k # job.i => files'[NameOf(k)] = files[NameOf(k)]
        /\ skipped \subseteq skipped'
    BY <1>1 DEF t
  <2>2. \A k \in 1 .. Len(spec.entries) : k = job.i => Done(k)'
    BY <1>1, <1>3 DEF Done, NameOf, t
  <2>3. CASE spec.tree
    BY <2>1, <2>2, <2>3, <1>1, <1>3, <1>4, EntriesGoOn
  <2>4. CASE ~spec.tree
    <3>1. Len(spec.entries) = 1
      BY <1>1, <2>4, TheSpec DEF TransferInv
    <3> QED
      BY <2>1, <2>2, <2>4, <3>1, <1>1, <1>3, <1>4, EntriesEnd
  <2> QED
    BY <2>3, <2>4
<1> QED
  BY <1>4, <1>5, <1>6, <1>7, <1>8, <1>9 DEF TransferInv

LEMMA OnOpenDownload ==
  ASSUME TransferInv, Transfers!OpenDownload
  PROVE  TransferInv'
<1>1. job.step = "opening" /\ spec.kind = "download"
  BY DEF Transfers!OpenDownload
<1>2. CASE /\ files' = [files EXCEPT ![Transfers!Written] = "partial"] /\ Transfers!GoTo("copying")
           /\ UNCHANGED skipped
  <2>1. /\ job' = [job EXCEPT !.step = "copying"]
        /\ UNCHANGED <<mapped, conns, spec, registered, cancelled, before, outcome, started>>
    BY <1>2 DEF Transfers!GoTo, Transfers!connVars
  <2>2. job' \in Jobs /\ job'.step = "copying" /\ job'.conn = job.conn /\ job'.i = job.i
    BY <2>1 DEF TransferInv, TransferTypes, Jobs, Transfers!Steps
  <2> QED
    BY <1>1, <1>2, <2>1, <2>2, Writes DEF Loading
<1>3. CASE Transfers!FileFails("failed")
  BY <1>1, <1>3, OnFileFails
<1> QED
  BY <1>2, <1>3 DEF Transfers!OpenDownload

\* A target that may have been there is kept.
LEMMA OnOpenUpload ==
  ASSUME TransferInv, Transfers!OpenUpload
  PROVE  TransferInv'
<1>1. job.step = "opening" /\ spec.kind # "download" /\ UNCHANGED skipped
  BY DEF Transfers!OpenUpload
<1>2. ASSUME files' = [files EXCEPT ![Transfers!Target] = "partial"],
             NEW keep \in Transfers!KeepIfExisting,
             job' = [job EXCEPT !.step = "copying", !.keep = keep],
             UNCHANGED <<mapped, conns, spec, registered, cancelled, before, outcome, started>>
      PROVE  TransferInv'
  <2>1. keep \in BOOLEAN /\ (~keep => files[Transfers!Target] = "absent")
    BY DEF Transfers!KeepIfExisting
  <2>2. job' \in Jobs /\ job'.step = "copying" /\ job'.conn = job.conn /\ job'.i = job.i /\ job'.keep = keep
    <3>1. job \in Jobs /\ "copying" \in Transfers!Steps
      BY DEF TransferInv, TransferTypes, Jobs, Transfers!Steps
    <3> QED
      BY <1>2, <2>1, <3>1 DEF Jobs
  <2>3. ~keep => before[Transfers!Target] = "absent"
    <3>1. Transfers!Target \in Names /\ spec.kind # "remove" /\ Transfers!Target \in Transfers!Paths
      BY <1>1, AtFile
    <3>2. before[Transfers!Target] \in {"absent", "old"}
      BY <3>1 DEF TransferInv, TransferTypes
    <3>3. before[Transfers!Target] = "old" => files[Transfers!Target] # "absent"
      BY <3>1 DEF TransferInv, FilesKept
    <3> QED
      BY <2>1, <3>2, <3>3
  <2> QED
    BY <1>1, <1>2, <2>2, <2>3, Writes DEF Transfers!Written
<1>3. CASE Transfers!End("failed") /\ UNCHANGED files
  <2>1. ~InFile
    BY <1>1 DEF InFile
  <2> QED
    BY <1>1, <1>3, <2>1, AtFile, QuietEnd
<1> QED
  BY <1>2, <1>3 DEF Transfers!OpenUpload, Transfers!connVars

LEMMA OnCopy ==
  ASSUME TransferInv, Transfers!Copy
  PROVE  TransferInv'
<1>1. job.step = "copying" /\ ~InFile = FALSE
  BY DEF Transfers!Copy, InFile
<1>2. spec.kind = "download" \/ job.step = "copying"
  BY <1>1
<1>3. ~Loading /\ ~job.keep => before[Transfers!Target] = "absent"
  BY <1>1 DEF TransferInv, TargetIsClear, InFile
<1>4. CASE Transfers!FileFails("cancelled") \/ Transfers!FileFails("failed")
  BY <1>1, <1>4, OnFileFails
<1>5. CASE /\ job.at < Chunks /\ job' = [job EXCEPT !.at = @ + 1]
           /\ UNCHANGED <<mapped, conns, spec, registered, cancelled, files, before, skipped, outcome, started>>
  <2>1. job \in Jobs /\ job.at + 1 \in 0 .. Chunks
    BY <1>5, ThePaths DEF TransferInv, TransferTypes, Jobs
  <2>2. job' \in Jobs /\ job'.step = "copying" /\ job'.conn = job.conn /\ job'.i = job.i /\ job'.keep = job.keep
    BY <1>1, <1>5, <2>1 DEF Jobs
  <2> QED
    BY <1>1, <1>3, <1>5, <2>2, Writes
<1>6. CASE Transfers!GoTo("closing") /\ UNCHANGED <<files, skipped>>
  <2>1. /\ job' = [job EXCEPT !.step = "closing"]
        /\ UNCHANGED <<mapped, conns, spec, registered, cancelled, before, outcome, started>>
    BY <1>6 DEF Transfers!GoTo, Transfers!connVars
  <2>2. job' \in Jobs /\ job'.step = "closing" /\ job'.conn = job.conn /\ job'.i = job.i /\ job'.keep = job.keep
    BY <2>1 DEF TransferInv, TransferTypes, Jobs, Transfers!Steps
  <2> QED
    BY <1>1, <1>3, <1>6, <2>1, <2>2, Writes
<1> QED
  BY <1>4, <1>5, <1>6 DEF Transfers!Copy, Transfers!connVars

LEMMA OnRenameScratch ==
  ASSUME TransferInv, Transfers!RenameScratch
  PROVE  TransferInv'
<1>1. job.step = "closing" /\ spec.kind = "download"
  BY DEF Transfers!RenameScratch
<1>2. CASE /\ files' = [files EXCEPT ![Transfers!Target] = "new", ![Transfers!Written] = "absent"]
           /\ UNCHANGED skipped /\ Transfers!FileDone
  <2> DEFINE t == Transfers!Target
             s == Transfers!Part(t)
  <2>1. t \in Names /\ t \in Transfers!Paths /\ s \in Transfers!Paths /\ s \notin Names /\ s # t
    BY <1>1, AtFile
  <2>2. files \in FileMaps
    BY DEF TransferInv, TransferTypes, FileMaps
  <2>3. /\ files' \in FileMaps /\ files'[t] = "new" /\ files'[s] = "absent"
        /\ \A p \in Transfers!Paths : p # t /\ p # s => files'[p] = files[p]
    <3> HIDE DEF t
    <3>1. files' = [files EXCEPT ![t] = "new", ![s] = "absent"]
      BY <1>1, <1>2 DEF Transfers!Written, t
    <3> QED
      BY <2>1, <2>2, <3>1 DEF FileMaps
  <2>4. \A n \in Names : files'[Transfers!Part(n)] = "absent"
    <3>1. \A n \in Names : n # t => files[Transfers!Part(n)] = "absent"
      BY DEF TransferInv, ScratchIsForOne
    <3>2. \A n \in Names : /\ Transfers!Part(n) \in Transfers!Paths /\ Transfers!Part(n) # t
                           /\ n # t => Transfers!Part(n) # s
      BY <2>1, ThePaths
    <3> QED
      BY <2>3, <3>1, <3>2
  <2>5. \A n \in Names : n # t => files'[n] = files[n]
    BY <2>1, <2>3, ThePaths
  <2> QED
    BY <1>1, <1>2, <2>3, <2>4, <2>5, FileIsWhole
<1>3. CASE Transfers!FileFails("failed")
  BY <1>1, <1>3, OnFileFails
<1> QED
  BY <1>2, <1>3 DEF Transfers!RenameScratch
LEMMA OnCloseUpload ==
  ASSUME TransferInv, Transfers!CloseUpload
  PROVE  TransferInv'
<1>1. job.step = "closing" /\ spec.kind # "download" /\ UNCHANGED skipped
  BY DEF Transfers!CloseUpload
<1> DEFINE t == Transfers!Target
<1>2. t \in Names /\ t \in Transfers!Paths /\ Transfers!Running
      /\ spec.kind \in {"upload", "edit"} /\ job.conn # 0
  BY <1>1, AtFile
<1>3. files \in FileMaps
  BY DEF TransferInv, TransferTypes, FileMaps
<1>4. CASE files' = [files EXCEPT ![Transfers!Target] = "new"] /\ Transfers!FileDone
  <2>1. /\ files' \in FileMaps /\ files'[t] = "new"
        /\ \A p \in Transfers!Paths : p # t => files'[p] = files[p]
    <3>1. files' = [files EXCEPT ![t] = "new"]
      BY <1>4
    <3> HIDE DEF t
    <3> QED
      BY <1>2, <1>3, <3>1 DEF FileMaps
  <2>2. \A n \in Names : files'[Transfers!Part(n)] = "absent"
    <3>1. \A n \in Names : files[Transfers!Part(n)] = "absent"
      BY <1>1 DEF TransferInv, ScratchIsForOne, Loading
    <3>2. \A n \in Names : Transfers!Part(n) \in Transfers!Paths /\ Transfers!Part(n) # t
      BY <1>2, ThePaths
    <3> QED
      BY <2>1, <3>1, <3>2
  <2>3. \A n \in Names : n # t => files'[n] = files[n]
    BY <2>1, ThePaths
  <2> QED
    BY <1>1, <1>4, <2>1, <2>2, <2>3, FileIsWhole
<1>5. CASE Transfers!End("unclosed") /\ UNCHANGED files
  <2>1. files' \in FileMaps /\ skipped' \subseteq Names
    BY <1>1, <1>3, <1>5 DEF TransferInv, TransferTypes
  <2>2. /\ TransferTypes' /\ TransportsFit' /\ JobFits'
        /\ ~Transfers!Running' /\ outcome' = "unclosed" /\ ~InFile' /\ job'.step = "idle"
        /\ UNCHANGED <<spec, before>>
    BY <1>2, <1>5, <2>1, JobEnds
  <2>3. ScratchIsForOne'
    BY <1>1, <1>5, <2>2 DEF TransferInv, ScratchIsForOne, Loading, Transfers!Part
  <2>4. FilesKept'
    BY <1>5, <2>2 DEF TransferInv, FilesKept, Loading, Merging
  <2>5. TargetIsClear' /\ HalvesAreKnown'
    BY <2>2 DEF TargetIsClear, HalvesAreKnown
  <2>6. EntriesInOrder'
    BY <2>2 DEF EntriesInOrder
  <2> QED
    BY <2>2, <2>3, <2>4, <2>5, <2>6 DEF TransferInv
<1> QED
  BY <1>4, <1>5 DEF Transfers!CloseUpload

LEMMA OnRemoveNext ==
  ASSUME TransferInv, Transfers!RemoveNext
  PROVE  TransferInv'
<1>1. job.step = "removing" /\ Transfers!Running /\ UNCHANGED skipped /\ ~InFile
  BY DEF Transfers!RemoveNext, Transfers!Running, InFile
<1>2. spec.kind = "remove" /\ job.conn # 0
  BY <1>1 DEF TransferInv, JobFits
<1>3. CASE /\ job.i <= Len(spec.entries) /\ files' = [files EXCEPT ![Transfers!Target] = "absent"]
           /\ job' = [job EXCEPT !.i = @ + 1]
           /\ UNCHANGED <<mapped, conns, spec, registered, cancelled, before, outcome, started>>
  <2> DEFINE t == Transfers!Target
  <2>1. /\ t \in Names /\ t \in Transfers!Paths /\ t = NameOf(job.i) /\ job.i \in 1 .. Len(spec.entries)
        /\ \A k \in 1 .. Len(spec.entries) : NameOf(k) \in Names /\ (k # job.i => NameOf(k) # t)
        /\ Len(spec.entries) \in Nat
    BY <1>3, AtHand, TheSpec DEF TransferInv
  <2>2. /\ files' \in FileMaps /\ files'[t] = "absent"
        /\ \A p \in Transfers!Paths : p # t => files'[p] = files[p]
    <3>1. files' = [files EXCEPT ![t] = "absent"] /\ files \in FileMaps
      BY <1>3 DEF TransferInv, TransferTypes, FileMaps
    <3> HIDE DEF t
    <3> QED
      BY <2>1, <3>1 DEF FileMaps
  <2>3. /\ job' \in Jobs /\ job'.step = "removing" /\ job'.conn = job.conn /\ job'.i = job.i + 1
        /\ job'.i \in 1 .. Len(spec.entries) + 1
    <3>1. job \in Jobs /\ job.i + 1 \in Nat
      BY <2>1 DEF TransferInv, TransferTypes, Jobs
    <3> QED
      BY <1>1, <1>3, <2>1, <3>1 DEF Jobs
  <2>4. skipped' \subseteq Names
    BY <1>1 DEF TransferInv, TransferTypes
  <2>5. TransferTypes' /\ TransportsFit' /\ Transfers!Running'
    BY <1>1, <1>3, <2>2, <2>3, <2>4, JobGoesOn
  <2>6. JobFits' /\ ~InFile'
    BY <1>2, <1>3, <2>3, <2>5 DEF JobFits, InFile, Transfers!Running
  <2>7. ScratchIsForOne'
    <3>1. ASSUME NEW n \in Names
          PROVE  before'[Transfers!Part(n)] = "absent" /\ files'[Transfers!Part(n)] = "absent"
      <4>1. before[Transfers!Part(n)] = "absent" /\ files[Transfers!Part(n)] = "absent"
        BY <1>2 DEF TransferInv, ScratchIsForOne, Loading
      <4>2. Transfers!Part(n) \in Transfers!Paths /\ Transfers!Part(n) # t
        BY <2>1, ThePaths
      <4> QED
        BY <1>3, <2>2, <4>1, <4>2
    <3> QED
      BY <3>1 DEF ScratchIsForOne, Transfers!Part
  <2>8. FilesKept' /\ TargetIsClear' /\ HalvesAreKnown'
    BY <1>2, <1>3, <2>6 DEF FilesKept, TargetIsClear, HalvesAreKnown, Loading, InFile
  <2>9. EntriesInOrder'
    <3>1. /\ \A k \in 1 .. Len(spec.entries) : k # job.i => files'[NameOf(k)] = files[NameOf(k)]
          /\ skipped \subseteq skipped'
      BY <1>1, <2>1, <2>2, ThePaths
    <3>2. \A k \in 1 .. Len(spec.entries) : k = job.i => Done(k)'
      BY <1>2, <1>3, <2>1, <2>2 DEF Done, NameOf
    <3> QED
      BY <1>1, <1>3, <2>3, <2>5, <3>1, <3>2, EntriesGoOn
  <2> QED
    BY <2>5, <2>6, <2>7, <2>8, <2>9 DEF TransferInv
<1>4. CASE job.i > Len(spec.entries) /\ Transfers!End("ok") /\ UNCHANGED files
  BY <1>1, <1>4, QuietEnd
<1>5. CASE Transfers!End("failed") /\ UNCHANGED files
  BY <1>1, <1>5, QuietEnd
<1> QED
  BY <1>3, <1>4, <1>5 DEF Transfers!RemoveNext, Transfers!connVars

LEMMA OnStart ==
  ASSUME TransferInv, NEW s \in Specs, Transfers!Start(s)
  PROVE  TransferInv'
<1>1. /\ ~Transfers!Running /\ started < MaxJobs /\ started' = started + 1 /\ spec' = s
      /\ skipped' = {} /\ cancelled' = FALSE /\ files' = before'
      /\ UNCHANGED <<mapped, conns>>
  BY DEF Transfers!Start, Transfers!connVars
<1>2. PICK existing \in SUBSET Transfers!MayExist(s) :
        before' = [p \in Transfers!Paths |->
                     IF p \in existing \/ (s.kind = "remove" /\ p \in Names) THEN "old" ELSE "absent"]
  BY DEF Transfers!Start
<1>3. \/ mapped = 0 /\ outcome' = "failed" /\ registered' = FALSE /\ job' = Transfers!Idle
      \/ /\ mapped # 0 /\ outcome' = "none" /\ registered' = (s.kind # "remove")
         /\ job' = [Transfers!Idle EXCEPT !.step = Transfers!FirstStep(s), !.conn = mapped]
  BY DEF Transfers!Start
<1>4. /\ job' \in Jobs /\ job'.i = 1 /\ ~InFile' /\ ~job'.keep
      /\ job'.conn = mapped
      /\ \/ mapped = 0 /\ job'.step = "idle"
         \/ /\ mapped # 0
            /\ job'.step = IF s.kind = "remove" THEN "removing" ELSE IF s.tree THEN "listing" ELSE "opening"
  <2>1. 0 \in 0 .. Chunks /\ mapped \in ConnIds \cup {0} /\ 1 \in Nat /\ FALSE \in BOOLEAN
    BY ThePaths DEF TransferInv, TransferTypes
  <2>2. CASE mapped = 0
    <3>1. job' = Transfers!Idle
      BY <1>3, <2>2
    <3>2. job' \in Jobs /\ job'.i = 1 /\ ~job'.keep /\ job'.conn = mapped /\ job'.step = "idle"
      BY <2>1, <2>2, <3>1 DEF Transfers!Idle, Jobs, Transfers!Steps
    <3> QED
      BY <2>2, <3>2 DEF InFile
  <2>3. CASE mapped # 0
    <3>1. job' = [Transfers!Idle EXCEPT !.step = Transfers!FirstStep(s), !.conn = mapped]
      BY <1>3, <2>3
    <3>2. Transfers!FirstStep(s) \in {"removing", "listing", "opening"}
          /\ Transfers!FirstStep(s) = IF s.kind = "remove" THEN "removing" ELSE IF s.tree THEN "listing" ELSE "opening"
      BY DEF Transfers!FirstStep
    <3>3. job' \in Jobs /\ job'.i = 1 /\ ~job'.keep /\ job'.conn = mapped /\ job'.step = Transfers!FirstStep(s)
      BY <2>1, <3>1, <3>2 DEF Transfers!Idle, Jobs, Transfers!Steps
    <3> QED
      BY <2>3, <3>2, <3>3 DEF InFile
  <2> QED
    BY <2>2, <2>3
<1>5. /\ before' \in [Transfers!Paths -> {"absent", "old"}] /\ files' \in FileMaps
  BY <1>1, <1>2 DEF FileMaps
<1>6. TransferTypes'
  <2>1. started' \in 0 .. MaxJobs
    BY <1>1, ThePaths DEF TransferInv, TransferTypes
  <2>2. registered' \in BOOLEAN /\ outcome' \in {"none", "failed"}
    BY <1>3
  <2>3. spec' \in Specs /\ mapped' \in ConnIds \cup {0}
        /\ conns' \in [ConnIds -> {"none", "dialing", "open", "closed"}]
    BY <1>1 DEF TransferInv, TransferTypes
  <2>4. Len(spec'.entries) \in Nat
    <3>1. s.entries \in Seq(EntryRecords)
      BY FilesAssumption DEF Transfers!TransfersConstants, Transfers!SpecShapes, EntryRecords
    <3> QED
      BY <3>1, <1>1
  <2>5. job'.i \in 1 .. Len(spec'.entries) + 1
    BY <1>4, <2>4
  <2> QED
    BY <1>1, <1>4, <1>5, <2>1, <2>2, <2>3, <2>5 DEF TransferTypes, Jobs, FileMaps
<1>7. Transfers!Running' <=> mapped # 0
  BY <1>4 DEF Transfers!Running
<1>8. /\ spec.kind' = s.kind /\ spec.tree' = s.tree /\ spec.policy' = s.policy /\ spec.entries' = s.entries
      /\ (s.tree \/ ~s.tree)
  BY <1>1
<1>9. JobFits'
  <2>1. s.kind # "remove" /\ ~s.tree => Len(s.entries) = 1
    BY <1>1, <1>6, FilesAssumption DEF Transfers!TransfersConstants
  <2> QED
    BY <1>1, <1>4, <1>7, <1>8, <2>1 DEF JobFits, Transfers!Running
<1>10. TransportsFit'
  BY <1>1, <1>4, <1>7 DEF TransferInv, TransportsFit, Transfers!NoLeakedConnection
<1>11. ASSUME NEW n \in Names
       PROVE  Transfers!Part(n) \in Transfers!Paths /\ Transfers!Part(n) \notin Transfers!MayExist(s)
              /\ Transfers!Part(n) \notin Names
  <2>1. s.entries \in Seq(EntryRecords)
    BY FilesAssumption DEF Transfers!TransfersConstants, Transfers!SpecShapes, EntryRecords
  <2>2. \A e \in Transfers!Range(s.entries) : e \in EntryRecords
    BY <2>1 DEF Transfers!Range
  <2>3. Transfers!MayExist(s) \subseteq Names
    BY <2>2 DEF Transfers!MayExist, EntryRecords
  <2> QED
    BY <2>3, ThePaths
<1>12. ScratchIsForOne'
  <2>1. \A n \in Names : before'[Transfers!Part(n)] = "absent" /\ files'[Transfers!Part(n)] = "absent"
    BY <1>1, <1>2, <1>11
  <2> QED
    BY <2>1 DEF ScratchIsForOne, Transfers!Part
<1>13. \A p \in Names : p \in Transfers!Paths
  BY ThePaths
<1>14. FilesKept'
  BY <1>1, <1>5, <1>13 DEF FilesKept
<1>15. HalvesAreKnown'
  BY <1>1, <1>5, <1>13 DEF HalvesAreKnown
<1>16. TargetIsClear'
  <2>1. job'.step = "opening" => ~s.tree
    BY <1>4
  <2> QED
    BY <1>4, <1>8, <2>1 DEF TargetIsClear, Merging
<1>17. EntriesInOrder'
  <2>1. outcome' # "ok"
    BY <1>3
  <2>2. \A k \in 1 .. job'.i - 1 : FALSE
    BY <1>4
  <2> QED
    BY <1>1, <2>1, <2>2 DEF EntriesInOrder
<1> QED
  BY <1>6, <1>9, <1>10, <1>12, <1>14, <1>15, <1>16, <1>17 DEF TransferInv
-----------------------------------------------------------------------------
(* The connections. *)

\* An open transport may go, and none comes back.
LEMMA ConnectionsMove ==
  ASSUME TransferInv, UNCHANGED <<spec, job, registered, cancelled, files, before, skipped, outcome, started>>,
         mapped' \in ConnIds \cup {0}, conns' \in [ConnIds -> {"none", "dialing", "open", "closed"}],
         mapped' # 0 => conns'[mapped'] \in {"open", "closed"},
         job.conn # 0 => /\ conns'[job.conn] \in {"open", "closed"}
                         /\ conns'[job.conn] = "open" => conns[job.conn] = "open",
         \A c \in ConnIds : conns'[c] = "open" => c = mapped' \/ (Transfers!Running /\ job.conn = c)
  PROVE  TransferInv'
<1>1. TransferTypes'
  BY DEF TransferInv, TransferTypes
<1>2. JobFits'
  BY DEF TransferInv, JobFits, Transfers!Running
<1>3. TransportsFit'
  BY DEF TransportsFit, Transfers!NoLeakedConnection, Transfers!Running
<1>4. ScratchIsForOne' /\ FilesKept'
  BY DEF TransferInv, ScratchIsForOne, FilesKept, InFile, Loading, Merging, Transfers!Part,
     Transfers!Target,
         Transfers!Entry
<1>5. TargetIsClear'
  BY DEF TransferInv, TargetIsClear, InFile, Loading, Merging, Transfers!Target, Transfers!Entry
<1>6. HalvesAreKnown'
  BY DEF TransferInv, HalvesAreKnown, InFile, Transfers!Running, Transfers!Reachable,
     Transfers!Target,
         Transfers!Entry
<1>7. EntriesInOrder'
  BY DEF TransferInv, EntriesInOrder, Done, NameOf, InFile, Merging, Transfers!Running
<1> QED
  BY <1>1, <1>2, <1>3, <1>4, <1>5, <1>6, <1>7 DEF TransferInv

LEMMA TransportFacts ==
  ASSUME TransferInv
  PROVE  /\ mapped \in ConnIds \cup {0} /\ job.conn \in ConnIds \cup {0} /\ 0 \notin ConnIds
         /\ conns \in [ConnIds -> {"none", "dialing", "open", "closed"}]
         /\ job.conn # 0 => conns[job.conn] \in {"open", "closed"}
         /\ mapped # 0 => conns[mapped] \in {"open", "closed"}
         /\ \A c \in ConnIds : conns[c] = "open" => c = mapped \/ (Transfers!Running /\ job.conn = c)
BY ThePaths DEF TransferInv, TransferTypes, TransportsFit, Transfers!NoLeakedConnection

LEMMA OnConnection ==
  ASSUME TransferInv, NEW c \in ConnIds,
         \/ Transfers!Dial(c) \/ Transfers!DialFails(c) \/ Transfers!ServerDies(c)
  PROVE  TransferInv'
<1>1. \/ conns[c] = "none" /\ conns' = [conns EXCEPT ![c] = "dialing"]
      \/ conns[c] \in {"dialing", "open"} /\ conns' = [conns EXCEPT ![c] = "closed"]
  BY DEF Transfers!Dial, Transfers!DialFails, Transfers!ServerDies
<1>2. UNCHANGED <<mapped, spec, job, registered, cancelled, files, before, skipped, outcome, started>>
  BY DEF Transfers!Dial, Transfers!DialFails, Transfers!ServerDies, Transfers!jobVars
<1>3. /\ conns' \in [ConnIds -> {"none", "dialing", "open", "closed"}]
      /\ \A d \in ConnIds : d # c => conns'[d] = conns[d]
      /\ conns[c] = "none" => conns'[c] = "dialing"
      /\ conns[c] # "none" => conns'[c] = "closed"
  BY <1>1, TransportFacts
<1>4. mapped' # 0 => conns'[mapped'] \in {"open", "closed"}
  BY <1>1, <1>2, <1>3, TransportFacts
<1>5. job.conn # 0 => /\ conns'[job.conn] \in {"open", "closed"}
                      /\ conns'[job.conn] = "open" => conns[job.conn] = "open"
  BY <1>1, <1>3, TransportFacts
<1>6. \A d \in ConnIds : conns'[d] = "open" => d = mapped' \/ (Transfers!Running /\ job.conn = d)
  BY <1>1, <1>2, <1>3, TransportFacts
<1> QED
  BY <1>2, <1>3, <1>4, <1>5, <1>6, TransportFacts, ConnectionsMove

\* The connection a new one replaces is left open for its last user only.
LEMMA OnStore ==
  ASSUME TransferInv, NEW c \in ConnIds, Transfers!Store(c)
  PROVE  TransferInv'
<1>1. /\ conns[c] = "dialing" /\ mapped' = c
      /\ conns' = [d \in ConnIds |->
                     IF d = c THEN "open"
                     ELSE IF d = mapped /\ conns[d] = "open" THEN Transfers!Released(d) ELSE conns[d]]
      /\ UNCHANGED <<spec, job, registered, cancelled, files, before, skipped, outcome, started>>
  BY DEF Transfers!Store, Transfers!jobVars
<1>2. \A d \in ConnIds :
        /\ d = c => conns'[d] = "open"
        /\ d # c /\ d = mapped /\ conns[d] = "open" =>
             conns'[d] = IF Transfers!Running /\ job.conn = d THEN "open" ELSE "closed"
        /\ d # c /\ ~(d = mapped /\ conns[d] = "open") => conns'[d] = conns[d]
  BY <1>1, TransportFacts DEF Transfers!Released
<1>3. conns' \in [ConnIds -> {"none", "dialing", "open", "closed"}]
  <2>1. \A d \in ConnIds : Transfers!Released(d) \in {"open", "closed"}
    BY DEF Transfers!Released
  <2> QED
    BY <1>1, <2>1, TransportFacts
<1>4. job.conn # 0 => /\ conns'[job.conn] \in {"open", "closed"}
                      /\ conns'[job.conn] = "open" => conns[job.conn] = "open"
  BY <1>1, <1>2, TransportFacts
<1>5. mapped' # 0 => conns'[mapped'] \in {"open", "closed"}
  BY <1>1, <1>2
<1>6. \A d \in ConnIds : conns'[d] = "open" => d = mapped' \/ (Transfers!Running /\ job.conn = d)
  BY <1>1, <1>2, TransportFacts
<1> QED
  BY <1>1, <1>3, <1>4, <1>5, <1>6, ConnectionsMove

LEMMA OnDisconnect ==
  ASSUME TransferInv, Transfers!Disconnect
  PROVE  TransferInv'
<1>1. /\ mapped # 0 /\ mapped' = 0 /\ conns' = [conns EXCEPT ![mapped] = "closed"]
      /\ UNCHANGED <<spec, job, registered, cancelled, files, before, skipped, outcome, started>>
  BY DEF Transfers!Disconnect, Transfers!jobVars
<1>2. /\ conns' \in [ConnIds -> {"none", "dialing", "open", "closed"}]
      /\ \A d \in ConnIds : d # mapped => conns'[d] = conns[d]
      /\ conns'[mapped] = "closed"
  BY <1>1, TransportFacts
<1>3. job.conn # 0 => /\ conns'[job.conn] \in {"open", "closed"}
                      /\ conns'[job.conn] = "open" => conns[job.conn] = "open"
  BY <1>1, <1>2, TransportFacts
<1>4. \A d \in ConnIds : conns'[d] = "open" => d = mapped' \/ (Transfers!Running /\ job.conn = d)
  BY <1>1, <1>2, TransportFacts
<1> QED
  BY <1>1, <1>2, <1>3, <1>4, ConnectionsMove

LEMMA OnCancel ==
  ASSUME TransferInv, Transfers!Cancel
  PROVE  TransferInv'
<1>1. registered /\ cancelled' = TRUE
      /\ UNCHANGED <<mapped, conns, spec, job, registered, files, before, skipped, outcome, started>>
  BY DEF Transfers!Cancel, Transfers!connVars
<1>2. TransferTypes'
  BY <1>1 DEF TransferInv, TransferTypes
<1>3. JobFits'
  BY <1>1 DEF TransferInv, JobFits, Transfers!Running
<1>4. TransportsFit'
  BY <1>1 DEF TransferInv, TransportsFit, Transfers!NoLeakedConnection, Transfers!Running
<1>5. ScratchIsForOne' /\ FilesKept'
  BY <1>1 DEF TransferInv, ScratchIsForOne, FilesKept, InFile, Loading, Merging, Transfers!Part,
     Transfers!Target,
         Transfers!Entry
<1>6. TargetIsClear'
  BY <1>1 DEF TransferInv, TargetIsClear, InFile, Loading, Merging, Transfers!Target,
     Transfers!Entry
<1>7. HalvesAreKnown'
  BY <1>1 DEF TransferInv, HalvesAreKnown, InFile, Transfers!Running, Transfers!Reachable,
     Transfers!Target,
         Transfers!Entry
<1>8. EntriesInOrder'
  BY <1>1 DEF TransferInv, EntriesInOrder, Done, NameOf, InFile, Merging, Transfers!Running
<1> QED
  BY <1>2, <1>3, <1>4, <1>5, <1>6, <1>7, <1>8 DEF TransferInv

LEMMA TransferInvStep ==
  ASSUME TransferInv, Transfers!Next
  PROVE  TransferInv'
<1>1. ASSUME NEW c \in ConnIds, Transfers!Dial(c) \/ Transfers!DialFails(c) \/ Transfers!Store(c) \/ Transfers!ServerDies(c)
      PROVE  TransferInv'
  BY <1>1, OnConnection, OnStore
<1>2. CASE Transfers!Disconnect
  BY <1>2, OnDisconnect
<1>3. ASSUME NEW s \in Specs, Transfers!Start(s)
      PROVE  TransferInv'
  BY <1>3, OnStart
<1>4. CASE Transfers!Cancel
  BY <1>4, OnCancel
<1>5. CASE Transfers!JobStep
  BY <1>5, OnList, OnTreeEnds, OnTreeEntry, OnOpenDownload, OnOpenUpload, OnCopy, OnRenameScratch,
     OnCloseUpload, OnRemoveNext DEF Transfers!JobStep
<1> QED
  BY <1>1, <1>2, <1>3, <1>4, <1>5 DEF Transfers!Next

LEMMA TransferInvInit ==
  ASSUME Transfers!Init
  PROVE  TransferInv
<1>1. spec \in Specs
  <2>1. Specs # {}
    BY FilesAssumption DEF Transfers!TransfersConstants
  <2> QED
    BY <2>1 DEF Transfers!Init
<1>2. /\ mapped = 0 /\ conns = [c \in ConnIds |-> "none"] /\ job = Transfers!Idle
      /\ registered = FALSE /\ cancelled = FALSE
      /\ files = [p \in Transfers!Paths |-> "absent"] /\ before = files
      /\ skipped = {} /\ outcome = "none" /\ started = 0
  BY DEF Transfers!Init
<1>3. job \in Jobs /\ job.step = "idle" /\ job.conn = 0 /\ job.i = 1
  BY <1>2, ThePaths DEF Jobs, Transfers!Idle, Transfers!Steps
<1>4. Len(spec.entries) \in Nat
  <2>1. spec.entries \in Seq(EntryRecords)
    BY <1>1, FilesAssumption DEF Transfers!TransfersConstants, Transfers!SpecShapes, EntryRecords
  <2> QED
    BY <2>1
<1>5. TransferTypes
  <2>1. 0 \in 0 .. MaxJobs /\ job.i \in 1 .. Len(spec.entries) + 1
    BY <1>3, <1>4, ThePaths
  <2>2. /\ conns \in [ConnIds -> {"none", "dialing", "open", "closed"}]
        /\ files \in [Transfers!Paths -> {"absent", "old", "partial", "new"}]
        /\ before \in [Transfers!Paths -> {"absent", "old"}]
    BY <1>2
  <2> QED
    BY <1>1, <1>2, <1>3, <2>1, <2>2 DEF TransferTypes, Jobs
<1>6. ~Transfers!Running /\ ~InFile
  BY <1>3 DEF Transfers!Running, InFile
<1>7. JobFits /\ TransportsFit
  BY <1>2, <1>3, <1>6 DEF JobFits, TransportsFit, Transfers!NoLeakedConnection
<1>8. /\ \A n \in Names : before[n] = "absent" /\ files[n] = "absent"
      /\ \A n \in Names : before[Transfers!Part(n)] = "absent" /\ files[Transfers!Part(n)] = "absent"
  BY <1>2, ThePaths
<1>9. ScratchIsForOne /\ FilesKept /\ TargetIsClear /\ HalvesAreKnown
  BY <1>3, <1>6, <1>8 DEF ScratchIsForOne, FilesKept, TargetIsClear, HalvesAreKnown
<1>10. EntriesInOrder
  BY <1>2, <1>6 DEF EntriesInOrder
<1> QED
  BY <1>5, <1>7, <1>9, <1>10 DEF TransferInv

-----------------------------------------------------------------------------
(* What follows. *)

LEMMA TransfersAreSafe ==
  ASSUME TransferInv
  PROVE  /\ Transfers!TypeOK /\ Transfers!ExistingSurvives /\ Transfers!FailureCleansUp
         /\ Transfers!OkMeansDone /\ Transfers!NoLeakedConnection
<1>1. Transfers!TypeOK
  BY DEF TransferInv, TransferTypes, Transfers!TypeOK
<1>2. Transfers!ExistingSurvives
  <2>1. ASSUME NEW p \in Transfers!Paths, before[p] = "old", spec.kind # "remove"
        PROVE  /\ files[p] # "absent"
               /\ spec.kind = "download" =>
                    files[p] = "old" \/ (files[p] = "new" /\ ~(spec.tree /\ spec.policy = "skip"))
    <3>1. p \in Names
      BY <2>1, ThePaths DEF TransferInv, ScratchIsForOne
    <3> QED
      BY <2>1, <3>1 DEF TransferInv, FilesKept, Loading, Merging
  <2> QED
    BY <2>1 DEF Transfers!ExistingSurvives
<1>3. Transfers!FailureCleansUp
  <2>1. ASSUME Transfers!Ended({"ok", "failed", "cancelled"}), NEW n \in Names
        PROVE  files[Transfers!Part(n)] = "absent"
    BY <2>1 DEF TransferInv, ScratchIsForOne, InFile, Transfers!Ended, Transfers!Running
  <2>2. ASSUME Transfers!Ended({"ok", "failed", "cancelled"}), spec.kind = "upload", job.conn # 0, ~job.keep,
               Transfers!Reachable, NEW p \in Transfers!Paths, before[p] = "absent"
        PROVE  files[p] \in {"absent", "new"}
    <3>1. CASE p \in Names
      BY <2>2, <3>1 DEF TransferInv, HalvesAreKnown, InFile, Transfers!Ended, Transfers!Running
    <3>2. CASE p \notin Names
      BY <2>1, <2>2, <3>2, ThePaths
    <3> QED
      BY <3>1, <3>2
  <2> QED
    BY <2>1, <2>2 DEF Transfers!FailureCleansUp
<1>4. Transfers!OkMeansDone
  <2>1. ASSUME Transfers!Ended({"ok"}), NEW e \in Transfers!Range(spec.entries)
        PROVE  IF spec.kind = "remove" THEN files[e.name] = "absent" ELSE
               \/ e.type = "dir" \/ (e.type \in {"link", "special"} /\ spec.kind = "upload")
               \/ files[e.name] = "new" \/ (spec.tree /\ spec.policy = "skip" /\ files[e.name] = "old")
               \/ e.type # "file" /\ e.name \in skipped
    <3>1. PICK k \in 1 .. Len(spec.entries) : e = spec.entries[k]
      <4>1. e \in {spec.entries[k] : k \in 1 .. Len(spec.entries)}
        BY <2>1, TheSpec DEF TransferInv
      <4> QED
        BY <4>1
    <3>2. Done(k)
      BY <2>1 DEF TransferInv, EntriesInOrder, Transfers!Ended
    <3> QED
      BY <3>1, <3>2 DEF Done, Merging
  <2> QED
    BY <2>1 DEF Transfers!OkMeansDone
<1>5. Transfers!NoLeakedConnection
  BY DEF TransferInv, TransportsFit
<1> QED
  BY <1>1, <1>2, <1>3, <1>4, <1>5

\* Nothing a transfer may do loses a file, and its success says what it did, however
\* jobs, cancels, connections and failures follow one another (run_transfer,
\* download_to_file, upload_from_file, SftpManager).
LEMMA TransferPartInvariant == PartSpec => [](part = "transfers" => TransferInv)
<1>1. PartInit => (part = "transfers" => TransferInv)
  BY TransferInvInit DEF PartInit
<1>2. (part = "transfers" => TransferInv) /\ [PartNext]_allVars => (part = "transfers" => TransferInv)'
  <2>1. ASSUME part = "transfers", TransferInv, TransfersRun, Transfers!Next
        PROVE  TransferInv'
    BY <2>1, TransferInvStep
  <2>2. ASSUME part = "transfers", TransferInv, UNCHANGED transferVars
        PROVE  TransferInv'
    <3>1. UNCHANGED <<mapped, conns, spec, job, registered, cancelled, files, before, skipped, outcome, started>>
      BY <2>2 DEF transferVars
    <3> QED
      BY <2>2, <3>1, TransportFacts, ConnectionsMove
  <2>3. PartNext => UNCHANGED part /\ ((TransfersRun /\ Transfers!Next) \/ UNCHANGED transferVars)
    BY DEF PartNext, OutputRuns, TransfersRun, EditRuns
  <2>4. UNCHANGED allVars => UNCHANGED part /\ UNCHANGED transferVars
    BY DEF allVars
  <2> QED
    BY <2>1, <2>2, <2>3, <2>4
<1> QED
  BY <1>1, <1>2, PTL DEF PartSpec

\* A transfer never loses a file that was there, whatever its kind and however it
\* ends; it leaves no scratch file and no half of a new one behind that it could
\* remove, reports success only of a job that is done, and leaks no transport
\* (download_to_file, keep_if_existing, TransferGuard, SftpManager).
THEOREM TransfersKeepTheFiles == PartSpec => []TransfersKeepFiles
<1>1. (part = "transfers" => TransferInv) => TransfersKeepFiles
  BY TransfersAreSafe DEF TransfersKeepFiles
<1> QED
  BY <1>1, TransferPartInvariant, PTL
=============================================================================
