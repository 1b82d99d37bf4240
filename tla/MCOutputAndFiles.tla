--------------------------- MODULE MCOutputAndFiles ---------------------------
(***************************************************************************)
(* What the program moves for the user, each part checked on its own:      *)
(* `part`, chosen at the start, says which runs.                           *)
(*   "output"    OutputStream, a session that prints more than the backlog *)
(*               holds, with more than one failing read;                   *)
(*   "transfers" SftpTransfers, one job after another;                     *)
(*   "edit"      RemoteEdit, one file edited here and changed there.       *)
(* No file is edited while transfers run, and the other way round; in both *)
(* the output has not begun.                                               *)
(***************************************************************************)
EXTENDS OutputStream

CONSTANTS
  Names, ConnIds, Chunks, MaxJobs, Specs,    \* of SftpTransfers
  MaxVersions, MaxOpens, Starts              \* of RemoteEdit

VARIABLES
  part,
  mapped, conns, spec, job, registered, cancelled, files, before, skipped,
  outcome, started,
  remote, conn, leaving, edit, copy, base, op, front, again, stale, burst, event,
  closing, others, versions, opens

EntryTypes == {"file", "dir", "link", "special", "badName"}
Named(ns, ts) == [i \in DOMAIN ns |-> [name |-> ns[i], type |-> ts[i]]]
Job(k, tree, policy, entries) == [kind |-> k, tree |-> tree, policy |-> policy, entries |-> entries]
Folders == {Named(<<"a", "b">>, <<"file", t>>) : t \in EntryTypes}

\* Single files, folders of a file and another entry, and a folder to remove.
Varied ==
  {Job(k, FALSE, "overwrite", Named(<<"a">>, <<"file">>)) : k \in {"download", "upload", "edit"}}
  \cup {Job(k, TRUE, policy, f) : k \in {"download", "upload"},
                               policy \in {"overwrite", "skip"}, f \in Folders}
  \cup {Job("download", TRUE, "rename", Named(<<"a", "b">>, <<"file", "file">>)),
        Job("remove", TRUE, "overwrite", Named(<<"a", "b">>, <<"link", "dir">>))}

Transfers == INSTANCE SftpTransfers

\* Three changes and one opening, or two changes, an opening and a reconnection.
FewSaves == {[versions |-> 0, opens |-> 1], [versions |-> 1, opens |-> 0]}

Edit == INSTANCE RemoteEdit

ASSUME FilesAssumption == Transfers!TransfersConstants /\ Edit!EditConstants

transferVars ==
  <<mapped, conns, spec, job, registered, cancelled, files, before, skipped, outcome, started>>
editVars ==
  <<remote, conn, leaving, edit, copy, base, op, front, again, stale, burst, event, closing,
    others, versions, opens>>
allVars == <<part, vars, transferVars, editVars>>

Unused == "unused"
NoTransfers ==
  /\ mapped = Unused /\ conns = Unused /\ spec = Unused /\ job = Unused
  /\ registered = Unused /\ cancelled = Unused /\ files = Unused /\ before = Unused
  /\ skipped = Unused /\ outcome = Unused /\ started = Unused
NoEdit ==
  /\ remote = Unused /\ conn = Unused /\ leaving = Unused /\ edit = Unused
  /\ copy = Unused /\ base = Unused /\ op = Unused /\ front = Unused /\ again = Unused
  /\ stale = Unused /\ burst = Unused /\ event = Unused /\ closing = Unused
  /\ others = Unused /\ versions = Unused /\ opens = Unused

PartInit ==
  /\ Init
  /\ \/ part = "output" /\ NoTransfers /\ NoEdit
     \/ part = "transfers" /\ Transfers!Init /\ NoEdit
     \/ part = "edit" /\ Edit!Init /\ NoTransfers

OutputRuns == part = "output" /\ UNCHANGED <<part, transferVars, editVars>>
TransfersRun == part = "transfers" /\ UNCHANGED <<part, vars, editVars>>
EditRuns == part = "edit" /\ UNCHANGED <<part, vars, transferVars>>

PartNext ==
  \/ OutputRuns /\ Next
  \/ TransfersRun /\ Transfers!Next
  \/ EditRuns /\ Edit!Next

\* The fairness of the parts, each while it runs: no other variable moves then.
Runs(p) == part = p /\ UNCHANGED part
partVars ==
  CASE part = "output" -> vars
    [] part = "transfers" -> transferVars
    [] part = "edit" -> editVars
PartFairness ==
  /\ WF_partVars(\/ Runs("output") /\ \E c \in calls : Lookup(c)
                 \/ Runs("transfers") /\ Transfers!JobStep
                 \/ Runs("edit") /\ Edit!OpStep)
  /\ WF_partVars(Runs("output") /\ \E c \in calls : Take(c))
  /\ WF_partVars(Runs("output") /\ \E c \in calls : NothingAfter(c))
  /\ WF_partVars(Runs("output") /\ Ask)
  /\ WF_partVars(Runs("output") /\ Show)

PartSpec == PartInit /\ [][PartNext]_allVars /\ PartFairness

-----------------------------------------------------------------------------
(* The properties of the parts, stated there. Those of OutputStream are      *)
(* checked under the names they have there: while another part runs, its     *)
(* variables stay as they start.                                             *)

\* A transfer loses no file that was there, cleans up when it fails, says it
\* succeeded only if it did, and leaks no connection (download_to_file,
\* keep_if_existing, TransferGuard, SftpManager).
TransfersKeepFiles ==
  part = "transfers" =>
    /\ Transfers!TypeOK /\ Transfers!ExistingSurvives /\ Transfers!FailureCleansUp
    /\ Transfers!OkMeansDone /\ Transfers!NoLeakedConnection

\* The baseline of an edit is what the server had, no edit is lost track of, and
\* no live copy is swept away (upload_snapshot, register, close_device, sweep).
EditsAreTrue ==
  part = "edit" =>
    Edit!TypeOK /\ Edit!BaselineIsTrue /\ Edit!EditsAreListed /\ Edit!LiveCopyStays

\* What the panel shows as synced was transferred last, and the server holds it
\* unless others changed the file or an upload failed or was not confirmed since
\* (check, write_back, discard).
SyncedIsTrue == part = "edit" => Edit!SyncedIsTrue

\* "`synced`: the remote holds the saved content" (editSessions.ts:35), if nobody
\* else changed the file (check, write_back).
SyncedWentUp == part = "edit" => Edit!SyncedWentUp

\* An upload that was not asked to overwrite never replaces a change others made
\* while the edit was in sync (upload_snapshot, remote_moved).
NoSilentOverwrite == [][part = "edit" => Edit!AsksFirst]_allVars

\* Something is under way that must come to an end.
Waiting ==
  \/ part = "output" /\ pending.closed /\ reader.phase \notin {"ended", "stopped"}
  \/ part = "transfers" /\ Transfers!Running
  \/ part = "edit" /\ front = "syncing"

\* Nothing hangs: the reader is told of the end of a session (EndReachesReader), a
\* transfer ends (TransfersEnd), and a save goes up or is shown to be pending
\* (SavesSettle). With bounded jobs and versions, no wait is renewed for ever.
NothingHangs == []<>~Waiting
=============================================================================
