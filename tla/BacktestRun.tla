---------------------------- MODULE BacktestRun ----------------------------
(***************************************************************************)
(* Backtest processes around one database, one dataset and the directories *)
(* they publish to: RunBacktests of internal/app/backtest.go with the      *)
(* preparation of backtest_prepare.go, the run store of                    *)
(* internal/storage/sqlite/backtest.go, and the download that replaces the *)
(* dataset (data_download.go).                                             *)
(*                                                                         *)
(* What the event loop computes is the module Backtest; here an execution  *)
(* is a function of its dataset.  A checksum stands for the content it is  *)
(* computed from, so two contents have the same one when they are equal.   *)
(***************************************************************************)
EXTENDS Integers, SequencesExt

CONSTANTS
    Process,
    Data,               \* contents of the dataset file
    Trades,             \* [Data -> trade lists]: what an execution trades
    Plan,               \* [Process -> sequences of configured runs]
    Config,             \* [Process -> hashes of the configuration]
    Directory,          \* [Process -> [configured run -> output directory]]
    Kinds,              \* [configured run -> outputs it has enabled]
    HasManifest,        \* configured runs with a metadata path
    Instant, Exact,     \* wall-clock times, and those without nanoseconds
    Nothing, Partial,      \* no content, and the content of a half-written file
    MaxDownloads, MaxFaults, MaxCrashes, MaxCancels       \* bounds

Configured == UNION {ToSet(Plan[p]) : p \in Process}
Dirs       == UNION {{Directory[p][r] : r \in ToSet(Plan[p])} : p \in Process}
Kind       == {"report", "trades"}

ASSUME BacktestRunAssumption ==
    /\ \A p \in Process : Plan[p] \in Seq(Configured) /\ IsInjective(Plan[p])
    /\ \A r \in Configured : Kinds[r] \subseteq Kind /\ Kinds[r] # {}
    /\ HasManifest \subseteq Configured /\ Exact \subseteq Instant
    \* What stands for nothing, or for half a file, is neither data nor a result.
    /\ Nothing # Partial
    /\ Nothing \notin Data \cup Instant \cup (Configured \X {Config[p] : p \in Process} \X Instant)
    /\ {Nothing, Partial} \cap ((Configured \X {Config[p] : p \in Process} \X Data)
                                \cup {Trades[d] : d \in Data}) = {}
    /\ {MaxDownloads, MaxFaults, MaxCrashes, MaxCancels} \subseteq Nat

VARIABLES
    source,             \* what the dataset file holds
    manifest,           \* the content its manifest describes
    described,          \* every content a manifest has described (history)
    downloading,        \* the CSV is replaced and the manifest is not yet
    proc,               \* each process, see Worker below
    files,              \* what the output directories hold
    temps,              \* temporary artifact files: <<process, kind>>
    rows,               \* backtest_runs by id
    artifacts,          \* backtest_artifacts
    used                \* how often each bounded event has happened

vars == <<source, manifest, described, downloading, proc, files, temps, rows,
          artifacts, used>>

RowId   == Configured \X {Config[p] : p \in Process} \X Instant
Content == (Configured \X {Config[p] : p \in Process} \X Data)
              \cup {Trades[d] : d \in Data} \cup {Partial, Nothing}
Artifact == [run : Configured, kind : Kind, content : Content, row : RowId, path : Dirs]
Status  == {"running", "completed", "failed", "cancelled"}
Row     == [data : Data, status : Status, revision : Nat, metrics : Data \cup {Nothing},
            finished : Instant \cup {Nothing}]
Worker  == [pc : {"idle", "snapshot", "prepared", "started", "write", "publish",
                  "executed", "hash", "finish", "done", "stopped", "crashed"},
            todo : Seq(Configured), snapshot : Data \cup {Nothing},
            expected : Data \cup {Nothing}, metrics : Data \cup {Nothing}, row : RowId \cup {Nothing}, revision : Nat,
            status : Status, left : SUBSET Kind,
            hashed : UNION {[K -> Content] : K \in SUBSET Kind}, cancelled : BOOLEAN]

Init ==
    /\ source \in Data /\ manifest = source /\ described = {source}
    /\ downloading = FALSE
    /\ proc = [p \in Process |->
                 [pc |-> "idle", todo |-> Plan[p], snapshot |-> Nothing, expected |-> Nothing,
                  metrics |-> Nothing, row |-> Nothing, revision |-> 0, status |-> "running", left |-> {},
                  hashed |-> <<>>, cancelled |-> FALSE]]
    /\ files = [d \in Dirs |-> [k \in Kind |-> Nothing]]
    /\ temps = {} /\ rows = <<>> /\ artifacts = {}
    /\ used = [download |-> 0, fault |-> 0, crash |-> 0, cancel |-> 0]

At(p, pc)    == proc[p].pc = pc
Run(p)       == Head(proc[p].todo)
Output(p)    == Directory[p][Run(p)]
\* A record with some fields changed, and a function defined at x too.
Changed(w, changes) == [f \in DOMAIN w |-> IF f \in DOMAIN changes THEN changes[f] ELSE w[f]]
With(g, x, v)       == [y \in DOMAIN g \cup {x} |-> IF y \in DOMAIN g THEN g[y] ELSE v]

Become(p, changes) == proc' = [proc EXCEPT ![p] = Changed(@, changes)]
Spend(event, bound) == /\ used[event] < bound
                       /\ used' = [used EXCEPT ![event] = @ + 1]
FaultHappens == Spend("fault", MaxFaults)

-----------------------------------------------------------------------------
(* The download: the CSV and its manifest are replaced one after the other. *)

\* writeAtomic(output): the new CSV takes the name.
ReplaceData ==
    /\ ~downloading /\ Spend("download", MaxDownloads)
    /\ source' \in Data \ {source}
    /\ downloading' = TRUE
    /\ UNCHANGED <<manifest, described, proc, files, temps, rows, artifacts>>

\* writeAtomic(manifestPath): the manifest of the file as it was hashed.
ReplaceManifest ==
    /\ downloading
    /\ manifest' = source /\ described' = described \cup {source}
    /\ downloading' = FALSE
    /\ UNCHANGED <<source, proc, files, temps, rows, artifacts, used>>

\* An error after the first rename removes both names.
AbandonDownload ==
    /\ downloading /\ FaultHappens
    /\ source' = Nothing /\ manifest' = Nothing /\ downloading' = FALSE
    /\ UNCHANGED <<described, proc, files, temps, rows, artifacts>>

\* The download dies between the two renames.
DownloadCrash ==
    /\ downloading /\ Spend("crash", MaxCrashes)
    /\ downloading' = FALSE
    /\ UNCHANGED <<source, manifest, described, proc, files, temps, rows, artifacts>>

-----------------------------------------------------------------------------
(* One pass of the loop of RunBacktests.                                    *)

outside == <<source, manifest, described, downloading>>

\* snapshotDataset: a private copy of the file and its checksum.
SnapshotDataset(p) ==
    /\ At(p, "idle") /\ proc[p].todo # <<>>
    /\ ~proc[p].cancelled /\ source # Nothing
    /\ Become(p, [pc |-> "snapshot", snapshot |-> source])
    /\ UNCHANGED <<outside, files, temps, rows, artifacts, used>>

\* The context is cancelled, or there is no dataset to copy.
CannotBegin(p) ==
    /\ At(p, "idle") /\ proc[p].todo # <<>>
    /\ proc[p].cancelled \/ source = Nothing
    /\ Become(p, [pc |-> "stopped"])
    /\ UNCHANGED <<outside, files, temps, rows, artifacts, used>>

\* resolveDatasetMetadata reads the manifest as it is by now.
ResolveMetadata(p) ==
    /\ At(p, "snapshot")
    /\ Run(p) \in HasManifest => manifest # Nothing
    /\ Become(p, [pc |-> "prepared",
                  expected |-> IF Run(p) \in HasManifest THEN manifest ELSE Nothing])
    /\ UNCHANGED <<outside, files, temps, rows, artifacts, used>>

\* No manifest, or one that does not fit the run: the snapshot is removed.
MetadataRefused(p) ==
    /\ At(p, "snapshot")
    /\ \/ Run(p) \in HasManifest /\ manifest = Nothing /\ UNCHANGED used
       \/ FaultHappens
    /\ Become(p, [pc |-> "stopped", snapshot |-> Nothing])
    /\ UNCHANGED <<outside, files, temps, rows, artifacts>>

NewRow(p) == [data |-> proc[p].snapshot, status |-> "running", revision |-> 0,
              metrics |-> Nothing, finished |-> Nothing]

\* sameStartedRun: the stored start has lost its nanoseconds.
SameStart(p, id) == rows[id].data = proc[p].snapshot /\ id[3] \in Exact

\* StartBacktestRun inserts the row, or returns the one that is there.
StartBacktestRun(p) ==
    /\ At(p, "prepared") /\ ~proc[p].cancelled
    /\ \E now \in Instant :
         LET id == <<Run(p), Config[p], now>> IN
         /\ id \in DOMAIN rows => SameStart(p, id)
         /\ rows' = With(rows, id, NewRow(p))
         /\ Become(p, [pc |-> "started", row |-> id, revision |-> rows'[id].revision])
    /\ UNCHANGED <<outside, files, temps, artifacts, used>>

StartCleanup(p) == Become(p, [pc |-> "stopped", snapshot |-> Nothing])

\* It fails: another start under the id, a cancelled context, the database.
StartFails(p) ==
    /\ At(p, "prepared")
    /\ \/ /\ \E now \in Instant : LET id == <<Run(p), Config[p], now>>
                                  IN id \in DOMAIN rows /\ ~SameStart(p, id)
          /\ UNCHANGED used
       \/ proc[p].cancelled /\ UNCHANGED used
       \/ FaultHappens
    /\ StartCleanup(p)
    /\ UNCHANGED <<outside, files, temps, rows, artifacts>>

\* The content that is executed.
Executed(p) == proc[p].snapshot

\* Mutant: the manifest is not checked.
IgnoresManifest(p) == TRUE

\* Checksum, rows and range of the manifest hold for the content.
MatchesManifest(p) == proc[p].expected \in {Nothing, Executed(p)}

\* Runner.Run consumed the snapshot, which nothing else writes: the checksum
\* at its end is the prepared one.
Execute(p) ==
    /\ At(p, "started") /\ ~proc[p].cancelled /\ MatchesManifest(p)
    /\ Become(p, [pc |-> "write", status |-> "completed", metrics |-> Executed(p),
                  left |-> Kinds[Run(p)]])
    /\ UNCHANGED <<outside, files, temps, rows, artifacts, used>>

\* The run stops on its cancelled context, or with another error (not the
\* described content, a fault), which is a failure also in a cancelled run.
ExecutionFails(p) ==
    /\ At(p, "started")
    /\ \E status \in {"cancelled", "failed"} :
         /\ \/ status = "cancelled" /\ proc[p].cancelled /\ UNCHANGED used
            \/ status = "failed" /\ ~MatchesManifest(p) /\ UNCHANGED used
            \/ status = "failed" /\ FaultHappens
         /\ Become(p, [pc |-> "executed", status |-> status])
    /\ UNCHANGED <<outside, files, temps, rows, artifacts>>

NextKind(p) == IF "report" \in proc[p].left THEN "report" ELSE "trades"

\* What the output holds: the report names its run, the trades do not.
Rendered(p, kind) == IF kind = "report" THEN <<Run(p), Config[p], Executed(p)>>
                     ELSE Trades[Executed(p)]

\* Mutant: the final file is opened and written in place.
WriteInPlace(p) ==
    /\ At(p, "write") /\ proc[p].left # {}
    /\ files' = [files EXCEPT ![Output(p)][NextKind(p)] = Partial]
    /\ Become(p, [pc |-> "publish"])
    /\ UNCHANGED <<outside, temps, rows, artifacts, used>>

\* writeAtomic: the content goes to a temporary file of the directory ...
WriteTemp(p) ==
    /\ At(p, "write") /\ proc[p].left # {}
    /\ temps' = temps \cup {<<p, NextKind(p)>>}
    /\ Become(p, [pc |-> "publish"])
    /\ UNCHANGED <<outside, files, rows, artifacts, used>>

\* ... which takes the final name.
Publish(p) ==
    /\ At(p, "publish")
    /\ files' = [files EXCEPT ![Output(p)][NextKind(p)] = Rendered(p, NextKind(p))]
    /\ temps' = temps \ {<<p, NextKind(p)>>}
    /\ Become(p, [pc |-> "write", left |-> proc[p].left \ {NextKind(p)}])
    /\ UNCHANGED <<outside, rows, artifacts, used>>

\* An error of the writer, the sync or the rename: the temporary file goes.
WriteFails(p) ==
    /\ At(p, "publish") /\ FaultHappens
    /\ temps' = temps \ {<<p, NextKind(p)>>}
    /\ Become(p, [pc |-> "executed", status |-> "failed"])
    /\ UNCHANGED <<outside, files, rows, artifacts>>

WritesDone(p) ==
    /\ At(p, "write") /\ proc[p].left = {}
    /\ Become(p, [pc |-> "executed"])
    /\ UNCHANGED <<outside, files, temps, rows, artifacts, used>>

\* prepared.cleanup: the snapshot is removed whatever the outcome.
Cleanup(p) ==
    /\ At(p, "executed")
    /\ Become(p, [snapshot |-> Nothing, hashed |-> <<>>,
                  pc |-> IF proc[p].status = "completed" THEN "hash" ELSE "finish"])
    /\ UNCHANGED <<outside, files, temps, rows, artifacts, used>>

Unhashed(p) == Kinds[Run(p)] \ DOMAIN proc[p].hashed

\* artifactManifests hashes one file after the other, under its final name; the
\* size it reads next is left out, no property speaks of it.
HashFile(p) ==
    /\ At(p, "hash")
    /\ LET kind == IF "report" \in Unhashed(p) THEN "report" ELSE "trades" IN
         Become(p, [hashed |-> With(proc[p].hashed, kind, files[Output(p)][kind]),
                    pc |-> IF Unhashed(p) = {kind} THEN "finish" ELSE "hash"])
    /\ UNCHANGED <<outside, files, temps, rows, artifacts, used>>

\* A file cannot be read: the run is failed and has no artifacts.
HashFails(p) ==
    /\ At(p, "hash") /\ FaultHappens
    /\ Become(p, [pc |-> "finish", status |-> "failed", hashed |-> <<>>])
    /\ UNCHANGED <<outside, files, temps, rows, artifacts>>

-----------------------------------------------------------------------------
(* FinishBacktestRun: one transaction, under a context of its own that the  *)
(* cancellation of the run does not reach.                                  *)

ArtifactsOf(p) ==
    {[run |-> Run(p), kind |-> k, content |-> proc[p].hashed[k], row |-> proc[p].row,
      path |-> Output(p)] : k \in DOMAIN proc[p].hashed}

Metrics(p) == IF proc[p].status = "completed" THEN proc[p].metrics ELSE Nothing

\* The primary key of an artifact: a hash of these three.
ArtifactKey(a) == <<a.run, a.kind, a.content>>

\* Some artifact of the run has its id taken.
KeyTaken(p) == \E a \in artifacts, b \in ArtifactsOf(p) : ArtifactKey(a) = ArtifactKey(b)

\* Mutant: the status is not compared.
ClaimsByRevision(p) == rows[proc[p].row].revision = proc[p].revision

\* WHERE id = ? AND status = 'running' AND revision = ?
Claims(p) == /\ rows[proc[p].row].status = "running"
             /\ rows[proc[p].row].revision = proc[p].revision

\* After the run: the next one, or out with the run's error.
Return(p) ==
    IF proc[p].status = "completed"
      THEN Become(p, [pc |-> IF Tail(proc[p].todo) = <<>> THEN "done" ELSE "idle",
                      todo |-> Tail(proc[p].todo), status |-> "running", row |-> Nothing,
                      expected |-> Nothing, metrics |-> Nothing, revision |-> 0,
                      hashed |-> <<>>])
      ELSE Become(p, [pc |-> "stopped"])

\* Mutant: the end of a cancelled run is stored under its cancelled context.
FinishUnderRunContext(p) == proc[p].status # "cancelled"

\* context.WithoutCancel: whatever happened to the run's context.
FinishContextLives(p) == TRUE

\* SET status, metrics, finished_at, revision = revision + 1
Closed(p, row, now) == [row EXCEPT !.status = proc[p].status, !.metrics = Metrics(p),
                                   !.finished = now, !.revision = @ + 1]

\* The row is closed and its artifacts inserted.
FinishBacktestRun(p) ==
    /\ At(p, "finish") /\ FinishContextLives(p) /\ Claims(p) /\ ~KeyTaken(p)
    /\ \E now \in Instant :
         rows' = [rows EXCEPT ![proc[p].row] = Closed(p, @, now)]
    /\ artifacts' = artifacts \cup ArtifactsOf(p)
    /\ Return(p)
    /\ UNCHANGED <<outside, files, temps, used>>

\* sameFinishedRun: the same outcome is already stored.
SameFinish(p) ==
    \E now \in Instant :
      /\ rows[proc[p].row].status = proc[p].status
      /\ rows[proc[p].row].finished = now /\ now \in Exact
      /\ rows[proc[p].row].metrics = Metrics(p)
      /\ {a \in artifacts : a.row = proc[p].row} = ArtifactsOf(p)

FinishedAlready(p) ==
    /\ At(p, "finish") /\ ~Claims(p) /\ SameFinish(p)
    /\ Return(p)
    /\ UNCHANGED <<outside, files, temps, rows, artifacts, used>>

\* An id is taken, the row is closed otherwise, or the database does not
\* answer in time: nothing is stored and the process ends.
FinishFails(p) ==
    /\ At(p, "finish")
    /\ \/ /\ ~Claims(p) \/ KeyTaken(p) \/ ~FinishContextLives(p)
          /\ UNCHANGED used
       \/ FaultHappens
    /\ Become(p, [pc |-> "stopped"])
    /\ UNCHANGED <<outside, files, temps, rows, artifacts>>

-----------------------------------------------------------------------------
Working(p) == proc[p].pc \notin {"done", "stopped", "crashed"}

Cancel(p) ==
    /\ Working(p) /\ ~proc[p].cancelled /\ Spend("cancel", MaxCancels)
    /\ Become(p, [cancelled |-> TRUE])
    /\ UNCHANGED <<outside, files, temps, rows, artifacts>>

\* The process dies: its files and its row stay as they are.
Crash(p) ==
    /\ Working(p) /\ Spend("crash", MaxCrashes)
    /\ Become(p, [pc |-> "crashed"])
    /\ UNCHANGED <<outside, files, temps, rows, artifacts>>

Step(p) ==
    \/ SnapshotDataset(p) \/ CannotBegin(p)
    \/ ResolveMetadata(p) \/ MetadataRefused(p)
    \/ StartBacktestRun(p) \/ StartFails(p)
    \/ Execute(p) \/ ExecutionFails(p)
    \/ WriteTemp(p) \/ Publish(p) \/ WriteFails(p) \/ WritesDone(p) \/ Cleanup(p)
    \/ HashFile(p) \/ HashFails(p)
    \/ FinishBacktestRun(p) \/ FinishedAlready(p) \/ FinishFails(p)

Next ==
    \/ ReplaceData \/ ReplaceManifest \/ AbandonDownload \/ DownloadCrash
    \/ \E p \in Process : Step(p) \/ Cancel(p) \/ Crash(p)

Spec == Init /\ [][Next]_vars

-----------------------------------------------------------------------------
TypeOK ==
    /\ source \in Data \cup {Nothing} /\ manifest \in Data \cup {Nothing}
    /\ described \subseteq Data /\ downloading \in BOOLEAN
    /\ DOMAIN proc = Process /\ \A p \in Process : proc[p] \in Worker
    /\ files \in [Dirs -> [Kind -> Content]] /\ temps \subseteq Process \X Kind
    /\ DOMAIN rows \subseteq RowId /\ \A id \in DOMAIN rows : rows[id] \in Row
    /\ artifacts \subseteq Artifact

\* A row that is completed, failed or cancelled stays as it is: a second
\* process that started under the same id cannot finish it again.
TerminalIsFinal ==
    [][\A id \in DOMAIN rows :
         rows[id].status # "running" => id \in DOMAIN rows' /\ rows'[id] = rows[id]]_vars

\* A completed run that has a manifest was computed from a content some
\* manifest described: a download between the copy of the CSV and the reading
\* of the manifest, or one that died between its two renames, cannot pair one
\* download's candles with another one's description.
CompletedOnDescribedData ==
    \A id \in DOMAIN rows :
        rows[id].status = "completed" /\ id[1] \in HasManifest => rows[id].data \in described

\* Artifacts and the end of their run are stored together: an artifact
\* belongs to a completed run, and a completed run has one of each kind.
\* Whatever the order of the writes of the processes that share a directory,
\* and wherever one of them dies, a file under its final name and an artifact
\* the database knows are complete.
ArtifactsWithTheirRun ==
    /\ TypeOK
    /\ \A a \in artifacts : /\ rows[a.row].status = "completed"
                            /\ a.content \notin {Partial, Nothing}
    /\ \A id \in DOMAIN rows : rows[id].status = "completed" =>
         \A k \in Kinds[id[1]] : \E a \in artifacts : a.row = id /\ a.kind = k
    /\ \A d \in Dirs, k \in Kind : files[d][k] # Partial

\* A process that ended on its own, at whatever step it failed, has left no
\* copy of the dataset and no half-written artifact behind, and it has closed
\* the row it opened, also when it was cancelled in the middle of the run;
\* unless the database failed, or an artifact of another execution has the id
\* of one of its own.
RunsEndCleanly ==
    \A p \in Process :
        /\ proc[p].pc \in {"idle", "done", "stopped"} =>
              proc[p].snapshot = Nothing /\ \A k \in Kind : <<p, k>> \notin temps
        /\ At(p, "stopped") /\ proc[p].row # Nothing /\ used.fault = 0 /\ ~KeyTaken(p)
              => rows[proc[p].row].status # "running"
=============================================================================
