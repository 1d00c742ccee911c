# SessionReviewer: verification project

TLA+ models of the concurrent, crash-prone parts of SessionReviewer, the TLC
runs that check them on small instances, and proofs that TLAPS checks for every
value of the constants.  `PROJECT.json` lists components, runs, mutants, the map
from definitions to source lines, findings, hazards and theorems.

Check a run with `tlc -config <file>.cfg <module>.tla`, a proof module with
`tlapm <module>.tla`.

## The system

SessionReviewer reads local agent session logs, extracts a project history from
them and publishes it as Markdown under the project (`docs/session-review`) and
under an Obsidian vault, where people edit it.  Everything is files: commands
are short-lived processes that serialise on lock files, and a detached worker
runs long scans.

| part | state it keeps | operations | hard behaviour | model |
|---|---|---|---|---|
| scan job (`internal/scanjob`) | `<job>.json`, `active.json`, `control.lock`, a worker process | Start, Status, RunWorker | two files per save, worker saves without the lock, PID and clock judge whether it lives | `ScanJob` |
| scan (`internal/scan`, `source`, `sourcecatalog`, `sessionview`) | the source catalog all projects share, its batch journal; chunks and views of each project | Run, ApplyBatch, WithBatchSnapshot | the catalog lock covers single calls, so scans interleave; a batch is one file per session | `Scan` |
| memory store (`internal/memorystore`) | generations, objects, `manifest.json` (the prepared pointer), its backup and advance journal, `published_generation` | PrepareGeneration, AdvancePrepared, LoadPrepared, CommitPublished, CleanupUnreachable | three files per advance, reconciled after a crash at any of them; read-only commands read them without a lock | `MemoryStore` |
| publication (`internal/publication`, `publicationstate`, `publicationlock`) | journal intent, preimages, accepted receipt, merge base | Publish, PublishMarkdownEdit/ScanLocked, RecoverMarkdownLocked | no transaction across project, vault and private store; people save the same files | `Publication` |
| planner (`internal/syncproject`, `internal/contextupdate`) | none | buildMarkdownPlan, ReadMarkdownForScan, publishV4Scan | plan is stale when it is applied | `Publication` |
| apply (`internal/apply`, `cursor`) | receipts, the cursor of each session, a ledger and two documents | Run: preflight, receipt, files, receipt, cursor; or the recovery from a receipt | three files, a receipt and a cursor, killed between any two; people and sync touch the same files; sync trusts what receipts explain | `Apply` |
| review job (`internal/reviewjob`, `cli/review.go`) | job record, leases, private payloads, apply receipt, ledger, vault | start, status, cancel, retry, the worker loop | a detached worker dies anywhere; commands change its record under it | `ReviewJob` |
| entity sync (`internal/sync`) | transactions, merge bases, conflict records, two ledgers | Reconcile, Resolve, RepairMachineLedger | crash between two sides and the base, people save during it | `EntitySync` |
| problem map (`internal/problemmap`, `candidatepublication`, `cli/problem*.go`) | candidates, confirmation intents, placement jobs | confirm, change, place, status, cancel | publication first, private record second; a detached Agent worker | `ProblemMap` |
| retention, decisions, proposal validation | | | see "Not modelled" | |
| atomic files (`internal/atomicfile`), project lock (`internal/project`) | temporary files, lock files | WriteRootFileChecked, AcquireProjectLock | a write that fails after it took effect | in the users' models |
| rendering, parsing, pricing, CLI, plugin | none of protocol interest | | | |

They interact through files only.  `scan start` (scan job) spawns a worker that
runs a context update: scan, memory store (prepare), planner, publication
(pointer, files, receipt).  `sync` and the decision, problem and pricing commands
take the publication lock, recover an unfinished intent, build an edit and
publish it.  The plugin polls `scan status`.

What makes each part correct: one worker at most, a crash mark never given to
a live worker, a poll that ends (scan job); all or nothing over files, pointer,
base and receipt, no human edit lost, recovery that ends (publication);
a pointer only to complete generations, nothing reachable removed (memory
store); both sides and the base equal after a sync, no edit lost (entity sync);
every line reviewed is counted once and synced before it counts, a job ends (review
job); a confirmation settled if and only if it was published (problem map); batches
of the catalog atomic, views complete, scans that catch up (scan); proposals accepted
whole, in order and once, and shown in the vault only then (apply).

## Modules

### ScanJob

`jobs[j]` is `<job>.json`, `active` is `active.json`, `lock` is `control.lock`.
Each controller is a process at one program point `pc[c]` with the record `rec[c]`
it holds in memory; each worker likewise (`wpc`, `wrec`, and its PID `wpid`).

| action | code |
|---|---|
| `Acquire`, `Release` | `acquireControlLock` and the deferred unlock |
| `LoadActive`, `CheckLiveness` | `Start`/`Status`: load `active.json`, then judge it. Two steps, since the worker runs in between |
| `Create`, `ControlWriteJob`, `ControlWriteActive` | the queued, running, failed and crashed records; `SaveJob` writes two files, so it is two steps |
| `Spawn`, `SpawnFails` | the runner; the worker exists from here on |
| `ReadJob`, `ReadActive`, `LaunchTimeout` | `authorizeWorkerLaunch`, which reads the two files apart |
| `Progress`, `Finish`, `WorkerWriteJob`, `WorkerWriteActive`, `WorkerWriteFails` | the observers and the outcome of `RunWorker` |
| `ControllerStops`, `WorkerCrash` | a crash or a failed save at any point |
| `Tick`, `ClockStepsBack`, `PidReused`, `ForeignExits` | the machine |

Job identifiers are numbers in creation order, timestamps small naturals, error
texts three classes.  Not modelled: the Windows process probe, milestones,
issue lists and the log file.

### Publication and AtomicPublication

`file[d]` is the review file `d = <<side, name>>`; its contents are a generation
and the set of human edits in it, since rendering is a function of these.  `base`,
`receipt`, `pointer`, `prepared` and `intent` are the merge base,
`accepted-markdown-v1.json`, `published_generation`, the prepared pointer
`manifest.json` (a register here, see `MemoryStore`) and `intent-v1.json`.  One process holds the publication lock: `pc` is the step it
does next, `op` the command, `plan` the intent it built (none while it recovers an
older one), `todo` and `cur` the walk over the destinations.

| action | code |
|---|---|
| `Begin`, `Recover` | lock, then `RecoverMarkdownLocked` or the handler in `publishWithOwnership` |
| `Build`, `CreateIntent` | `buildMarkdownPlan`, `ReadMarkdownForScan`; preflight and `Journal.Create` |
| `CheckFile`, `WriteFile` | `verifyDestinationPreimage`, then `WriteRoot`: two steps |
| `ProjectWritten`, `VaultSynced`, `Verify` | the journal stages and the verification before `verified` |
| `CommitPointer`, `CommitPointerTorn` | `CommitPublishedContext`; the second fails after the rename |
| `VerifyAccepted`, `CommitBase`, `BaseCommitted`, `CommitReceipt`, `Settle` | `completeMarkdownAcceptance` and `commitMarkdownAccepted` |
| `UndoBase`, `UndoFile`, `RestoreFile`, `RollbackRequired`, `RolledBack` | `rollbackIntent` and `repairMarkdownBaseAfterRollback` |
| `OperationFails`, `Crash` | an error at any step and what its caller does; the end of the process |
| `Save`, `Prepare` | a person; another scan |

Three kinds of publication: `edit` (three files, same generation), `scan` (four
files and the pointer) and `generation` (a version-1 intent, as a version-3 scan or a
JSON migration writes it).  A project uses either the first two or the third: the
constant `Formats` lists the combinations of a run (`PublicationAssumption`: none mixes the
two), and the variable `format` is the one a behaviour has from its start.
For the third the version-3 vault leg is taken as the same per-file steps;
its queue, entity bases and their repair are left out, and nobody saves files in
behaviours of that format.

Abstractions: people only add text, so a merge is a union and a conflict is a
choice the planner has when both sides hold something new; the plan reads all
files in one step (every file is compared again later); reading during the verification
is one step; the order within a side is free.  The receipt and base comparisons
of `publishWithOwnership` are left out because only a lock holder writes them.

`AtomicPublication` states what callers are promised: one accepted revision,
replaced in one step; a proposal is tentative or decided, a decided one is never
abandoned; a revision extends the one it replaces.  `Publication` implements it
under a mapping that reads the accepted revision from the receipt, the proposal
from an unfinished intent without receipt, and takes a proposal as decided when
its pointer has crossed.

### MemoryStore and AtomicPrepared

`manifest`, `backup` and `journal` are `manifest.json`, the hard link the checked
replacement keeps of it, and `prepared-advance-v1.json`; `generations` the objects
under `generations/`, `lock` is `locks/scan.lock`.  A writer is at `pc[w]` in a call
that writes `target[w]` from the pointer `known[w]` it loaded; a reader is at
`rpc[r]` in a read-only load.  A generation identifier stands for the whole pointer
(identifier and two digests).

| action | code |
|---|---|
| `BeginLoad`, `BeginWrite` | `LoadPrepared`; `prepareOrAdvance` of a scan, which calls `PrepareGeneration` or `AdvancePrepared`; all under `withStoreLock` |
| `RestorePointer`, `DropBackup`, `DropJournal` | `reconcilePreparedAdvanceUnlocked`, with which each of these calls starts; one step per file it changes |
| `Load`, `Compare`, `NothingWritten` | the pointer after reconciliation: returned, or compared with what the caller expects |
| `WriteGeneration`, `WritePointer`, `Reread` | `PrepareGeneration` |
| `WriteGeneration`, `WriteJournal`, `LinkBackup`, `Rename`, `KeepRename`, `FinishAdvance` | `AdvancePrepared` with `WriteRootFileChecked` opened up |
| `CheckFails`, `Unpublish`, `Relink`, `Unlink` | a failed check before or after the rename, and the way back in `rollbackRootPublication` |
| `Stop` | the end of the process, or an error return, at any step |
| `FirstCheck`, `BackupCheck`, `ReadPointer`, `SecondCheck` | the read-only `LoadPrepared`, one step per file it reads |

The reconciliation's refusals ("prepared pointer matches neither journal
generation" and the like) are not actions: `Recoverable` says that no state
reaches them.  `valid` is a history variable: what was current during a reader's call.
`AtomicPrepared` is a register that is set once and then advanced from its present
value, with one undecided advance at most.  Not modelled: loss of power (every step is
durable once taken), files put there by others, the objects below a generation.

### ReviewJob

`jobs[j]` is the stored job record, `files[j]` its private payload files, `worker[w]` a
process: its place `pc` in `Run`, and whether its record is `behind` (another command
wrote since it last read).  `receipt`, `ledger` and `vault` are the outstanding apply
receipt, who accepted each line of each session, and what the vault shows.

| action | code |
|---|---|
| `CreateJob`, `Retry`, `Cancel`, `Recover` | `runReviewStart`, `runReviewRetry`, `runReviewCancel`, `RecoverInterruptedAt` |
| `Spawn`, `Acquire`, `Start`, `Handshake`, `AcquireFails`, `Terminalize`, `ParentDies` | the detached launch, both leases, the ownership of the record, the handshake and its timeout |
| `Route`, `RecoverState`, `Advance` and their failures | `Run` before its loop: `recoverRetryState` with the receipt an earlier attempt left |
| `Loop`, `Prepare`, `WritePacket`, `KeepPacket`, `AgentAnswers`, `WriteProposal`, `KeepProposal` | `runPacket` up to the proposal; each publication is announced, written and kept |
| `BeginApply`, `Apply`, `Commit`, `Accept` | the apply, its receipt, and the progress recorded from it |
| `Sync`, `SyncEnds`, `Clear` | `runSync`, `clearAcceptedSyncPending` |
| `Mark`, `Remove`, `Settle`, `Complete` | `cleanupPrivatePayloads` and the end of session and job |
| `ObserveCancel`, `FinishCancelled`, `CancelRemove`, `CancelSettle`, `Cancelled` | the cancellation between any two writes |
| `Fail`, `FailRemove`, `FailSettle`, `PacketFails`, `ApplyFails`, `SyncFails`, ... | error returns; `Die` is the end of the process |

A packet reviews one line.  Accounting and prices, imported version-1 jobs and the file
layout of the job store are left out.

### EntitySync and AtomicSync

`doc[s][e]` is the document of entity `e` on side `s`, a revision and for each unit the
number of the edit that last wrote it; `base`, `txn` and `hidden` are the merge bases, the
transaction files, and the machine ledgers and conflict records of both sides.  One
engine runs under `sync.lock`; `pc`, `seen`, `todo`, `cur` and `note` are its locals.

| action | code |
|---|---|
| `Reconcile`, `Resolve`, `RepairMachineLedger` | the three commands; each begins with recovery |
| `Authenticate`, `Recover`, `RecoverEntity` | `validateV2RecoveryTransactions`, `recoverTransactions` and the handler of each transaction kind |
| `Snapshot`, `Scan`, `Entity`, `EndEntities`, `Align`, `Publish`, `Finish` | `Engine.Reconcile`: inventory, three-way merge or conflict record per entity, common revision, machine ledger, report |
| `Choose`, `ResolveDocument` | `Engine.Resolve` |
| `Write`, `Replace`, `Verify`, `Commit`, `Seal`, `Remove` | `applyAccepted`, with check and rename of `writeAttempt` as two steps |
| `HiddenWrite`, `HiddenStage`, `HiddenVerify` | ledgers and conflict records, one side after the other |
| `Edit`, `Delete`, `Recreate`, `TamperLedger` | people, at any moment |
| `Crash`, `WriteFails` | the end of the process; a write that still fails after its retries |

`held` follows the edits nobody superseded or decided against.  Three ways to lose
one, and one to stay stuck, are known (below, "Deviations without a run"); the constant
`Counted` names those that count against the properties, and is empty in the run and in the
theorem about edits, so that they show there is no other.

`AtomicSync` is what the sync promises about merge bases and conflict records: a base is
replaced by the text announced for its document only, and only while it is the one the
announcement saw; a conflict is recorded against the present base; a decision has the sync for
itself until it ends, may change its own document only, and its record is closed after the decided
text is the merge base, once and for ever.  `EntitySync` implements it under a mapping that reads the
announced changes and the decision from the transaction files and the records from the project,
which gets each before the vault: `Plan` is `Announce`, `Commit` is `Accept`, `Choose` is
`Decide`, the first `HiddenWrite` of a record is `Record` or `Settle`, and the removal of a transaction
file, by the engine or by recovery, is `Forget` or `End`; every other step changes none of these.
The bases that `AtomicSync` speaks of are the files of `merge-bases`; that the two sides follow them is
what `SidesAgree` says.

### ProblemMap

`cands`, `intents` and `jobs` are the three private files, `accepted`, `results` and `pub`
the accepted view, all views ever accepted and the Markdown publication under way (in three
steps: see `Publication`), `op` the holder of the publication lock, `request` a placement
request after it released it, `worker[j]` the detached worker of job `j` with the job
revision it read last.

| action | code |
|---|---|
| `Begin`, `Recovered`, `Reconciled`, `Settle`, `Complete`, `Abort` | lock, Markdown recovery and `reconcileProblemPublicationsLocked`; a scan stops after the Markdown |
| `Create`, `Change`, `Prepare`, `Render`, `Refuse`, `Stops` | `applyProblemRequest` |
| `Scanned` | `ReconcileDeterministic` and the publication of a scan |
| `OpenJournal`, `WriteReceipt`, `WriteAcceptedResult`, `EndJournal`, `RollBack` | the publication as its callers see it |
| `RequestReconciled`, `FindExact`, `Reserve`, `Launch`, `Answered`, `HandshakeFails`, `FailQueued`, `RequestStops`, `Status`, `Cancel` | `runProblemPlacement` |
| `Claim`, `Start`, `AgentEnds`, `GetLatest`, `Check`, `Failing`, `Finish`, `CompleteCandidate`, `CompleteJob`, `WorkerDies` | the worker |

### Scan and AtomicCatalog

`log` and `present` are the session logs, `record[s]` the catalog's file about session
`s`, `staging`, `journal`, `batch` and `temp` the files of a batch under way, `lock` the
holder of `catalog.lock`.  `pc[p]` and `work[p]` are the scan of project `p` (one at a time,
`acquireScanLock`), `prepared[p]` the session views of its prepared generation, `stored[p]`
its observation chunks.

| action | code |
|---|---|
| `Discover`, `Freeze`, `CollectTerminals`, `Plan` | adapter discovery, `freezeDiscovery`, decoding and `collectTerminals`, `planBatch` |
| `Apply`, `CompleteStaging`, `LinkStaging`, `UnlinkStaging`, `WriteTemp`, `RenameTemp`, `RemoveJournal` | `ApplyBatch`, one step per file it changes |
| `TakeLock` | `recoverBatchUnlocked`, with which every later call begins |
| `Persist`, `Commit` | chunks and views; the views are built on records `WithBatchSnapshot` finds unchanged |
| `MeetsTemp`, `Stops` | a leftover temporary file; a crash or a failed step |
| `Extend`, `Truncate`, `Move` | the agents, and whoever moves their files |

A digest is the value it stands for, the prepared pointer a register (`MemoryStore`).
Discovery and the snapshot of the records it needs are one step; so are the
reads of records in `collectTerminals` (what changes in between only meets the
comparison of `ApplyBatch`) and the check of the decoded bytes.  There is one binding per
adapter (`contextupdate/service.go:159`), so a scan asks for its own project only; a moved log
comes back as the same file.  Usage-only refreshes, OpenCode, lineage details, the session
index, conversation chains and retained views are left out.

`AtomicCatalog` is what scans promise each other: records of a batch change together, a
batch joins its project to the records it writes and takes no other out, and a
generation is prepared from records the catalog held at one moment.

### Apply and AtomicLedger

`file`, `vault` and `base` are the three files of a project of format 2 (ledger, history,
review), the vault's copies and the merge bases; `cursor[s]` and `receipt[p]` the cursor of
session `s` and the receipt of proposal `p`.  Process `i` applies `job[i]` at step `pc[i]`;
`root` and `data` hold the locks on project root and project data.  `sync` is the sync
that runs, with what it read at its beginning.

| action | code |
|---|---|
| `Start`, `LockRoot`, `LockData`, `TimeOut` | `Run`'s preflight, the two locks and their time-out |
| `ScanReceipts`, `VerifyAgain` | `scanReceipts`, `rejectOutstandingProjectReceipts` and the choice of `Run` and `recoverReceipt`: refuse, continue, answer, or begin |
| `Load`, `Plan`, `SavePrepared` | `LoadExpected`, `ApplyChangeSet` with its validations, the prepared receipt |
| `Check`, `WriteFile`, `MarkApplied` | `applyReceiptFiles`, which looks at all files before each write; the applied receipt |
| `Verify`, `Commit`, `Exit` | `finishReceipt`: verified twice, then the cursor; the answer |
| `Stop` | the end of the process at any step |
| `BeginSync`, `SyncDocument`, `Align`, `Publish`, `SyncEnds`, `RepairLedger` | a sync as it meets an apply: what it accepts (`Accepted`, `Trusts`), the common revision, the published ledger |
| `EditProject`, `EditVault`, `Restore` | people; `Restore` puts any of the project's files back to what they were at first |

A document is the set of proposals accepted into it, the edits of people and its revision; a
hash is the contents it stands for.  `WriteFile` compares and replaces in one step: the
moment between the two is named in the comment at `apply.go:615`, and `EntitySync` and
`Publication` have it as a window.  `SyncDocument` writes both sides and the base in one
step, since `EntitySync` opens that up.  Whether a proposal passes its validation is a choice.
`Restore` does not act while a sync runs, because `Align` reads the project's
document again and would carry the old one to the vault (deviation "align" below).

`AtomicLedger` is the history of accepted proposals: one under way at a time in the
project, begun where its session's history ends, and never given up once begun.

### ScanJobProofs, MemoryStoreProofs, PublicationProofs, ReviewJobProofs, EntitySyncProofs, ProblemMapProofs, ScanProofs, ApplyProofs

The proofs about the modules they are named after (see below).

## Runs

| run | instance | states | shows |
|---|---|---|---|
| `scanjob_safety` | 2 controllers, 2 jobs, 2 PIDs, 2 faults, clock 0..3, PID reuse | 1,514,938 | at most one authorised worker; crash marks are right; records on disk are valid |
| `scanjob_polling` | 1 controller, 1 fault, fairness | 214,955 | a pending job ends |
| `publication` | both formats, 1 document, 2 edits, 2 generations, 2 faults, torn pointer writes of Markdown kinds | 2,602,257 | refinement of `AtomicPublication`, no edit lost, no mixed projection, base, receipt and pointer agree (`OutcomesAgree`) |
| `publication_recovery` | 1 edit, 2 generations, 1 fault, fairness | 163,647 | every unfinished intent is resolved, unless a person saved one of its files |
| `memory_store` | 2 writers, 1 reader, 2 generations, 2 crashes or errors, 1 failed check, fairness | 217,700 | refinement of `AtomicPrepared`; files always reconcilable; readers answer with a current pointer; interrupted advances are decided |
| `review_job` | 1 job, 2 workers, 2 sessions of 2 lines, 2 attempts, any number of deaths and failures, fairness | 169,501 | valid records, progress that is accepted and synced (`ProgressIsAccepted`, `ProgressIsSynced`), an owner nobody overrides, jobs that end |
| `entity_sync` | 2 documents of 2 units, 2 saves, 1 crash or failed write, fairness | 810,596 | no edit lost but in known ways, sides and records agree (`SidesAgree`), bases and closed records are final (`BasesAreFinal`), refinement of `AtomicSync`, recovery ends |
| `problem_map` | 1 candidate, 3 views, 3 revisions, 1 placement job, 2 faults | 6,097,932 | confirmations and placements settle exactly once published or written |
| `scan` | 2 projects, 2 sessions, 2 lines, 2 changes of the logs, 2 stops, fairness | 522,676 | replayable journals, refinement of `AtomicCatalog`, views that can be read whole, scans that catch up |
| `catalog_journal` (violated) | no change of the logs, 1 stop, fairness | 404 | the finding below |
| `apply` | 2 processes, 3 proposals (2 of the same lines, 1 that continues), 1 kill, 1 ledger published by a sync, 1 restore | 431,990 | refinement of `AtomicLedger`, a vault that shows whole proposals and keeps them |
| `apply_people` | 1 process, 2 proposals, the second of which changes no file, 1 edit, 1 restore, 1 kill, 1 ledger published, fairness | 388,475 | no edit lost, a cursor that follows the files, interrupted applies finished once repeated |

Deadlock is not checked for `ReviewJob` and `Apply` only: the attempts of its jobs and the
proposals of a project are bounded, and after them nothing is left to do.

Why the bounds are enough.  Two jobs are the least for one worker to outlive its
job and meet its successor, and two faults let one crash hit the recovery from
another.  Two generations give a scan a predecessor to return to, two edits one
in the plan and one arriving meanwhile (on either side), and one document is enough because
documents are merged independently and written by the same walk as ledger and
index.  In the memory store two generations let an advance go forth and back, two stops let one
hit the recovery from another; its safety properties are proved for all bounds.
In `ReviewJob` two sessions of two lines give a packet that ends a session, one that does
not, and a next session; two attempts let a retry meet what the first left, two workers an
old process outlive its attempt; deaths and failures are not bounded.  `EntitySync` has two
documents because they share revisions and ledger, two units for a merge without a clash, two
saves for one on each side or one before and one during recovery.  That is too few for a document
that is deleted, recreated and saved again while a sync runs; its safety properties are proved for all bounds.
`ProblemMap` has three views (before, of the confirmation, and one that replaces it before it is settled), and two
faults for a crash and one in its recovery; it too is proved for all bounds.  `Scan` has two
projects for one to commit between another's plan and commit, and two stops for one in
the replay of another's batch.  A log rewritten beyond its boundary (`Rewritten`) needs three lines
and is not reached in the run: it names a case in which the code waits for a confirmation, and
excludes nothing there.  The safety properties of `Scan` are proved for all bounds.
`Apply` has two proposals that read the same lines from different states of the log, for a
boundary that has the right line and the wrong hash, and one that continues the first, for a
chain of receipts; two processes race for the locks or take over from each other.
`apply_people` has one process, whose rival for a lock is a sync only.  The safety
properties of `Apply` are proved for all bounds.

`LastStart` keeps enough clock after the last start for the launch grace to
expire.  Named bounds: `MaxJobs`, `MaxTime`, `LastStart`, `MaxFaults`, `MaxGen`, `Edits`,
`MaxStops`, `MaxBadChecks`, `MaxLine`, `MaxAttempts`, `MaxSaves`, `MaxView`, `MaxRev`,
`NJobs`, `MaxLines`, `MaxChanges`, `MaxSyncs` and `MaxRestores`.

`Window` is FALSE in the publication runs: they show that the check-then-rename
window is the only way to lose an edit.

## Fairness

`ScanJob`: a command that runs proceeds (weak fairness of each controller and
worker step, as the scheduler gives it to a live process), the plugin polls status
until it sees a terminal state (strong fairness of one controller's `Acquire`,
the lock being free infinitely often; `project-view.ts` polls on a timer), a scan
ends after finitely many progress saves (`Finish`), and time passes (strong only
because the bound disables `Tick`).  Crashes are never fair.

`Publication`: a command that runs proceeds and commands keep coming.  People and
faults are not fair.

`MemoryStore`: a call that holds the lock proceeds, and some command eventually loads
the pointer (every scan starts with it; read-only commands refuse meanwhile).  Errors, crashes and
readers are not fair.

`ReviewJob`: worker and launcher never stop for ever (the Agent call, the sync and the
handshake have deadlines), and the plugin polls `review status`, which recovers a dead worker's
job.  Commands of people, deaths and failures are not fair.

`EntitySync`: an operation that was started runs on, and the periodic trigger of the plugin
starts the next one.  People and faults are not fair.

`ProblemMap` (`PlacementEnds` only, which no run checks): the holder of the publication lock
proceeds, and a worker is not kept from the lock for ever (strong fairness: it retries for ten
seconds, while others hold the lock for moments).

`Scan`: a scan that runs proceeds, and scans keep being started.  Nobody has to write a log,
move one or crash.

`Apply`: a process and a sync that run proceed, a waiting process gets a lock that is free
again and again (strong fairness, as its loop polls), and an interrupted apply is repeated as
often as it can be started (strong fairness of `Retry`; the retry of a review job does it).
Kills and people are not fair.  Lock waits that time out for ever are an exception in
`Resumes` itself.

## Finding

A process killed between the temporary file of a catalog record and its rename
stops the catalog of all projects: the file is taken for a journal nobody can read
(`catalog_journal`).

The comment it contradicts is quoted in `PROJECT.json`.

### Deviations without a run

Met while modelling, seen by TLC on earlier or larger instances, or read off the code, and
excluded from the passing runs by a named constant or an explicit exception where they would
violate a property.  Six of them are stated as a property beside the module's others, with
the line it is taken from; TLC refutes each within a minute on the instance given.

- `PacketContinues` (`ReviewJob`; 2 jobs, 1 session of 2 lines, 2 workers, 2 attempts): a session whose accepted cursor
  is past its first line is frozen again, but no later job can review it, since the packet starts at
  the cursor and the job expects it at zero (`reviewjob/service.go:883`).
- `PlacementEnds` (`ProblemMap`, fair; no fault): a placement job cancelled between its worker's
  last look and the end of it waits for its cancellation for ever, as the end is refused as a
  revision conflict (`cli/problem_placement.go:246`).
- `OnlyUsersPrevent` (`Apply`; 1 process, 1 proposal, 1 kill, 1 sync): an apply killed after its first file,
  the ledger, can never be repeated once a repair copied that ledger to the vault, as the review job's
  sync does by itself, and a sync published one with the hashes of the old documents
  (`sync/derived.go:207`): the ledger is then neither the receipt's preimage nor its target, and the
  receipt stops every other proposal of the project too (`apply.go:434`).  `README.zh-CN.md:231` says
  that only edits of users and other boundaries prevent the recovery.
- `LedgerMatches` (the same instance): the published ledger holds the chain of session reports
  with the proposal and vouches for documents without it (`sync/derived.go:203`), so half of
  what `README.zh-CN.md:235` calls one transaction passes the comparison of hashes.
- `RepeatAnswers` (`Apply`; 1 process, a proposal and its successor, no kill and no sync): an accepted proposal applied again
  after its successor is refused with "does not match applied receipt"
  (`apply.go:718`), although `README.zh-CN.md:231` says it answers `already_applied`.
- `DroppedUncommitted` (`EntitySync`; 2 documents of 1 unit, 3 saves, 1 crash): recovery drops a resolution
  it cannot rebuild, because its document "never committed", and leaves the record open "for a later
  retry" (the comment at `sync/conflict.go:853`).  It cannot rebuild one either when the document was
  committed, the process was killed before it closed the record, and somebody saved or deleted the
  project's document before the next run (`conflict.go:828`).  The record then stays open although
  its conflict is decided, and a retry is refused, since the merge base is no longer the record's
  (`sync/service.go:1334`).  No merge base is wrong and no edit lost by it: `AtomicSync` lets a
  decision end without its record.
- On Windows applies take a mutex and syncs a lock file, so they do not exclude each other
  (`apply/lock_windows.go:75`): with `SharedLock` FALSE and two edits, `VaultShowsApplied` is violated, because `Align`
  copies a document whose receipt is only prepared.
- Receipts are never removed; beyond 4096 of them, or 256 MiB, every apply of the project fails
  (`apply/receipt.go:27`).
- A person who saves a file between the pointer or the receipt of a publication and the end of its
  intent stops recovery until the save is undone (`publication/markdown.go:551`; the exception in
  `RecoveryEnds`), and a PID given to another process keeps a crashed scan job alive
  (`scanjob/service_unix.go:39`; `PidReuse` is FALSE in `scanjob_polling`).
- A scan worker's outcome can be overwritten by a crash mark that Status decided before it
  (`scanjob/service.go:152`).
- A save between a destination's check and its rename is lost (`publication/service.go:487`;
  `Window`), although the design says edits are never overwritten.
- A version-1 publication whose pointer write fails after it took effect rolls back the
  files under the new pointer (`publication/service.go:246`; `TornPointer`), and one interrupted
  while an older generation is published cannot be resolved by any command (`service.go:301`).
- A read-only load that overlaps a replacement undoing itself answers "no prepared
  generation", or a pointer that was never committed (`memorystore/store.go:585`;
  the exception in `ReadersSeeCurrent`).
- The review payload of a packet is dropped when the worker dies in an apply and its retry dies
  before it applies again (`reviewjob/lease.go:338`), which leaves a receipt no job can finish.
- A retry of an old review job beside an active one: two active jobs block every status
  (`reviewjob/recovery.go:44`; the exception in `JobsEnd`).
- Entity sync, `Forgiven`, `Lift` and `HalfClosed`: the alignment of revisions reads the project's
  document again, compares it with nothing and overwrites a save in the vault
  (`sync/service.go:900`, "align"); the rename replaces what was saved since the check ("replace");
  recovery of a first write overwrites a document created meanwhile ("create"); a resolution interrupted after both records were closed is never
  finished (`sync/conflict.go:822`, "resolution").
- Entity sync, the alignment again (`Lowered` in `BasesAreFinal`, and the second case of `Lift`): a project
  document that is deleted and recreated from the merge base of before, while the sync runs, is
  lifted to a revision that another text of the same document may already have.  One revision then
  names two texts, and the next merge takes the wrong one for unchanged: with 2 units and 6 saves
  TLC finds an edit lost in this way.
- A log that has gone before a view of it was prepared stops every later scan of its
  project (`scan/service.go:1145`; `Orphaned`), although the session memory design says one failing session
  never blocks later ones.  It takes no crash: another project's scan between plan and commit is
  enough.
- A torn staging file blocks the catalog as a temporary file does (`catalog.go:487`; `Blocked`), and
  a log rewritten beyond its boundary waits for a confirmation no command gives (`Rewritten`).
- The first scan's reconciliation of candidates runs without the publication lock
  (`contextupdate/v4.go:338`); a parent killed between `Reserve` and `Launch` leaves a placement job
  queued, and a worker killed by the handshake timeout leaves its job running.

## Proofs

`ScanJobProofs` proves for every number of controllers, jobs and PIDs, and for
every bound:

- `TypeCorrect`: `Spec => []TypeOK`;
- `OneWorker`, `DeadAreDead`: the run's invariants `AtMostOneWorker`, `DeclaredDeadIsDead`;
- `WorkerOwnsActiveAlways`: `WorkerOwnsActive`, of which `AtMostOneWorker` is a consequence.

Assumed are only the typing of the constants (`ScanJobAssumption`).  None of the
invariants is inductive.  The inductive one, `IInv`, adds what holds between the
steps: a controller that is not idle holds `control.lock` (`LockHeld`); what a
controller and a worker may hold in memory at each program point (`ControlRecord`,
`WorkerRecord`); a pending record names a job (`PendingHasId`); a controller past its
liveness check works on a project whose `active.json` names no live worker (`Quiet`);
and a job declared dead is not one `active.json` authorises (`DeadNotNamed`).  `Quiet`
is what excludes a worker about to be authorised from a controller about to replace
its record.  The proof has a lemma per action, and per conjunct under it.

`MemoryStoreProofs` proves for any writers, readers, generations and bounds:

- `TypeCorrect`, `AlwaysRecoverable`: the run's invariants `TypeOK`, `Recoverable`;
- `ObjectsFirst`, `AckCommitted`: `PointersHaveObjects`, `AckIsCommitted`, that every pointer on
  disk has its generation and that a reported success is final;
- `Implements`: `Spec => Linearizable`, the refinement of `AtomicPrepared`;
- `ReadersCorrect`: `Spec => []ReadersSeeCurrent`.

Assumed are only the typing of the constants (`MemoryStoreAssumption`).  The inductive
invariant adds to the first three `Stage(w)`: what pointer, backup and journal hold at
each step of the call of `w`.  Only the holder of the lock changes files, so a step
has to be checked for one writer only (`OneHolder`).  The refinement follows action by
action; only the first pointer, the journal's creation and its removal change the
register.  The readers need one more invariant, `ReadersInv`: a pointer read
between the two looks at the journal was current, or is the successor of an advance
that can only be committed.

`PublicationProofs` proves for any documents, edits, generations, formats, faults and bounds:

- `TypeCorrect`: `Spec => []TypeOK`, with journals that pass their own validation;
- `OutcomesAlwaysAgree`: `Spec => []OutcomesAgree`;
- `PublishesAtomically`: `Spec => Atomicity`, the refinement of `AtomicPublication`;
- `NeverMixedProjection`: `NeverMixed`, if no pointer write of a version-1 publication is torn;
- `EditsAlwaysStay`: `EditsStay`, if no save falls between a check and its rename.

The last two name their exception as an assumption because the code violates them without it
("Deviations without a run": `TornPointer`, `Window`); the other three hold with both.  Assumed
besides is the typing of the constants (`PublicationAssumption`).

No property of the run is inductive.  `Control` adds what a process holds and how
far the journal is at each step (`Holding`, `Journal`).  For the Markdown formats `Disk` says what the
files, the merge base, the pointer and the receipt may hold together: one accepted revision
(`Agreed`) between two publications; each of them the accepted revision's or the intent's during one
(`Between`), where a crossed pointer means that all files carry the new revision; and the intent's once its
receipt is written (`Accepted`).  `base_committed` in the journal does not say that the merge base is
the new one, since a rollback restores the base before its own stage, so `Forward` and
`Backward` say it for each place of the holder: who goes forward has files that carry the new revision,
and who goes back has crossed no pointer, and from `undoBase` on the old base.  That the intent extends
what was accepted (`Follows`) needs that all files of a revision are renderings of the same documents
(`Rendered`).  From these the receipt maps to `Accept`, a pointer to `Decide`, an intent's creation to
`Propose` and a settled outcome to `Abandon` or a stutter.  Version-1 projects have no receipt and need an
invariant of their own (`Machine`, `MachineFiles`, `MachinePlaces`).  `Edited` says that nothing holds an edit
nobody saved, and that what an intent is about to write lacks no edit saved in that file since its
preimage was taken.

`ReviewJobProofs` proves for any jobs, workers, sessions and bounds:

- `TypeCorrect`: `Spec => []TypeOK`, with the exclusive leases and the validity of every
  stored record;
- `OwnerKeeps`: `OwnerKeepsJob`;
- `ProgressAlwaysAccepted`, `ProgressAlwaysSynced`: `ProgressIsAccepted`, `ProgressIsSynced`.

Assumed are the typing of the constants and that `NoJob` is neither a job identifier nor a
record (`ReviewJobAssumption`).  The run has one job; the theorems also cover a job that is
retried beside others which accept lines of the same sessions.  None of the properties is
inductive.  The inductive invariant `Inv` has three parts.  `Kept` is what holds of a record
wherever its worker stopped: `Valid` adds to the stored record's own validation that a token
belongs to an untouched attempt and that a retained packet is the next one of the job; `FilesOf`
that a clean record has no private file; `Ledgered` that the ledger has lines of the job in
finished sessions and up to one line after its progress only (`Placed`), as many as it counts
but for that one (`Counted`), and that what it counts is covered by cursor and vault
(`Covered`).  `Placing` says what a worker with the leases knows at each place of `Run`: it owns
the record and its attempt, or the record is marked for cancellation; what phase, payload and
publications the record has; and what of files, ledger and vault it has seen.  The third part is that one
worker at a time has the leases.  A step of a worker with the leases is checked against its own
record (`Global`, `Local`), with other jobs' `Kept` preserved by `OthersKept` when a line is added; a command
against the workers it makes stale (`Commands`, `UnownedInv`, `CancelPlace`): only a cancellation
is written under an owner, and it takes nothing from what the owner knows.  TLC checked the three parts on
the run's instance, and with three sessions of one line and three attempts, before they were proved.

`ProblemMapProofs` proves for any candidates, views, jobs and bounds:

- `TypeCorrect`, `EveryConfirmationSettles`, `ResultsAlwaysBelong`: the invariants `TypeOK`,
  `ConfirmationsSettle`, `ResultsBelong`.

Assumed is the typing of the constants (`ConstantsAssumption`).  Types alone are not inductive, since a
revision could grow beyond its bound: `JobStages` ties it to the state of the job.
`ConfirmInv` adds that at most one intent is prepared, that commands other than scans
begin their work with none, and that whatever is on its way to readers is announced by
an intent or comes from no candidate (`Announced`).  `PlacementInv` adds which jobs have a worker, and
that a job with a proposal has none left, or one between the two writes of
`CompleteCandidate`.

`ScanProofs` proves for any projects, sessions, logs and bounds:

- `TypeCorrect`: `Spec => []TypeOK`, with the journal that can always be replayed;
- `AtomicBatches`: `Spec => CatalogIsAtomic`, the refinement of `AtomicCatalog`;
- `ViewsAreStored`: `Spec => []ActiveAreStored`.

Assumed is the typing of the constants (`ScanAssumption`).  The first invariant, `Typed`, adds to `TypeOK` what a
scan proposes (`Planned`): a record it read, available and of its project only, or the
catalog's record of a log that has gone, marked unavailable.  From that and the comparison of
`ApplyBatch`, `BatchInv` follows: the batch on disk is one its project may commit, so that the link
that makes it irrevocable is a step of the abstract catalog whoever replays it, and all
other steps before a commit change nothing a user of the catalog can see.  `ViewInv` says that a
view's chunks are stored, disjoint and cover what is active, and that a scan that is about to commit has
stored the chunks it adds.

`ApplyProofs` proves for any processes, proposals, sessions, edits and bounds:

- `TypeCorrect`: `Spec => []TypeOK`, with the locks a process holds at each step;
- `AppliesAtomically`: `Spec => ImplementsAtomicLedger`, the refinement of `AtomicLedger`;
- `EveryLineOnce`: `Spec => []OncePerLine`, what the order of `AtomicLedger` means for the
  files; no run checks it;
- `CursorAlwaysFollows`, `EditsAlwaysStay`: `CursorFollowsFiles`, `EditsStay`;
- `VaultAlwaysApplied`, `VaultKeeps`: `VaultShowsApplied`, `VaultNeverForgets`, where applies and syncs
  exclude each other (`SharedLock`, as on Unix).

Assumed is the typing of the constants and that a proposal's boundaries are in order
(`ApplyAssumption`).  The invariant `InOrder` says that an unfinished proposal is alone in the
project, that its session has not moved since, and that who is about to make a receipt found no
unfinished one; the lock on the root makes the last survive to the write.  From it the steps
that write receipts and cursors map to `Begin` and `Accept`, and all others to stutters.
`Made` says which proposals files, merge bases, receipts and the snapshot of a sync may hold, and
`Separate` that no two receipts are for the same lines, so `OncePerLine` follows.  The vault needs
`Accounted`: bases and vault hold applied proposals only, and what a running sync still has to
write holds what it read, since no apply runs beside it; `TrustedBy` adds that a chain of
receipts leads only to applied proposals and loses none.

`EntitySyncProofs` proves for any units, saves and faults:

- `TypeCorrect`: `Spec => []TypeOK`, with the one transaction file of each document or record;
- `BasesStayFinal`: `BasesAreFinal`;
- `SidesAlwaysAgree`: `Spec => []SidesAgree`;
- `EditsAlwaysKept`: `Spec => []EditsKept`, if none of "replace", "create" and "align" is in
  `Counted`, as in the run: the code violates it with any of them;
- `SyncsAtomically`: `Spec => ImplementsAtomicSync`, the refinement of `AtomicSync`.

Assumed besides are that the two documents differ and that neither an absent file nor the
ledger's name is a text or a conflict record (`SyncAssumption`).  None of the properties is
inductive.  Five invariants are:

- `Inv`: the texts and files there may be (`World`, `Files`) and what the engine knows at each place
  (`Engaged`).  A planned text raises the revision of the merge base it was made from (`Raises`), a
  commit compares the base with the plan's, and beside a resolution only the document it decides is
  on its way (`Decides`), with both records open until that document is the merge base.
  `BasesAreFinal` follows.  What recovery saw of a document is still true of it when its turn
  comes (`Looking`), since the recovery of one document writes no other.
- `AgreeInv`, of a run of Reconcile that nobody disturbed: the documents before the present one
  agree with their merge bases unless the report is bad, the ones to come are as the scan saw them
  (`Stepping`), and the ledgers are as read (`Ledgers`), so that what is published names the bases.
- `Mirrored`: a record that one side lacks has its transaction file.  `SidesAgree` follows from
  these two.
- `KeepInv`, for the edits: a text with the revision of the merge base has each of its held edits
  in the same unit (`Rooted`), so that the three-way merge of such texts keeps the edits of all
  three (`MergeKeeps`).  A text on its way has the held edits of all that its plan saw, and of
  any text at its revision (`Careful`); what is replaced is what the plan saw, or its loss is
  forgiven (`Carrying`).  A text that a person makes from the file, the merge base or the other
  side keeps what that one kept (`Heir`).  A side never passes the merge base of a document that
  was merged (`Level`), so that the alignment lifts a text above all others unless it was put back.
- `PactInv`, for the refinement: the merge base of an announced change is the one it saw or its text
  (`Fitting`), so that a commit is an `Accept` and a change given up is forgotten; the vault has
  no record that the project lacks (`ProjectFirst`); a record still to be written is about the present
  merge base, with no change of its document pending (`Opening`), since a run that met a conflict
  has not yet written that document; and whoever closes a record found it open and has no
  document pending (`Holding`).

TLC checked them on one unit with three saves and on two units with two saves, and
`KeepInv` by simulation with seven saves, before they were proved.  `PactInv` it checked with two faults,
since a crash in a recovery is what could leave two files that do not fit.  The proof attempt is what
showed the last case of the alignment above, which no instance of the run's size reaches.

Liveness under fairness (`JobsEnd`, `Settles`, `Resumes` and the others) is only model-checked: it
needs `ENABLED`, which is beyond the prover.

## Not modelled, and the plan

Every safety property of the runs and every refinement is proved by now.  Left, in this order:

1. Retention on top of `MemoryStore`: the snapshot, its revalidation and the removal of
   unreachable objects.  No command calls it at this commit, so no process can meet it.
2. The confirmation of decisions, which is the protocol of `ProblemMap` over a second file
   (`candidatepublication` is shared), and annotations.
3. The version-3 vault leg of `Publication` (queue and entity bases) and the renames,
   archives and version-1 documents of `EntitySync`.

Out of reach or not worth a model: parsing and rendering of Markdown and session logs,
validation of proposals and stored records, redaction, pricing tables, path validation, format
migrations (pure builders whose publication is the `generation` kind), the CLI's argument
handling and the plugin's views.  They are sequential functions of one input, covered by unit tests,
and they are most of the code: the models stand for roughly a tenth of its lines, and for
most of the lines that take a lock, write a shared file or start a process.
