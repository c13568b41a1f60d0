# A verification project for ikm

`ikm` is a toolset for agents and people that edit content for the IKEMEN
fighting-game engine: it parses definition and state files, analyses them,
serves the results over a command line, LSP and MCP, keeps a disposable index
cache, and applies edits to several files at once. This directory holds TLA+
models of the parts of it where order, concurrency and failure matter, the TLC
configurations that check them, and proofs for TLAPS. Paths below are relative
to the root of the repository (`src/`).

`PROJECT.json` lists the components, the runs, the hazards, the mapping from each
TLA+ definition to the lines of Go it stands for, and the theorems.

## 1. Inventory

| Component | State | Operations | Hard behaviour |
|---|---|---|---|
| `internal/patch` | workspace files, `*.ikm-backup`, `.ikm-patch-journal.json`, temporaries | `PreviewPatch`, `ApplyAtomic`, `Recover`, `ApplyPatch` | crash between two calls, a failing call, a failing rollback, another writer, two appliers |
| `internal/service` | cached documents, results per definition, reverse dependencies, running calls | `Analyze` | concurrent and superseded calls, files that change at any time, cancellation |
| `internal/cache` | `writer.lock`, `index.sqlite`, `identity.json` | `Open`, `Close`, quarantine | several processes, crash, cancellation, a damaged database |
| `internal/mutation` | preview tokens | `Issue`, `Consume`, `Apply` | single use, files that change between preview and apply |
| `internal/mcp` | write permission, root, the batch under way | the methods and tools of a request | batches of requests, notifications and rubbish; refusals that must change nothing |
| `internal/workspace` (session) | current snapshot, generation, running scan | `Scan`, `Snapshot` | a slow scan that ends after a newer one |
| `internal/workspace` (loading, discovery, startup manifest, config) | none kept | `LoadWorkspaceWithProfile`, `Discover`, `resolveStartupManifest`, `ResolveConfig` | limits, cycles, symlinks, map order |
| `internal/repository` | SQLite tables, snapshots | store and delete a document, queries by page, invalidation | transactions on error paths, page cursors |
| `internal/operations` | none kept | query facade, `paginate` | cursors across snapshots |
| `internal/lsp` | open documents under several keys | open, change, close, references, diagnostics | alias keys |
| `internal/parser`, `internal/syntax`, `internal/document` | the controller being read | `FromSyntax` | lines that belong together and come in any order |
| `internal/semantics` | none kept | `Resolve` | scopes that depend on every document |
| `internal/expr` | none kept | `Parse`, `Evaluate` | precedence, wrap-around, inputs that are not known |
| `internal/index`, `internal/corpus` | none kept | `Export`, `BuildManifest` | matching by ids that coincide, sources named twice |
| `internal/profile`, `internal/capability`, `internal/compat`, `internal/ecosystem` | tables | lookups, layered settings | precedence |
| `internal/oracle`, `internal/trace` | none kept | run the engine, read its trace, `Compare` | external program; documents of different shape |
| `cmd/ikm` | none kept | commands, `writeTextToFile` | a crash while an output is replaced |

How they interact. `cmd/ikm` and `internal/mcp` call `mutation.Service`, which asks
the `Authorizer` for the plan of a token and calls `patch.ApplyAtomic`; a later
`ikm` command calls `patch.Recover` on the same root. `cmd/ikm`, `internal/lsp` and
`internal/operations` read through `internal/workspace`; `service.Coordinator` loads a
workspace and keeps its analysis. `internal/cache` guards the database that
`internal/repository` opens. Processes share nothing but the file system.

What makes each correct:

* patch: all planned files change or none; no file is ever lost; a failed apply
  restores; a crash followed by `Recover` gives the old or the new workspace.
* coordinator: a result is never older than the call that returns it; a change
  that was seen invalidates every result computed from the file.
* cache: one writer; the lock is given up on every path; an opened cache holds
  nothing built for another identity; a complete index is only replaced by a
  process of another identity; `Open` returns.
* mutation: the plan that is applied is the plan that was previewed, in the
  authorised root, at most once for each token.
* MCP: every request of a batch is answered once and in order; nothing is written
  unless permitted, and a call that fails leaves files and documents alone.
* LSP: answers come from the newest text of the document asked for; the requests
  agree with each other.
* session: the current snapshot is never replaced by an older scan.
* repository: what readers see of a document is one whole snapshot; dependents of a
  change are found exactly.
* queries: following the cursors returns every row exactly once and ends.
* manifest, discovery and loading: what is reached is listed, an edit is noticed by the
  snapshot id, a source is counted once.
* output: an input is never overwritten, an output is one whole text.
* pure functions: the parsers, the evaluator, the comparison and the edits of a file
  do what a shorter reference definition says.

## 2. Modules

| Module | What it is |
|---|---|
| `AtomicPatch` | abstract: the planned files take the planned content in one step, or nothing changes |
| `PatchApply` | `ApplyAtomic` and `Recover`, one action per file-system call; refines `AtomicPatch` |
| `PatchConcurrent` | two processes running `PatchApply` on one workspace |
| `PatchApplyProofs` | theorems about `PatchApply`, the refinement among them |
| `Coordinator`, `MCCoordinator`, `CoordinatorProofs` | the analysis cache, one action per critical section or file access, and its theorems |
| `CacheLifecycle`, `CacheLifecycleProofs` | processes that open and close the index cache, and its theorems |
| `Semantics` | the resolver of references, as operators |
| `LspDocuments` | the language server's documents and its queries over `Semantics` |
| `Mutation` | tokens and the files they allow to write |
| `McpServer` | the MCP server over `LspDocuments` and `Mutation` |
| `ServerProofs` | theorems about the documents and the MCP server |
| `MCServer` | both servers with their clients and the other programs, a scene of `MCComponents` |
| `SnapshotStore` | transactions of the repository |
| `Paging` | clients that follow cursors |
| `Dependents` | the search for dependents |
| `RepositoryProofs` | theorems about the three modules above |
| `WorkspaceSession` | superseding scans |
| `Discovery`, `StartupManifest`, `SourceLoading` | what a scan lists, what the game loads, what a definition and a corpus load |
| `OutputFile` | commands that replace one output file |
| `WorkspaceProofs` | theorems about the session, the manifest, discovery and the output |
| `SourceParser` | the parser, fed line by line, and the export of its references, in the resolver's order |
| `MCExport` | `SourceParser` over files of one controller, for the run `ExportedKeys` |
| `SourceProofs` | theorems about `SourceLoading` and `SourceParser` |
| `Evaluator` | the evaluator of expressions, one action per kind of node, for what is known now and later |
| `TextEdits` | the edits of one file, one action per edit made |
| `RuntimeOracle` | the comparison of two snapshots, one action per path compared |
| `TextProofs` | theorems about `Evaluator`, `TextEdits` and `RuntimeOracle` |
| `Expressions` | the parser of expressions with its reference definition |
| `MCComponents` | the components, the cache and the servers, one at a time, for TLC |

### Patch transactions (`internal/patch/patch.go`)

`disk`, `backup` and `journal` are the files of the workspace, the
`.ikm-backup` beside each, and `.ikm-patch-journal.json`. A file's content is a
version number: every plan and every foreign edit writes a version never used
before, so equal versions mean equal bytes and a content hash is a version.
`held` is the loop variable: the backups taken so far while applying, those
still to remove while cleaning up, those still to restore in `rollback` and in
`Recover`. `prepare` sorts the files by path, so files are `1 .. N`
and the next file is the least one that is not held.

`MakePlan` is `PreviewPatch` (the plan may come from a file made earlier by another
command); `Prepare`/`Refuse` are the hash check of `prepare`, one step because it writes
nothing and a foreign edit before or after it has the same effects;
`JournalTruncate` and `JournalWrite` are the two halves of `os.WriteFile`;
`Stage` is everything up to `Chmod` on the temporary, which nobody else sees;
then `ClearBackup`, `Backup`, the journal again, `Replace`. `Cleanup` and `Finish` are the
removals after the loop. `UndoRemove` and `UndoRename` are the two calls of `rollback`,
each of which may fail unnoticed. `RecoverRead` to `RecoverFails` are `Recover`.

`Faults` says what may go wrong: a crash between any two calls, a failing call on
the way (`io`), in `rollback` and `Recover` (`undo`) or in the cleanup, and a save by
another program (`edit`). `Recover` takes every error of `os.Stat` for a backup that is not
there, and passes the file over: `RecoverSkip` skips a backup that exists where `undo` is
among the faults. `crashedAt`, `touched` and `passed` are history variables: where the last
apply died, which files another program wrote since the plan, and whose backups the last
`Recover` passed over.

Left out: the phase and root fields of the journal (written, never read), file
modes, `ApplyPatch` (no journal, not used by the commands), the failure of
`os.Remove` on an older backup (the rename replaces it anyway), and a torn
journal that happens to parse.

### Analysis coordinator (`internal/service/service.go`)

The maps of `Coordinator` are `documents`, `roots`, `dependents` and `inFlight`; `call[c]`
holds the locals of a call of `Analyze`. `Begin` and `End` are the methods of that name;
`Lookup`, `Hit` and `MarkInvalid` are the sections of `hit`; `LoadRoot` and
`LoadFile` are the reads of `workspace.LoadWorkspaceWithProfile`; `Loaded`, the snapshots
and `Store` are `analyze`. `snapshot` is four actions: `Stat`, `Look` at the cache, `Read`,
`Put`, and then `Invalidate`. A result is abstracted to the bytes it was computed from:
semantics is a function of these.

The version of a file stands for its hash and for its size and time. Two writes of one size
within the grain of the file system's clock are not told apart by the code, which is a limit
of the operating system and left out. What a definition refers to is fixed by `Refs`: the
branch that follows `select.def` and the startup manifest is not modelled. `LoadRoot` and
`LoadFile` may fail on a file that is there (`Found`), and what they then leave out of a
result is cached like what is missing. `misread` is a history variable: the files whose last
snapshot failed while they were there. A file that is removed after such a read invalidates
nothing, because the failed record has no hash to compare (`snapshot`), and
`SeenChangesInvalidate` names that exception.

`Faults` separates the situations: with errors of the snapshots (`read`) and with `cancel`
everything promised holds. With `load`, where the loader fails to read a file, and `create`,
where a missing file appears, results may lack a document that is there now, and with
`during`, where files change while a call runs, they may be old.

### Index cache (`internal/cache/cache.go`)

`lock`, `db` and `name` are `writer.lock`, `index.sqlite` and `identity.json`. `db` holds the
identity the index in it was built for; `name` the one `identity.json` names, or `torn`
between the truncation and the write. `TakeLock` is the `O_EXCL` creation;
`OpenDatabase` opens SQLite and migrates; `IdentityDiffers` is the comparison that leads to
`quarantine` (`MoveDatabase`, `Unlock`) and to the recursive call, which starts again
without the lock (`again`). Every call that writes, renames or removes may fail (`io`); those
of `quarantine` and the removal of the lock do so unnoticed. `Open` compares only an
`identity.json` that it could read, so that where it cannot (`read`) it goes on as if there was
none (`NotDiffering`). `orphaned` and `unread` are history variables: a lock file was left by a
process that died or could not remove it, and an `identity.json` was written over unread.
`Save` stands for the index writers, which live outside
this package. The name of a quarantined file has a time stamp; quarantined files
are not tracked.

### Servers (`internal/lsp`, `internal/mcp`, `internal/mutation`, `internal/semantics`)

`docs` is the map of `lsp.Server`: one document under its path as spelled, the cleaned path
and the URI made from the path. A path is a list of directories with a name, so that `.`
steps and packages are real; a text is what the parser finds in it. `SetDocument` and
`DidClose` are the assignments and deletions; `Request` stores the text that a request may
carry; `DocumentAt` is the lookup by URI, then by path. The slash forms of a path are equal
on the systems the paths are spelled for. `Resolution` is the loop over references in
`Resolve`, with `Targets` the closure of that name. Two collections of documents are kept
apart because the code does so: `DiagnosedWorkspace` has another document once for each key,
`QueriedWorkspace` once for each path. `IDOf` is the id of a reference, made of its kind,
line, occurrence and the cleaned path: two open spellings of one file share ids. The
requests look for their reference by this id among the resolutions of all documents, where
hover takes the last and the others the first (`Namesakes`, `HoveredID`, `TargetID`).
`eclipsed` is a history variable of `LspDocuments`: the paths another spelling of which was
given or closed since they were opened.

`Mutation` keeps one disk for each root. A token is the hash of its plan, so the plan stands
for it. `Issue` and `Consume` are the methods of `Authorizer`; `Consume` comes first in
`Apply`. The transaction that follows is two actions of each applier, the server and the
command: `Check` is `prepare`, which reads the files and compares their hashes, and
`WriteFiles` replaces them, whatever another program saved in between, by the promise proved
as `Refinement` in `PatchApplyProofs`: all edits or none. `GiveUp` is a transaction that
failed and restored. `beside` is a history variable: the files others wrote since the
server's transaction looked at them.

`McpServer` handles the items of a frame one by one. `Turned` are the items that never
reach a method; each method and tool is an action. The requests of a batch run
one after another, and other programs may write between any two of them. `patch_apply` is two
actions, `PatchApply` up to the check and `PatchWrite` with the answer; any other action answers
in its own step, because nothing can see the state in between.

### Repository (`internal/repository`)

A transaction is a list of steps, one for each table, and a copy of the database on which
`Execute` works. A step may fail (`RollBack`), a failed deletion keeps its transaction open
(`Abandon`), and a process may end (`Restart`). Foreign keys are enforced on one connection
of the pool, so each transaction chooses. A row is the path it carries, its id and the
version it is from: symbols, references and diagnostics name their own document, which need
not be the one they are stored with (`RowsOf`), and their keys may collide with rows that
are there (`Violates`). `lent` is a history variable: the rows that a document's snapshot
wrote under the path of another. `Paging` keeps the rows of a list fixed while a client
reads its pages. `Dependents` is the work list, whose order is left open.

### Workspace (`internal/workspace`)

`WorkspaceSession` splits `Scan` at its locks: `Start`, `Look`, `Store`. `StartupManifest`
is the depth-first walk with an explicit stack; maps are read in any order. `Discovery` says
what a tree gives: a file that cannot be looked at is not listed, and one that cannot be
read is listed without a hash (`access`). `SourceLoading` has one action for each turn of a
loop: `LoadReference` and `LoadStartupFile` are the two loops of `LoadWorkspaceWithProfile`
(`load` holds its result, its `seen` and the loop variable), `EnterSource` and `CountSource`
are the halves of the loop of `BuildManifest` before and after it calls that function
(`corpus`). `entries` grows as the select file is read, so that a behaviour is a run over
any list of entries.

### Output (`cmd/ikm/main.go`)

`OutputFile` has one action for each call of `writeTextToFile` and the check of
`runIndex` and `runCorpus` before it. `alias` says which input the output path names: one that
the command line or the select file names, one that a definition loads, or one under another
name; `Protected` is what each command refuses, which for `ikm corpus` (`rosters`) leaves out
the files that the definitions load. Creation of the directory is left out.

### Pure algorithms

`SourceParser` has one action for each turn of a loop: `FromSyntax(t)` feeds a line of a known
kind to `document`, the state of that function, and keeps the lines read in `syntax`;
`ResolveReference(i)` is a turn of the loop in `resolveReferenceRows`, with `export.used` the
map of keys that were used. The resolver gives each reference once; the model lets it
choose any order, and so the order of the code's resolver need not be known. Files and
rows can be of any length in the theorems; the run bounds them.

`Evaluator` is `Evaluate` of `expr.go`, with integers of a width given by `Half`. The code
descends into the arguments of a node and then decides from their results alone, so an
evaluation is the sequence of the nodes it returns from: each `Evaluate...` action takes the
results of the arguments from the stack `results` and leaves its own (an argument that the
code does not look at is evaluated all the same, which changes nothing, since `Evaluate` has
no effects). Every expression is such a sequence. It is evaluated twice side by side, with
the inputs `known.now` and with `known.later`, which has all of them and maybe more.

`TextEdits` is what `prepare` does with the edits of one file, over bytes: they are
collected (`Collect`), refused or sorted (`Refuse`, `Sort`), compared with their neighbours
(`RefuseOverlap`) and made from the last to the first (`Replace`, a turn of the loop with
`left` for its index). `text` keeps for each byte where it comes from, so that the
properties can tell equal bytes apart.

`Expressions` has the parser of `expr.go` with one operator for its six levels, which differ
in their operators alone. `RuntimeOracle` is `diffJSONValues` after `normalizeJSON`:
a snapshot says what stands at each of its paths, and `pending` has the paths that are still to
be compared. A report has the place of a value, not its text: `jsonPointer` writes the key
`a.b` and the key `b` below `a` alike, so that two reports may read the same although the places
differ. The code compares depth first and by sorted keys, the model in any order, so that
what is shown does not rest on the order. Each module states what the result must be in terms
that do not follow the code: which lines count, the tree that was printed, the bytes between
the edits, the differences of two snapshots.

## 3. Runs

| Run | Checks | Bounds | Result |
|---|---|---|---|
| `PatchFaults` | `TypeOK`, `NoFileLost`, `OriginalsRetained`, `FailedRestores`, `AppliedCompletely`, `RecoverRestores` | 3 files, 3 versions, all faults | hold, 2.2 million states |
| `PatchAtomic` | `AllOrNothing`, `Returns` | 3 files, 2 versions, `io` | hold |
| `PatchMixture` | `RecoveredPreOrPost` | 2 files, 1 plan, `crash` | violated |
| `PatchConcurrent` | `Serialized` | 2 processes, 2 files, a plan each | violated |
| `CoordinatorCalls` | `TypeOK`, `DocumentsFresh`, `SeenChangesInvalidate` | 2 calls, 2 definitions, 1 shared file, 1 change, `load`, `read` and `cancel` | hold, 3.6 million states |
| `CoordinatorRace` | `ServedFresh` | with `during` | violated |
| `CoordinatorCreate` | `ServedFresh` | with `create` and `load`, 2 changes | violated |
| `CacheCancel` | `CompleteKept` | `cancel` | violated |
| `CacheRebuild` | `OpenReturns` | 1 process, no fault | violated |
| `DiagnosticsPaging` | `DiagnosticsOnce` | lists of up to 6 rows, every limit | violated |
| `ExportedKeys` | `KeysDistinct` | one controller, a trigger of three commands | violated |
| `Components` | by scene, see below | see below | hold, 831,000 states |

The properties of `Components`, by the scene they are about:

| Scene | Properties |
|---|---|
| store | `CommittedWhole`, `OwnEdgesKept` |
| paging, dependents | `EveryRowOnce`, `PagesMoveForward`, `ExactlyDependents`, `SearchEnds` |
| session, discovery, manifest, loading | `NewestScanKept`, `SnapshotNotices`, `ManifestComplete`, `CountsSourcesOnce` |
| output | `OutputWhole` |
| cache | `TypeOK`, `OneWriter`, `LockReleased`, `OwnIndex` |
| server | `AnswersOpenText`, `QueriesAgree`, `DiagnosticsAgree`, `AnsweredInOrder`, `OneWritePerPreview`, `ServerWritesPlanned`, `FailuresChangeNothing` |
| parser | `FindsStateChanges`, `ExportsEach`, `KeysShared` |
| expression, evaluation, oracle, edits | `ExpressionsRead`, `VerdictsFinal`, `DifferencesFound`, `PatchedAsWritten` |

Why the bounds suffice. Three files give a first, a middle and a last file of
the loop, files before and after the failing one, and a file outside the plan;
three versions give a plan, a foreign edit and a second plan over the leftovers
of the first. Two definitions with a shared file are the least for an invalidation that
has to reach a result another call computed; two calls are enough to supersede
one another. `FewFailures` bounds what has failed at a time in `CoordinatorCalls`: one file whose
snapshot failed, or one result that leaves out a file that is there; the theorems have no such
bound.

`Components`. Behaviours of different components do not meet, so each state has one scene,
and `scene` never changes. Two documents with two versions, whose edges and whose rows name
each other, with keys that collide; lists of up to 6 rows with every limit and budget; all
graphs of 3 documents and all sets of changes; 3 scans; all references among 3 definitions
with the depth limit at 1 (64 in the code: the limit must be met); 2 commands, each of which
may be `ikm corpus`; trees of 4 paths with budgets of 1 to 3, readable or not; 5 lines of a
source out of 10 or of 8 kinds, and its references in their order and in the reverse; trees
of expressions with 2 operations around a leaf, enough for every pair of levels; expressions
whose evaluation has up to 3 results waiting, with no, some and all inputs and integers of
three bits; pairs out of a few snapshots two levels deep, with maps, lists of different
lengths and two numbers that are read as one; 4 entries of a corpus over 6 sources, two of
them with a startup manifest; up to 3 edits in texts of 2 to 4 bytes, enough for an overlap
between edits that are not neighbours in the plan.

In the scene of the cache, two processes,
the least that compete, and two identities, the least that differ, with all faults. In that
of the servers, five paths give two spellings of one file, a definition file that makes a
package, a second character and a common file; two texts give definitions and uses, the two
with references that share an id and differ in their target. `client` chooses the editor or
the agent: the editor's steps touch the documents only, the agent's the disk and, through
the text a query may carry, one document, and the properties that relate both are about
single steps. Two plans for two roots, of two files and of one, with two previews and
batches of up to three items, give a token that is armed twice, one that is used in another
root, and one that is stale; other programs save files,
and `ikm patch apply` writes in the second root, before and between the two actions of an
application.

`CHECK_DEADLOCK FALSE` everywhere: the bounds on versions stop the environment, a
torn journal stops `Recover` for good, the lock of a dead process stops the cache,
and a list, a walk or a command comes to its end.

Every property of a passing run has a mutant in the module it is about (the
operators marked `Mutant:`), a plausible bug that breaks it.

### What the violated runs show

* `PatchMixture`. `ApplyAtomic` renames a file to its backup *before* the journal
  names the backup, and after the loop removes backups one at a time *before* the
  journal. A crash in either place and a successful `Recover` leave neither the old
  nor the new workspace (the issue on adversarial testing, 50, step 3, says never).
  `RecoverRestores` states what does hold: a crash at any other point is undone
  completely, but for a file whose backup `Recover` could not look at.
* `PatchConcurrent`. Nothing keeps two applies apart (issue 50, line 18).
* `CoordinatorRace`. `analyze` reads the files twice, first to analyse and then to
  hash; a save in between leaves the old result cached as valid (issue 12).
* `CoordinatorCreate`. A file that was missing, or that the loader could not read, is not
  recorded as a dependency (issue 18, which names both). `DocumentsFresh` states what does hold
  then: no document of a result is older than the call.
* `CacheCancel`. A cancelled context makes `Open` quarantine a good database (issue 16).
* `CacheRebuild`. `quarantine` leaves `identity.json`, so `Open` recurses for ever (issue 16).
* `DiagnosticsPaging`. `QueryDiagnostics` takes the length of the page for the next offset, so the
  second page comes again and again (issues 19 and 21: without omissions or duplicates).
* `ExportedKeys`. A trigger that names one command twice is exported as two plain `INSERT`
  statements with one primary key, and `sqlite3` refuses the second (the comment of `Export`).
  `KeysShared` states that this is the only way.

Three more sentences of the documents do not agree with the code. The models show each, as an
exception that a property names; they have no run of their own:

* `docs/CLI.md` line 23, "Output paths may not alias a loaded source file": `runCorpus` protects the
  select file and the definition of each entry, and not the state and command files these load
  (`main.go` 312-318), so `OutputWhole` excepts them (`Protected`).
* `docs/CLI.md` line 17, which says that the output is written atomically: `writeTextToFile`
  removes the old output before it renames the new one (`main.go` 375), and `OutputWhole`
  excepts what happens between the two.
* Issue 49 line 18, "Apply requires a short-lived plan token bound to server instance, workspace
  identity, plan hash, and current snapshot": the token is a hash of the plan alone, and a server
  that was started without a root writes the plan under whichever root the client names.
  `ServerWritesPlanned` says which root that may be, and which files it may overwrite.

### Fairness

`PatchApply`: weak fairness of `ApplyStep \/ RecoverStep`: a command that runs goes on
to its next call, nobody has to start one. `CacheLifecycle`: weak fairness of `CacheStep(p)`, a
process inside `Open` or `Close` is not stopped by the scheduler. Both are the
scheduling of a Go program whose system calls return. `Coordinator` states no liveness.
`Dependents`: weak fairness of `Visit`, a loop in one function that nothing interrupts.
The other modules state no liveness: their clients need not go on.

### What the passing runs say that one may not expect

Some properties hold only in a form that names an exception; the exceptions are
behaviours of the code, and the model has them:

* `RecoverRestores`: `Recover` reports success over a backup that it could not stat; the
  old bytes are then in that backup.
* `DocumentsFresh`: a result may leave out a file that appeared, or can be read, since it
  was cached.
* `OwnIndex`, `LockReleased`: an `identity.json` that cannot be read is written over and its index
  kept; a lock file that cannot be removed stays.
* `AnswersOpenText`: closing or giving another spelling of a path takes away the keys the spellings
  share, so that the open document is not found by its bare path or an escaped URI.
* `QueriesAgree`: with two spellings of one file open, a request may answer from the other text.
* `DiagnosticsAgree`: the diagnostics request calls a target in another document
  ambiguous that the definition request finds, because it collects that document once
  for each of its keys.
* `EveryRowOnce`, `PagesMoveForward`: only the command line's lists can be followed under
  every limit. The repository's diagnostics come again from the second page on (the run
  `DiagnosticsPaging`), and its symbols are passed over when a query visits more than it returns.
* `CommittedWhole`: what is read stays whole, but a deletion that fails keeps the write lock
    until the process ends (`abandoned`); and rows that a snapshot wrote under the path of another
  document stay beside that document's own (`lent`).
* `OwnEdgesKept`: deleting a document removes the edges of others that lead to it, and they
  come back only when those others are stored again.
* `NewestScanKept`: a scan that is superseded after it looked stores its older snapshot over
  the newer one.
* `ManifestComplete`: where the depth limit is met, files may be lost, and which ones
  depends on the order of a map.
* `OutputWhole`: `ikm corpus` overwrites an input that only a definition names; between the
  removal and the rename there is no output, and a command that fails or dies there leaves
  none.
* `ServerWritesPlanned`: the snapshot that a client repeats in `patch_apply` decides
  nothing; with no root given at the start, the client's root decides where the plan is
  written; and a file that another program saves between the hash check and the rename is
  overwritten.
* `SnapshotNotices`: an edit that keeps the size of a file above the byte limit, or of one
  that could not be read, is not noticed, nor is one of a file that could not be looked at.
* `KeysShared`: a command named twice on one trigger line gives two rows with one
  primary key.
* `CountsSourcesOnce`: a document that the startup manifest names again is held twice by its
  workspace, and its errors are counted twice.

## 4. Proofs

Every theorem is `Spec => []P` (or `Spec => [][A]_vars`) for all values of the
constants, from an inductive invariant; the exceptions are named below. The tables of
`PROJECT.json` list them; this section says along which argument each goes.

**Patch** (`PatchApplyProofs`). Every invariant of `PatchFaults`, for any
number of files, versions and faults. None of them is inductive: a file may be
absent at its path exactly while its backup exists, and whether the backup holds the
right bytes depends on how far the loop is. The invariant `Inv` says for each point of
`ApplyAtomic`, of `rollback` and of `Recover` where the bytes of each planned file are, in
parts named for the property they serve, and one lemma for each part shows that
every action keeps it. Nothing is assumed about which faults can happen.
`Refinement` proves `AllOrNothing`, that `PatchApply` implements `AtomicPatch` when
only forward calls fail (`OnlyForwardFaults`); the mapping shows a running apply as the
workspace a rollback would restore, so that only the last `Replace` is the commit.

**Coordinator** (`CoordinatorProofs`). `TypeCorrect` has no condition: a call under way has
a root, and a file while it takes a snapshot (`PlaceInv`). `ChangesInvalidate` assumes that
files change only between calls, and so does `ResultsAreFresh`, that no document of a result
is old; `ResultsAreComplete`, that none is left out either (`ServedFresh`), also that no
file is created and the loader can read every file. What happens otherwise are the
counterexamples `CoordinatorRace` and `CoordinatorCreate`, so these conditions cannot be
dropped. Snapshots may fail and calls be cancelled or superseded at any point. `CacheInv`
relates four things: the newest snapshots to each other (`DocumentInv`: a good record's
stamp is that of its hash), the entries to the snapshots (`EntryInv`: a valid entry's hashes
agree with the newest snapshots *or some call stands right before the invalidation that will
reach it*, which is what makes any interleaving of `Put` and `Invalidate` sound), each call
to the files (`SnapshotInv`, `LoadInv`, `HashInv`: what was collected so far is what the
files hold) and a call that verifies to the entry it looked up (`VerifyInv`: the entry is
still the one looked up, or a newer one whose hashes are current, which is why `hit` may
read it again). Completeness adds `StillMissing`: what a valid result misses is missing
still.

**Cache** (`CacheLifecycleProofs`). Types and the three safety properties for any number of
processes and identities and all faults. Mutual exclusion needs that a holder
implies the lock file (also while quarantined), and `OwnIndex` needs that the
database is empty or built for what `identity.json` names from the comparison on, unless an
`identity.json` was written over unread.

**MCP server** (`ServerProofs`). For any calls, metadata, plans, roots and frames: a plan is
written at most as often as it was previewed; each write is the whole of a token's plan
under the root the server serves, if any, and a file it overwrites is as the plan expects or
was saved by another program after the check; answers stand in the order of their requests,
none missing or spare (`AnsweredInOrder`); a request that is not answered with a result
leaves files and documents alone, and of the tokens uses up at most the one of an apply that
was let through and then failed (`FailuresChangeNothing`). The first counts the armed token
as a write still to come, which makes it inductive with the types of the counts. The second
needs what the inbox can hold (`InboxTyped`), because the plan that is applied is the
token's and not the request's. The third needs that the items still in the inbox are those
after the place reached.

**Language server** (`ServerProofs`). `OpenTextAnswers` for any paths, texts and order
of requests: that a key holds nothing closed needs that every key that holds a
document is one of the aliases of the path it was opened under, and that its path is open
(`DocumentsInvariant`).  The two properties of the queries follow from that invariant in each
state. `Collected` says what the two collections have in common: the same documents, of
which the queried one has each once, since all keys that hold a path hold the same text.
Whether a definition is in scope of a reference depends on its path, its symbol and the
set of documents only (`Admits`, `SameScope`), so both collections admit the same
definitions and differ in copies alone (`CopyOf`): `DiagnosticsAreConsistent`.
`QueriesAreConsistent` needs that the first of the targets is one of them
(`FirstIsTarget`, a least element of their ranks and lines), and that only a document of the
same cleaned path has a reference of the same id.

**Repository** (`RepositoryProofs`). `SnapshotsAreWhole` and `DependenciesAreKept` hold for
any documents, versions and edges, with foreign keys on or off for each transaction and
failures anywhere. The invariant `TxInv` relates the copy a transaction works on to the
statements it still has to execute: an own row that is not there yet has its statement left,
and any other under the path was lent (`RowsInv`), an own edge is there or its statement is
left, and edges of others disappear only with their target (`EdgesInv`); the document's
statement comes before those of its rows and edges, since it cascades (`StepFits`). Whole
snapshots are committed because nothing is left then. `PagesAreComplete` and `PagesMove`, of
the symbols, hold for lists, limits and budgets of any size: what was received are the first
rows up to the cursor (`PagedInv`), each page brings a row and so their number is bounded,
and symbols come from before the cursor (`MovingInv`). `DependentsExact` holds for any
graph, finite or not: at any moment what is seen or waiting contains every dependent of what
is seen, and lies within every closed set around the changed documents.

**Workspace** (`WorkspaceProofs`). `ManifestIsComplete` for any finite set of files that name each
other in any way. The stack holds no file twice and its depth is its height, so it
holds as many definition files as it is deep; where all reached ones fit under the limit,
a walk that would meet it would hold one more than there are (`Shallow`, with the
cardinality theorems of the library), hence every listed definition is walked; what is walked
has all its references listed or pending on the stack (`ListedInv`). `EditsAreNoticed` is
about two trees that differ in one path, of any size and for any active files and budget:
the formula `EditNoticed` of the run `Components`, whose invariant `SnapshotNotices` evaluates it on
small trees. `SessionKeepsNewest` for any number of scans: a scan that is
neither cancelled nor done is the registered one and the last that started, as long as no
scan was overtaken. `OutputStaysWhole` for any number of commands, from an invariant that
says for each step of a command what the temporary and the output hold.

**Sources** (`SourceProofs`). Three results about loops, for any number of turns.
`SourcesCountOnce`: while a workspace is loaded, its error count is the size of the set of
errors of the steps behind it (`CountedInv`, `ErrorsBefore`): each step adds a set that is
disjoint from it, because a reference is passed over when it was seen and startup files are
counted by their place. The documents split into those from references, one each, and those
from the manifest (`DocumentsInv`), and the corpus has counted all sources but the one that
is being loaded (`CorpusInv`); when a source is done its errors are all its complaints
(`AllErrorsFound`). `StateChangesFound`: what the parser remembers is described by the lines
alone. `Open` is the controller that no header closed, `ChangeInForce` says that its last
type is a state change, `Waits` that a value is still to get its type; `ControllerInv` says
that the parser's type and pending value are these, and `StatesInv` that the references so
far are the values that count so far. Whether an earlier value counts may change with a
later type, and with no other line: the lemmas `FeedType`, `FeedValue`, `FeedTrigger`,
`FeedHeader` and `FeedPasses` say what each kind of line does to the state, and
`ChangesKept`, `LastValue` and `TypeAndValue` what it does to the set `StateChanges`.
`ReferencesExported`: a reference's own id belongs to it alone (`IdsApart`, from `PlaceInv`:
the references of one kind and line differ in their occurrence), so it was used once exactly
if the reference was taken (`ExportInv`), and each resolution finds the reference it is
about; the fall-back to the line, which several references share, is never taken.
`KeysSharedOnOneLine`: a row is that of a parsed reference (`RowIsOwn`), and the keys of two
of them agree only where kind, place and target do.

**Evaluator, edits and snapshots** (`TextProofs`). `VerdictsAreFinal` for any expression,
width of the integers, literals and inputs. Each result on the stack that is not dynamic is
the same in both runs (`Stands`), and each action keeps that because its verdict on
arguments that stand does; a dynamic argument makes the verdict dynamic unless an argument
that stands decides alone. The types of the results (`EvaluatorType`) are part of the
invariant, since the operators branch on them.

`PatchesAsWritten` for any file and any number of edits. An edit is accepted exactly when it
is where it says (`AcceptedPlaced`), which takes that the code's way from line and column to
byte and the reader's way from byte to line and column agree (`ByteAtPlace`, from the counts
of newlines in `NewlineCounts`). The sorting leaves every edit in its order once
(`SortedOnto`), so that neighbours that do not overlap keep all edits apart (`Apart`). While
the edits are made, `TextInv` says that the text has exactly the bytes that the edits made
so far leave and write (`BytesOf`), each once and none before one that belongs in front of
it, and that up to `Border`, where the edits made so far begin, it is still the file: the
spans of the edits to come are where they were. `ReplacedBytes` and `ReplacedOrder` show
that one more edit keeps this; insertions at one place are in alphabetical order because the
sort compares their new text.

`DifferencesAreFound` for any two snapshots and any order of comparison. `DifferencesFound`
is not inductive: it says nothing of the paths still to be compared. `OracleInv` adds that
no pending path lies under another, or under a report unless that is of a length
(`PendingApart`), so that nothing is reported twice, and that each difference is reported,
or something above it is, or is pending (`AllCovered`), so that nothing is left out at the
end. Both rest on how paths begin with one another (`UnderBegins`, `ChildUnder`) and on
`Deeper`: what lies under a path lies under one of those just below it, because what is
above a path is a collection (`Tree`). A report (`ReportStep`) and a step without one
(`QuietStep`) keep the invariant.

Assumptions on constants are named in the modules that declare them, and TLC evaluates
them on the instances: model values that stand for nothing (`None`, `Nothing`, `Absent`,
`NoCursor`, `Gone`) are not members of the sets they are used beside; bounds are natural
numbers; `DefaultLimit` is positive (100 in the code); the files of a workspace are finitely many
and definition files are among them; lines of symbols are natural numbers and paths stand in
one order; a line has one of five kinds, no header is named by the value that stands for none,
and the value of a trigger line is a list of names; `Nobody` is no type of a controller; the files
of a startup manifest differ from each other, since the walk collects them in a map, and
errors are counted by natural numbers; texts are sequences of bytes, spans, lines and columns
are integers, and `NoPlace` is none; literals and inputs are integers, which stand for strings too;
what is above a path of a snapshot is a map or a list.

Some definitions were put into a form that can be reasoned about: `Reachable` is the least
set closed under the references and no longer an iteration, statements of a transaction are
given by their number (`UpsertStep`, `DeleteStep`), `Paging` keeps the rows received and no
longer the sequence of pages, and the loops of `SourceParser`, `SourceLoading` and
`TextEdits` and the recursion of `Evaluator` and `RuntimeOracle` are actions and no longer
recursive operators or folds: what a loop computes is then an invariant of its turns, where
induction over the data is out of reach. The runs check them as before.

Only model-checked, and why:

* `Returns`, `SearchEnds` (liveness under fairness) and of course the counterexamples.
* `ExpressionsRead`: the parser of expressions descends by RECURSIVE operators, of which the
  provers know nothing, and what they compute for every expression needs induction over it.
* `SnapshotNotices` as an invariant of the run; its content for an edit of one file is the theorem
  `EditsAreNoticed`.

## 5. Plan

1. Done: the patch transaction with its refinement and proofs; the coordinator, the cache,
   both servers over documents and tokens, the repository, the session, the manifest and the
   output, each with its proofs; the pure algorithms with their reference definitions.
2. Done: the loops of the parser, the export, the loaders, the evaluator, the edits and the
   comparison of snapshots as state machines, and their properties as theorems.
3. Open, proofs: an abstract store with one-step updates that `SnapshotStore` implements.
4. Open, models: the layers of the configuration against their documented precedence.

## 6. Not modelled, and why

* The splitting of texts into lines and tokens (`internal/syntax`, the lexer of
  `internal/expr`, the INI and JSON readers): text, tested and fuzzed in the repository.
* `internal/profile`, `internal/capability`, `internal/compat`, `internal/ecosystem`,
  `internal/assets`, `internal/adapters`: tables and classifications without state.
* `internal/graph`, `internal/report`, `internal/scip`: one pass that lists or formats.
* `internal/trace` and the runner of `internal/oracle`: an external engine.
* Release, provenance, doctor, conformance: build tools that keep no state.
* `ApplyPatch` and the rename and fix providers: no command or server reaches them.
* Limits of the system below: two writes of one size within the clock's grain are not told apart by
  any code, nor is a save between a hash check and a rename, which the models let happen and the
  properties of the patch and of the servers except; a page cursor is not bound
  to a snapshot, and the lists of `Paging` do not change while they are read.
