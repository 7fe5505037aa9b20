# A verification development of repeatr

Repeatr runs a *formula*: it fetches the inputs it names by hash, assembles
them into a root file system, runs a command in a container, and hashes the
outputs into warehouses.  `rsrch/` adds a foreman, which reruns formulas when the
catalogs of their inputs have new editions.  The modules here model the parts of
that program in which several goroutines, processes, file systems or clients
meet.  TLC checks them on small instances; TLAPS proves their safety properties, but
for those of tree hashing, and both refinements, for every instance.

All paths are below `src/`; "line" numbers in the modules refer to it as well.

## 1. Inventory

| part | state it keeps | operations | meets | hard behaviour |
|---|---|---|---|---|
| ware cache `rio/transmat/impl/cachedir` | the directory `committed/<hash>` | `Materialize` | transmats (calls), other jobs (shared directory) | concurrent fetches of one ware, rename races, crashes, stale `stat` |
| transmats `rio/transmat/impl/{tar,dir,file,s3,gs}` | one staging arena per call | `Materialize`, `Scan` | warehouses | which of several silos, wares that mismatch, arenas left behind, errors of the last write |
| warehouses `*_warehouse.go` | stored wares | ping, read, write, commit | the network, other writers | partial answers, half-written wares, concurrent commits |
| placers and assembler `rio/placer` | recorded emplacements, the mount table, layer directories | `Assemble`, `Teardown` | the kernel, the cache's trees, host directories | order, failure half way, sharing cached trees read-only |
| job directory `lib/flak/assist.go` | the directory of a job | `WithDir` | whatever is still mounted in it | recursive removal after a failure |
| executors `core/executor/impl/{chroot,runc}` | `JobResult`, streams, `WaitChan` | `Start`, `Run`, `Execute`, `Wait` | provisioning goroutines, the contained process, the caller | panics at every step, goroutines left behind, who waits for whom |
| runc's log, `lib/streamer/tail.go` | read position, `drain`, two error variables | `Read`, `Close` | runc (a file it appends to), the job's goroutine | torn messages, the last look at the end of the file |
| streams of a job `lib/streamer/cbor_streamer.go` | the mux's file, open labels, leftovers of a read | append, close, read | the job, followers | readers that wait for a label nobody closes, rows delivered in pieces |
| runner and observers `core/actors`, `api/act/remote` | the channel of events, the mutex, the line | `StartRun`, `Run`, `FollowEvents` | job, terminal, remote client | several goroutines on one channel, a send that blocks while a mutex is held, a line that breaks |
| plans `rsrch/actors/foreman/plans.go` | queue, leases index, commission index | `Push`, `LeaseNext`, `Unlease`, `Finish` | whoever leases | spent tokens, replacement of plans being worked on |
| foreman `foreman.go`, `releaser.go` | plans, channels of changes | `register`, `pump`, `evoke` | knowledge base, executor | lost or late editions, a channel it both reads and fills |
| knowledge base `rsrch/model/cassandra/impl/mem` | catalogs, commissions, observers | list, publish, observe, select | foreman, other publishers | notifications outside the lock |
| catalog editions `rsrch/model/catalog` | slices of wares per track | `New`, `Release`, `Latest`, `All` | publishers | slices that share an array |
| tree hashing `lib/fshash`, `lib/treewalk`, `lib/fs` | a bucket of records, the tree that is written | `Extract`, `Save`, `FillBucket`, `Hash` | transmats, filters | entries in any order, twice or without parents; siblings walked in any order; attributes that hash and disk must agree on |
| git transmat `rio/transmat/impl/git` | `gits/<url>`, `nosub/<hash>`, `full/<hash>` | `Materialize` | git, other calls (shared directories) | torn fetches, locks left behind, rename races, panics half way |
| the rest | none worth the name | CLI, YAML, cradle, assets, guid, filters | | sequential plumbing |

What makes each part correct:

- *cache*: what is committed under a hash has that hash, is never changed or
  removed, and is what every call gets that saw or committed it, also the one that lost a race;
  a call whose stat failed gets that or nothing; it implements the abstract store.
- *warehouses*: what is filed under a hash is that ware, and a hash that is returned is stored
  where it was asked for, but for the errors the code drops; a ware that is there survives other
  scans and crashes.
- *placers*: a shared input tree is never written; a read-only host mount is
  never written by the job; the job sees each part where the formula put it; an assembly
  that stood is taken down; nothing is mounted when a job counts as done.
- *executors*: no error means that the job really ran, with all inputs and all
  outputs; `Wait` means that everything is released and the result is final; no
  caller waits for ever.
- *runc's log*: the verdict is that of the messages decoded, nothing but what races the
  last look is missed, the hand-over does not hang.
- *plans*: the three indexes agree, leases are exclusive, only the holder of a lease
  removes what it leased, plans of a commission run in order.
- *foreman*: an edition is never lost between being published and being planned for; a
  commission has one waiting plan.
- *editions*: an edition that was published does not change.
- *git*: what is kept below `full` and `nosub` is whole; it implements the abstract store; no
  call leaves anything temporary behind.
- *streams and runner*: a follower reads all that was written, in order; the record comes last
  and when everything is over; a run that is followed ends.
- *trees*: the hash of a scan is that of the tree, whatever the order of the walk; what is on the
  disk is what was hashed; what was stored can be materialized.

`PROJECT.json` lists the hazards at their lines and the properties that cover them.

## 2. Modules

**`WareStore`** — the abstract store: a set of wares that only grows, and calls that
are served with what they asked for, fail, or are answered on trust, which promises nothing.  It has no
files or silos.

**`CacheDir`** — `CachingTransmat.Materialize` (dircacher.go:68-108) over the
`Materialize` of the tar, dir, file, s3 and gs transmats.  One step per file system call:
`Stat`, the silo loop (`NextSilo`, `AbortSilo`, `AbortObject`, `NoSiloLeft`, `PickSilo`), `Extract`
(unpack and hash), `Verify`, `Rename`, `RenameRefused` or `RenameFails`, `Discard`.  A stat may fail for
another reason than that nothing is there; the code takes that for a hit, and the call is `assumed`: over,
with a path nobody looked behind.  State: `cache` (the
content of `committed/<hash>`), `arena` (of each call's staging directory), the
parameters of the calls and the position in the silo list.  `Crash` ends all calls at any
moment.  A silo may answer every call differently.  Only s3 and gs never go on to the next
silo: their ping is a stub.  `DefaultTransmat` gives files a cache of their own; `cache` stands
for both.  `Replaceable` are the hashes
onto whose tree a rename succeeds (plain files; empty directories before Go 1.8).  A rename may fail wherever
it goes, which includes Go 1.8's EEXIST.  The module ends with the refinement mapping to `WareStore`, where
`assumed` is an answer on trust.

**`CacheDirProofs`**, **`DepotProofs`**, **`AssemblyProofs`**, **`JournalProofs`**, **`LesseesProofs`**,
**`ForemanProofs`**, **`GitProofs`** — the proofs about the module each is named after, section 5.
**`ExecutorProofs`** holds those about both halves of an executor and extends `RuncLog` and `Job`, which for that
share no name: the process is `runc` in one and `proc` in the other, its exit code `exitCode` and `exit`.

**`Depot`** — `Scan` of tar, dir, s3 and gs, with the write controllers of their warehouses.
`kind` is one of them in each behaviour.  `ScanOnly` and `Dial` start a scan; `OpenWriter`
stages in one warehouse (dir) or in all of them (the others, which write one stream);
`SaveTree` and `SaveStream` walk, write and hash.  Then `CommitFile` (tar: close and rename),
`CommitTree` or `PushAside`, `Swap`, `Clean` (dir, by kind of warehouse), or `CloseUpload`,
`Copy`, `Delete` (s3 and gs).  `Panic` is an error raised at any of these; an error that the
code drops is a second outcome of the action, and puts the place in `overlooked` if what is filed there may
differ; a removal whose error is dropped leaves its stage, or what was pushed aside.  A failed
writer of a multiwriter has a `Broken` copy, those after it in the list a `Short` one.  `Crash`
ends all scans.

**`Assembly`**, **`MCAssembly`** — assembler, copy, bind and overlay placers, and
`WithDir`.  Trees are functions from paths to nodes.  The mount table is a sequence, and a
path is resolved through it (`Top`, `Rel`, `Node`), so a write really lands in the
job's directory, an input's layer or the host's directory, whichever is visible
there.  `MakeParents`, `MakeDest`, `PlaceCopyFile`, `PlaceCopyDir`, `MountBind`, `Remount`,
`MountOverlay` place; `TeardownCopy`, `TeardownMount` undo in reverse order;
`RemoveJobDir` is `os.RemoveAll`, which goes down through what is mounted.  The job
writes and deletes wherever it may.  Each system call named in `Faults` may fail by itself;
`raised` says whether one did ("fault") or whether a placer refused ("panic").

**`Job`** — one job: the goroutine of `Start` (directory, streams, `Run`, `Execute`, the
deferred teardown, recovery, end of the streams, removal, `WaitChan`), one goroutine per
input and output with the unbuffered report channels, the contained process, and the
caller in `Start` and `Wait`.  A panic is a jump to the deferred code.  With `Kind =
"runc"` there are two more ways to fail; all steps of a chroot job remain.

**`RuncLog`** — the inside of runc's `GetExitCode`: runc appending messages in pieces, the tailer
goroutine (`Decode`, `Read`, `CheckDrain`), and the job's goroutine (`TakeExitCode`, `Close`, `Join`,
`Judge`).

**`Plans`** — the structure of plans.go, with no clients: `Push`, `LeaseNext`,
`Unlease`, `Finish`.  **`Lessees`** gives it arbitrary clients that keep
their tokens after they are spent.  **`Foreman`** (with **`MCForeman`**) composes it with the
loop of foreman.go and the knowledge base: `Observe`, `List`, `Select`, `Fill`,
`PushPlan`, `StartJob`, `JobEnds`, `PublishRelease`, `EvokeReturns`, and
`PublishSource`/`Send` for anybody's publishing.  A catalog is the number of its releases.

**`Book`** — `catalog.Book` down to slice headers and the arrays they share.

**`Git`**, **`MCGit`** — `GitTransmat.Materialize`, the only transmat with a cache of its own.
State: what each repository under `gits` has of each commit (`none`, `torn`: the commit object
without its trees, `whole`), who holds its `index.lock`, the checkouts under `nosub` and `full`, and of each
call its position, submodule and temporary directories.  `Stat`, `Ping`, then for the main tree and each
submodule `Seek`, `Yank` and `Landed` (one fetch in two steps), then `Look`, `Checkout`,
`Write`, `MoveSub` for each submodule that is not there, `CopySub`, `MoveFull`.  A run of git, a move
or a copy may fail (`Panic`), and the process may die (`Crash`), which can leave transfers torn and locks taken.  A
tree is the sequence of what was put into it.  The module ends with a second
refinement of `WareStore`, which answers the empty hash on trust.

**`Journal`** — a run as its follower sees it.  The job's goroutine (`Launch`, `Execute`, `Terminate`) and
the process write rows to the mux; the actor (`Start` or `StartNull`, `Copy`, `CopyEnds`,
`SendRecord`) copies them, in chunks of `Buffer`, onto the unbuffered channel which log messages use
too, also those of a provisioning goroutine that a failed job left behind (`Straggle`).  Callers of
`FollowEvents` meet the actor under the mutex (`Rig`).  The receiver is a terminal, or a publisher
(`Encode`, `HangUp`) whose line to a remote terminal (`FarStep`) may be cut, between two events or within one.

**`Tree`**, **`MCTree`** — one tree on its way: a tar, in every order of its entries, is unpacked
(`Extract`, `EndOfTar`), a directory or file of the result is scanned through filters (`Scan`, `PreVisit`,
`PostVisit`, `Commit`) into a tar or a directory, and that is materialized (`Materialize`, and `Extract` or
the walk again, with `CopyEnds`).  The bucket, its iterator and the hash are operators
(`Normalize`, `Iterator`, `NextChild`, `Visit`, `Hash`), compared with a definition by
paths (`Merkle`).  The disk is a function from paths to nodes; `Placed` is `PlaceFile` with
what it does to the directory's time, to hard links and to a file that is there.  A hash is the term
that is hashed, so two are equal only if all that goes into them is.

Mutants, plausible bugs of single definitions, stand before the definition they vary
and are marked "Mutant" in the comment.

## 3. Runs

Twelve runs, two of which end in a violation that is a finding; the first column is the name in `PROJECT.json`.

| run | instance | what it shows |
|---|---|---|
| `cache_race` | 2 calls, 2 hashes (one replaceable), 1 silo | integrity, service from the cache, nothing staged by a call that was served, cache only grows, `ImplementsStore` |
| `depot_scans` | 2 scans, 4 transmats, 2 trees, a plain and a content-addressed warehouse in either order | wares are filed under their own hash, stored when the hash is returned, unless an error was dropped at that place, kept by other scans, failures and crashes |
| `assembly` | every subset of 7 parts, both kinds of placer, all 5 faults | inputs intact, read-only honoured, done is clean, teardown complete, the job sees its parts |
| `job_runc` | 2 inputs, 2 outputs, failures everywhere | the five properties of a job |
| `runclog_torn` | 3 messages of 2 pieces | verdict, what a drain may miss, no hang |
| `plans_leases` | 4 plans, 2 commissions, 2 workers, 3 tokens | indexes agree, order, exclusive leases, replacement |
| `foreman_relay` | B feeds E, both take A in; 2 editions of A | no lost edition, one waiting plan, every edition planned for |
| `book_two` (violation) | 2 publishers, 6 editions | the second overwrites the first one's edition |
| `git_races` | 2 calls, a commit with a submodule twice, a mirror without it, EEXIST possible | checkouts are whole, nothing is left behind, `ImplementsStore` |
| `journal` | both executors, with and without a remote end; 2 followers; 2 pieces of stdout, 1 of stderr | the journal is faithful, the record last, the far side follows, a followed run ends |
| `tree` | tars of up to 4 of 12 entries, 3 filters, both transmats that scan trees differently | hashes are canonical, the disk is as it was hashed, what was stored comes back |
| `tree_dirs` (violation) | directories, default filters | a stored directory cannot be materialized |

`TypeOK` is a property of its own in `cache_race`; elsewhere it is the first conjunct of the run's first
or closest invariant, and so part of that one's theorem.

### Why the bounds are enough

- Races on the cache are between a winner and a loser of one path: two calls.  Two
  hashes let a call be served by another's commit and tell replaceable
  content from content that is not.  More silos repeat the loop (and are covered by the proof).
- Two scans race for one shelf; two warehouses are the least with one committed when another
  fails, and with a writer after the one that failed; two trees tell a ware from the one it
  replaces, and from what a second walk over a changing tree finds.
- The seven parts are a base tree, a file over one of its files (shorter than it), a
  writable host mount over that, a read-only host mount with an input nested in it, an
  empty input over an existing directory, and a source that is no tree.  They give
  every pairing of placers above and below each other, two mounts on one path, and refusals.
- Two inputs and two outputs are the least with a worker left behind by another's
  failure, and with an incomplete set of reports.
- A message in two pieces can be torn in one way; three messages give a decoded one, a
  buffered one and one that is missed.
- A plan that is replaced, one that is leased and one given back need three plans of one
  commission, and a fourth to be pushed after them.
- In the relay a change marks both commissions, and a release of B marks E while A
  changes again.  The code's channel holds 100; 6 is more than this instance
  fills, so `EditionsArePlanned` is checked for a channel with room only: a full one blocks the
  foreman for good (section 4), and no property promises otherwise.
- `MaxEditions` lets the array of an edition be doubled twice.
- Two calls of git meet in every shared place: one repository and its lock, one checkout of the
  library (which the project also contains twice, and which can be asked for itself), one final path.
- Two pieces of stdout in one row are the least that a buffer of one splits, and stderr's one piece can
  come before, between and after them.  Two followers are one that is served and one that is not.
- The names `a-b` and `a/b` sort around `a/`, so four entries hold a directory, something in
  it, and neighbours on both sides; or an entry twice, a file below a file, a link and its file.  Times in
  half seconds have one that tars cannot hold.

Every step in the bounded modules is guarded by its bound by name (`MaxEdition`,
`MaxPushes`, `MaxMessages`, `MaxEditions`, `MaxOut`, `MaxErr`, `MaxEntries`).  Deadlock is checked where the system cannot
stop (`CacheDir`, `Depot`, `Assembly`, `Git`); jobs, runs, logs, books, trees and foremen stop when there is
nothing left to do, so their configurations switch it off.

### Fairness

Weak fairness only, of the steps the Go runtime and the kernel owe us: a goroutine that can
run does; a system call, a transport or a warehouse answers; a contained process ends (the
executors have no timeout either: a job that never ends is waited for).  Nobody is obliged to
make a call, to publish, to return a plan, or to crash.  In `Foreman` all steps of the
foreman's goroutine share one condition, since they exclude each other, and each blocking send has
its own: a send that has room goes through.  In `Journal` the actor, the job, the publisher and the far side are
one condition each; nobody is obliged to follow, to write, to quit or to cut the line.

## 4. Known divergences

Checked by a run with its counterexample, and listed under `findings`:

1. A directory is hashed with its filtered time and stored with the unfiltered one
   (fs_walk.go:53, "in practice, same values"), so with the default filters of outputs
   (formulaMounts_ops.go:66) it cannot be materialized again (`StoredUnpacks`, run `tree_dirs`).  A single file
   scanned by the dir transmat has the same trouble with the root that stands around it; `TarsUnpack` is
   what does hold.
2. Two releases from the same edition store into one array cell (`EditionsAreImmutable`, run `book_two`).

Met while modelling, visible in the modules, without a run of their own:

3. A stat of the committed path that fails for another reason than absence is a hit (dircacher.go:81): the call
   succeeds without a fetch, against "`Materialize` causes data to exist" (contract.go:31): `Stat`, and the label
   `assumed`.  `ServedFromCache` says what does hold: the path has the right ware or nothing.
4. s3, gs: an error of `reloc` is dropped (s3_warehouse.go:207, gs_warehouse.go:206), against "May panic [...] in
   the event of IO errors committing": `Copy`; a hash is returned for a ware that is not there.
5. tar: errors of the last writes are dropped (the deferred closes in tar_stream.go:38-40, and
   tar_warehouse.go:291), so a full disk leaves a truncated ware under a hash that is returned, against "specify
   the hash truthfully" (tar_warehouse.go:283): `SaveStream`, `CommitFile`.  `FiledUnderOwnHash` and
   `StoredWhenDone` except the places in `overlooked`, and say what holds for all others.
6. The tail reader looks at `drain` after the end of file it met before (tail.go:31), so a message that lands between
   the two is never read, against "Tell the log tailer to drain as soon as the proc exits" (runc_executor.go:277):
   `CheckDrain`; `DrainMissesNothing` therefore asks that the last end of file was met while draining.
7. The foreman blocks for good when it publishes (foreman.go:151) into its own channel while that is full, against
   "Every time there's a new edition of a catalog available, that catalog ID will be sent to the channel"
   (cassandra/contract.go:33): `Send`.
8. The removal of a job directory runs after an aborted assembly as after any other, and deletes through
   mounts that are still there, a writable host mount too, against "If the function panics, the
   dir will *not* be removed" (assist.go:17): `WithDir`'s function never panics, since `Run`
   recovers (chroot_executor.go:78, runc_executor.go:97).  `RemoveJobDir`; no invariant says anything of
   writable host mounts.
9. `AcceptHashMismatch` suppresses no panic (tar_transmat.go:151, dir_transmat.go:132,
   file_transmat.go:146): `Verify` fails whatever `accept` says.
10. Built with Go 1.8, losing the race to commit a directory is EEXIST and a panic
    (dircacher.go:89): `RenameFails`.
11. A file copied over a longer one keeps the old tail (emplacements.go:83): `Overwrite`;
    `JobSeesParts` therefore asks only that the file starts with the part's content.
12. Leasing a plan that was given back makes the newest plan of the commission irreplaceable
    (plans.go:85): `Unevictable`.
13. The foreman evokes once per pump (foreman.go:31), so of two plans made from one change the
    second waits for the next change: a plan is promised by `EditionsArePlanned`, a run is not.
14. The plan of a failed job is finished like any other (foreman.go:141): `JobEnds`.
15. `catchingTransmatArena.Hash` calls itself (dircacher.go:115).
16. tar: a warehouse that fails to answer ends the fetch (tar_warehouse.go:107), although the next
    one might have the ware and tar_transmat.go:71-72 says it is tried: `AbortSilo`.
17. dir: a plain warehouse is empty between `PushAside` and `Swap`, for good after a crash, and a
    race there is a panic, against "operations that are atomic in the face of multiple
    uncoordinated actions are the default" (dir_warehouse.go:19): `NothingIsLost` says what
    remains, `KeptWhole` excepts this case.
18. dir: the tree is walked once per warehouse, and the hash returned is that of the last walk; a
    tree that changes meanwhile is stored under several hashes (dir_transmat.go:211): `SaveTree`.
19. s3, gs: the ping always succeeds (s3_warehouse.go:79, gs_warehouse.go:65), so the first silo is
    the only one used, against "if one is unavailable we'll just take the next"
    (s3_transmat.go:79-80): `NextSilo` and `AbortObject`.  gs reports a ware that is not there as a
    problem of the warehouse (gs_warehouse.go:128), against `ErrWareDNE` in its comment (line 109).
20. git: `hasCommit` reads the commit only (git_internals.go:53), so after a fetch that was killed half
    way, or while another call's is under way, the fetch is skipped and the checkout fails, in the first
    case until somebody deletes the repository: `Seek`, `Write`.
21. git: a second checkout from one repository meets the first one's `index.lock`, or one that a
    killed git left, and is an internal error: `Checkout`.
22. git: the empty hash is answered with the directory of all checkouts (git_transmat.go:87): `Cached`,
    an answer on trust in the refinement.
    A silo that answers is used even if it lacks the commit (git_transmat.go:113-127): `Ping`.
23. git: built with Go 1.8, losing a race of `moveOrShrug` is EEXIST and a panic (git_workarea.go:67):
    `MoveSub`, `MoveFull`.
24. git: a `.gitmodules` that cannot be read is ignored (git_internals.go:183), and its submodules then have
    no url: `listSubmodules`, and a `Panic` is all that is left for `Yank`.
25. A second call of `FollowEvents`, or one after the actor quit, blocks for ever with the mutex held
    (runner.go:153), and so does `StartRun` after it: `Rig`.  A follower that stops receiving blocks the
    run: `FollowedRunEnds` excepts it.
26. The null executor's job has no streams, and a runner that is given it panics (runner.go:80):
    `StartNull`.
27. A remote terminal that meets the end of the stream before the record waits for ever
    (runObserver.go:29): `FarStep` shows nothing more.
28. Repeated paths in a bucket are a slice index out of range (bucket_memory.go:82) before the check
    for them (:86) is reached: `Repeated`.  A directory given after it was conjured is not left
    for the hashing to refuse, as tar_stream.go:121 says; making it fails first: `CanPlace`.
29. An absolute path in a tar is a programmer error of the bucket, not `ErrWareCorrupt`: `Extract`.
30. A hard link is hashed as a link when it is unpacked, and as a file when it is scanned
    (metadata.go:77): `UnpackedAsHashed` excepts it.

## 5. What is proved

Every theorem holds for any values of the constants that satisfy the assumptions, and is checked by TLAPS
to the last leaf.  An invariant that a run checks is seldom inductive; each proof module begins with
the parts of the invariant `IInv` that is, goes on with a lemma for every action (a step for every conjunct
that the action can disturb), and ends with the theorems.  `AssemblyProofs` has a second invariant, `Seen`, on
top of the first, and `ExecutorProofs` one for each half.  TLC checks each of them on the run's instance too.

| module | theorem | property |
|---|---|---|
| `CacheDirProofs` | `TypeCorrect`, `CacheIsSound`, `ServedIsSound` | `TypeOK`, `CacheIntegrity`, `ServedFromCache` |
| | `CommittedIsKept`, `CacheImplementsStore` | `CacheOnlyGrows`, `ImplementsStore` |
| `DepotProofs` | `FilesAreUnderTheirHash`, `DoneScansHaveStored` | `FiledUnderOwnHash`, `StoredWhenDone` |
| | `WaresAreKept`, `TheLastIsNeverLost` | `KeptWhole`, `NothingIsLost` |
| `AssemblyProofs` | `InputsStayIntact`, `ReadOnlyMountsHold` | `InputsIntact`, `ReadOnlyHonoured` |
| | `DoneLeavesNothing`, `JobSeesItsParts` | `DoneIsClean`, `JobSeesParts` |
| `ExecutorProofs` | `WaitIsTheEnd`, `ResultsAreWhole` | `WaitMeansOver`, `ResultIsWhole` |
| | `ScansEndFirst`, `ResultsAreFinal` | `NoScanOutlivesTheRootfs`, `ResultIsFinal` |
| | `VerdictIsRight`, `DrainIsComplete` | `VerdictFitsTheLog`, `DrainMissesNothing` |
| | `WholeLogsAreReadable` | a log without torn messages never crashes the tailer |
| | `ErrorsSettleBeforeTheVerdict` | the tailer sets no error once they are read |
| `JournalProofs` | `JournalAlwaysFaithful`, `RecordAlwaysLast` | `JournalIsFaithful`, `RecordComesLast` |
| | `FarSideAlwaysFollows` | `FarSideFollows` |
| `LesseesProofs` | `IndexesStayConsistent`, `PlansStayInOrder` | `IndexesAgree`, `InOrder` |
| | `LeasesStayExclusive`, `OnlyHoldersRemove` | `LeasesAreExclusive`, `OnlyItsHolderRemoves` |
| `ForemanProofs` | `EditionsStayPending`, `PlansSupersede` | `StaleIsPending`, `OnePlanPerCommission` |
| `GitProofs` | `KeptCheckoutsAreWhole`, `CallsCleanUp` | `CheckoutsAreWhole`, `NothingIsLeftBehind` |
| | `KeptCheckoutsStay`, `GitImplementsStore` | a checkout stays; `ImplementsStore` |

### The inductive invariants

- **Cache.** `CacheIntegrity` is not inductive: `Rename` moves whatever the arena holds.  `IInv` adds
  what the code relies on in between: an arena about to be renamed was found to have the hash that was
  asked for (`Verified`); a call that lost a race did so to a commit that is there (`Lost`); a call that
  has not yet picked a silo has no arena (`NotStaged`), which is why a hit in the cache leaves nothing
  behind; what a call is given on trust is right or missing because whatever is committed is right.  `CacheOnlyGrows` follows because a rename onto a replaceable ware puts the same ware there.
  For the refinement every step is an `Ask`, `Serve`, `Trust`, `Fail`, `Forget` or `Crash` of the store, or a stutter.
- **Depot.** What is filed was staged, so `Staged` says what is staged at each label and for which part
  of the route: the ware that was hashed, but for errors that tar drops, and, with s3 and gs, behind a
  writer that failed.  That one comes first on the rest of the route, so the closes in
  order meet its error before they file a short copy.  `Saved` says what the scan did for the
  warehouses it is through with, and stays true under other scans because a place of its own hash only
  ever gets that ware (`Filed`) and a plain one always gets one before the last is removed (`Held`).
- **Assembly.** That a shared tree is not written rests on the mount table: a path leads into an input's
  own tree only through a bind that is not writable, or through a layer, and a read-only bind is
  writable only between its two mount calls, when nothing else runs (`Guarded`).  A job that is done has
  no mount because the mounts are those of the emplaced parts, in that order (`MountsPlaced`, `PlacedMounted`,
  `InTurn`): each unmount of the reverse order meets the youngest mount.  A copied part's removal must not fail
  either: when its turn comes, it meets the mount it was copied through (`Landed`).
- **What a job sees** (`Seen`, as long as parts are being placed).  `JobSeesParts` speaks of the moment when the
  last part is in place, and nothing but the order of the targets (`InOrder`) keeps a later part from
  hiding an earlier one that lies below it.  A part has its place in directories that are seen (`Founded`), so
  what is missing on the way to the next one is missing from a single tree, and can be made by one chain of
  `mkdir`s (`MissingTogether`); only directories have anything below them, also across mounts
  (`Connected`), so a file put over another hides nothing.  Each step changes one tree or adds one mount, and each of
  these changes what is seen at known paths only (`LaidView`, `ChangeView`, `MountView`); two general steps
  remain, `MadeRoom` and `PutThere`, with the mount points made on the way (`Point`) as all that is seen and
  belongs to no part.  The sources of parts not yet mounted are as they were (`Untouched`), since what is written to
  is mounted.
- **Job.** A result is whole because it is assigned from the reports in one step (`AtOnce`) and only
  after as many reports as goroutines (`Gathered`, `Progress`); what is released before `WaitChan` is
  closed is released by position (`Released`, `Closing`).
- **runc's log.** The error variables say what was decoded at every moment (`Noted`), and the
  job's goroutine reads them only when the tailer ended (`Handed`).  A closed reader's end of
  file is the last, since the process ended before (`Drained`).  A reader at the end of a file of whole messages
  has read whole ones (`Unbroken`).
- **Journal.** The chunks received, with what the reader has left over, are exactly what the rows it has passed
  contribute (`Reading`); rows are only appended, and once both streams are closed a later one contributes
  nothing (`UptoGrows`), so when the actor is through with both labels this is all there is.  Whoever sends the
  record is done and whoever received it will not receive again (`Recording`), which is why a straggler that
  still logs cannot come after it.  As long as the line is up only the event being encoded is missing on the
  wire, and a cut line stays cut (`Sending`).
- **Plans.** `InOrder` needs to know that what may be replaced is the newest plan of its commission and was
  never leased (`Newest`): the plan put in its place would stand in front of an older one otherwise.
  That is what `Unevictable` is for (plans.go:85), a plan given back included.  Exclusive leases need `TokensDiffer`
  and `HeldIsGot`, for workers that come back with spent tokens.
- **Foreman.** `StaleIsPending` speaks of what is not planned; the invariant is about what is: a commission
  that is neither being filled nor about to hear of a change is `Served` with every latest release
  (`NothingLost`).  To stay served while plans are replaced, leased, run and dropped, what a commission
  ran with must never be ahead of a plan that follows (`Onward`), what was read while others published must
  be the latest or have its change on the way (`Fresh`), and there is one lease at most, run as it was
  planned (`Leased`).  The foreman's own editions count on because nobody else publishes its outputs
  (`OwnCatalogs`).  Between two jobs every queued plan is the one plan its commission may have, so there is
  always a plan to spare (`PlanToSpare`).
- **Git.** A tree that is moved into place is whole because of what a call knows at each position: the main
  tree holds the commit and the submodules before `todo` (`MainTree`), the submodules before it
  are checked out under `nosub` and stay there (`SubTrees`, `Ready`).  The refinement of the store is
  the cache's: `MoveFull` serves, everything before it stutters.

### The assumptions

They are those the modules state of their constants, evaluated by TLC on every run:

- `CacheDir`: `NSilos` is a natural number, the special values are no hashes, `Replaceable` is a set of hashes.
- `Depot`: a warehouse is plain or content-addressed; the special contents are no wares.
- `Assembly`: paths are sequences closed under taking a part from either end (names are numbers), the parts
  of a job are finitely many, an input is writable in the job (provision.go:101), a source is a tree of blocks that has
  things below directories only, as every file system, and whose paths exist below its target too.
- `Job`: finitely many inputs and outputs; one of the two executors.  `RuncLog`: a bound on messages.
- `Journal`: nobody is not a follower; bounds on what a process writes.
- `Lessees`: plans are numbered as they are pushed.  `Foreman`: catalogs and commissions are finitely many, every
  commission takes in at least one catalog, no two release to one, sources are nobody's outputs,
  and there are more pointers than commissions.
- `Git`: submodules are a sequence of commits, the special values are no commits, calls, repositories or
  sequences of commits.

### Only model-checked

- Liveness: `AssembledIsTornDown`, `CallerReturns`, `JudgedAtLast`, `FollowedRunEnds`, `EditionsArePlanned`.
  The prover handles neither fairness nor ENABLED.
- What the recursive operators of `Tree` compute for every input: the hashing and unpacking of trees
  (`HashIsCanonical`, `UnpackedAsHashed`, `TarsUnpack`).  A theorem cannot stand in a module that reaches a
  RECURSIVE operator.

`JournalIsFaithful` compares flattened sequences (`FlattenSeq` of the community modules, a recursive function).  The
library's induction theorems take an operator as a parameter and cannot be used; the first part of
`JournalProofs` derives induction over the numbers from the well-foundedness of the subsets of a finite set
(`Least`, `Induction`), and from it the equation that defines `FlattenSeq`.

The lemmas about the queue (`AtFinds`, `QueueWithout`, `FirstLeasable` and the like) stand in `LesseesProofs` and in
`ForemanProofs`, each of which extends `Plans` by variables of its own.

## 6. What is left out

- The bytes: archives, digests, codecs, formats, the arguments of the command line.  Owner, group and
  mode are one attribute; devices, fifos and extended attributes are left out.
- Host directories that are the same as, or inside, each other or the job's directory: every
  part has its own source tree.
- aufs, which differs from overlay in the mount call; the results the null executor, a test double, makes up.
- git itself: what a fetch and a checkout do is taken from how the transmat reads their outcome.
- Half a row in the mux's file: the tail reader shields the decoder from it (`RuncLog` has that reader).
- Stages that scans leave in a warehouse, failed ones or those whose removal failed: they are forgotten when the
  scan returns, as nothing looks at them again.
- git: that the deferred removals of temporary directories fail (git_transmat.go:160, 217; the errors are
  dropped).  A stat of a checkout that fails for another reason than absence fetches again, and then meets what
  a call meets that lost a race.
- What s3 stores when the answer to an upload is lost; a failed upload is one that did not happen.
- Whether a crash loses what was renamed but not synced: the code never syncs, and the model takes
  a rename that returned as done.
- `PublishCommission` and its observers: the foreman never registers for them.
- Tracks other than the default one.
- The cradle, the definitions of the API and their serialization, and small libraries: sequential code with
  no state that outlives a call.

## 7. Plan

Written so far, in this order: `WareStore`, `CacheDir`, `CacheDirProofs`, `Depot`, `Assembly`, `Job`,
`RuncLog`, `Plans`, `Lessees`, `Foreman`, `Book`, `Git`, `Journal`, `Tree`; then the proofs of `RuncLog`,
`Job`, `Git`, `Lessees`, `Depot`, `Assembly`, `Foreman` and `Journal`, and of what a job sees.

All safety properties but those of `Tree` have a theorem.  What would come next is a `Tree` whose iterator
and hash are recursive functions, so that `HashIsCanonical` can be proved by induction on the depth of a tree with
the lemmas of `JournalProofs`.

Runs stay few: `plans_leases`, `foreman_relay` and `journal` take most of the time.
