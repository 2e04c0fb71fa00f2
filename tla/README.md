# evidenced: a TLA+ verification project

evidenced is an agent that observes systems, stores what it saw as records in a
hash chain, and hands auditors bundles of them. The specifications here model
the parts of it that decide whether an auditor can rely on the result: what the
collectors record, the chain, the store file, the collection cycle and its
three shells, the report, the bundles and their key, and how an engine comes
up. TLC checks them on small instances; TLAPS proves, for instances of any size,
all they check but the liveness properties.

## Inventory

| Component | State | Operations | Correct when |
|---|---|---|---|
| Records and chain (`evidence/`) | `Chain.lastHash` | `Seal`, `Resume`, `Verify` | sealed chains verify; damage is noticed; a head hash pins the history |
| File store (`internal/core/store.go`) | the file, its archives; `chain`, `count`, `firstAt`, the descriptor | `OpenFileStore`, `Append`, `MaybeRotate`, `Close`; `All`, `Verify`, `Count` read | an acknowledged record is never lost; every segment verifies; segments are linked, and none is archived that does not decode |
| Scheduler, registry (`scheduler.go`, `collector.go`) | the position in a cycle | `RunOnce` | each collector's result, or its failure, is recorded once |
| Collectors (`internal/collectors/`) | the records of a collection under way | `Collect` of `tlsscan`, `certlifecycle`, `rbacposture`, `provenance` | what is there is recorded, nothing is invented, targets tell objects apart, a failure leaves a record |
| Mapping and report (`mapping/`, `exporter.go`) | none | `Apply`, `renderReport`, `latestPerTarget` | a report shows the last record of each target and every gap |
| Bundles (`exporter.go`, `bundle/`, `push/`) | directories of three files | `Export`, `Verify`, `Push` | what an export returned verifies; what is uploaded is one export |
| Engine wiring, signing key (`wiring.go`, `evidence/signing.go`) | the key file, open stores | `Build`, `loadOrCreateKey`, `Close` | one key signs everything; a start never gets stuck; a failed build leaves nothing open |
| Configuration (`config.go`, `Translate`, the CRD's types) | none | `ParseConfig`, `Translate`, `push.New`, factories | both frontends of the schema mean the same |
| Daemon shell | context, ticker, engine | the cycle and the `select` loop | it keeps collecting, and stops when told to |
| Operator shell | engine cache, work queue, policy status | `Reconcile` | no policy is forgotten; status is true; stores stay whole |
| CLI shell | none | `collect`, `export`, `push`, `verify`, `verify-bundle` | as for the parts it calls, beside a daemon that runs |

How they interact: a shell builds an `Engine` (registry, mapping, store, key,
pusher), calls `Scheduler.RunOnce`, which rotates the store if it is due and
appends what each collector returns, and then `Engine.ExportAndPush`, which
reads the whole store, verifies it, writes a bundle directory and uploads it.
The daemon does this on a ticker and exits on any store or export error, to be
restarted by systemd (`Restart=on-failure`). The operator does it in its
reconcile loop and keeps the engine in a cache across errors. The CLI does it
once.  What they share is the file system: the store file, the export directory
and the key file have no locks.

What is hard here: the order of sealing, writing, syncing and bookkeeping in an
append; a rotation that is four system calls; crashes and power loss between
any two of them; an object that is used again after an error; several engines
on one file, one of which renames it under the other; in-place writing of
bundles that others read; check-then-write of the key; a build that fails half
way; collections that read a cluster call by call while it changes; a signal
against a ticker; caches keyed by something that recurs. The
`hazards` of `PROJECT.json` list each at its line.

## Modules

| Module | Models | Correspondence |
|---|---|---|
| `Evidence` | records, `computeHash`, `Seal`, `Verify` | a hash is the encoding itself: a sequence of atoms that starts with the previous hash. That it is injective is all the design asks of SHA-256. |
| `ChainAudit` | what `Verify` tells someone who holds a copy | the writer seals; the copy loses, repeats, swaps or alters records, or is partly sealed anew |
| `FileStore` | `store.go` | `file`, `archives` are the disk, with how their last line ends; `opened`, `fd`, `lastHash`, `count`, `firstAt` the object; `pc` is the next system call. One action per system call of `appendLocked` and `MaybeRotate`; `Fail` is an error return. |
| `EvidenceLog`, `FileStoreRefinement` | the abstract append-only log, and the mapping under which `FileStore` implements it | `current` is the lines of the file, a segment is archived by the rename, `acked` is what `Append` returned nil for |
| `SharedStore` | several processes or engines on one store path | files are inodes, `path` and `arch` the names of them; `mem[p]` is the `FileStore` object of `p`, whose descriptor stays with its inode when another process renames the path |
| `DaemonLoop` | the abstract loop of `daemon.Run`: phases, ticker, signal, systemd | no data |
| `Daemon`, `MCDaemon` | the loop with its cycle: `RunOnce`, `Export`, `Push` | implements `DaemonLoop` (`ImplementsLoop`); `torn` is a store that `Build` refuses because a failed write left part of a line; after `MaxCycles` cycles it goes on with cycles in which the collectors find nothing, so that its liveness can be checked |
| `Operator`, `MCOperator` | `EvidencePolicyReconciler`, the API server and the work queue around it | `step` is the part of `Reconcile` that runs next (`MaybeRotate` is the first of `RunOnce`); policies change between parts; a store is the lines of its file, the head its engine remembers, and whether it has records or was shut by a rotation that failed |
| `Bundle` | `Export`, `bundle.Verify`, `tarGzBundle`, the CLI's `push` and `verify-bundle` | each file is truncated, then written, and if two write one file at once a mixture may stay; each is read on its own |
| `Config` | `ParseConfig`, `Translate`, `push.New`, the factories | functions of a document, which is a record of the fields that the two frontends treat; `form` says that a file has an unknown field or nothing in it |
| `Wiring`, `MCWiring` | `Build` and `loadOrCreateKey`, in several processes and engines on one key path | `pc[p]` is the step of `Build`, `handles[p]` the stores it has open, `kube[p]` whether it has a cluster, as the operator always does; load, stat, create, write are separate steps |
| `Collectors` | the four collectors | `calls` are the List calls and handshakes still to make, `out` the records so far; the cluster changes between two calls |
| `Report`, `MCReport` | `RunOnce` over the collectors, `Mapping.Apply` with the rules of `dora.yaml`, `renderReport` | extends `Collectors`; the report is operators over the stored records |
| `ChainAuditProofs`, `FileStoreProofs`, `SharedStoreProofs`, `DaemonProofs`, `OperatorProofs`, `BundleProofs`, `WiringProofs`, `ReportProofs` | theorems | below; each extends the module it is about |

`Daemon` uses a store that behaves as `EvidenceLog` promises, which is what
`ImplementsLog` establishes, and that is refused at every start once a failed
append or rotation has left part of a line (`BuildRefused`). `Operator` and
`SharedStore` reduce a record to its id and link, since `Evidence` has the hash.
In `Operator` a failing append leaves nothing, its record or part of a line,
and a rotation fails before or after the rename or at its record; in
`SharedStore` the calls of a process succeed or end with it.

Operators introduced by a comment "Mutant:" are deliberate mistakes. They are
used by nothing; each is put in the place of a definition to see that a
property notices.

## What the runs check

Passing runs (`tlc -config <run>.cfg <module>`):

| Run, module | Instance | States | Shows |
|---|---|---|---|
| `store_power`, `FileStoreRefinement` | 4 records, 2 seconds after the start, age 1, failing calls, torn writes, crashes, power loss | 182 913 | `ChainIntact`, `AckedKept`, `ArchivesKept`, `ArchivesReadable`, `RotationLinks`, `CountExact`, `TypeOK` and the refinement `ImplementsLog`, for daemon and CLI |
| `chain_audit`, `ChainAudit` | 3 records, 2 damages | 92 268 | `SealedVerifies`, `DamageDetected`, `HeadCommits` |
| `daemon_cycle`, `MCDaemon` | 2 cycles, 2 collectors, up to 2 records each, 1 failure, a torn line among them | 325 378 | `BundleReportsCycle`, `PortalHasPrefixes`, `HistoryGrows`, `ImplementsLoop`, `SignalStops`, `KeepsCycling` |
| `operator_chains`, `MCOperator` | 1 policy with 2 paths, 3 changes, 4 records, 1 fault, 1 restart, failing appends and rotations | 4 938 534 | `ChainsIntact` |
| `operator_policies`, `MCOperator` | 2 policies with paths of their own, 3 changes, 1 record, 1 fault, 1 restart | 581 089 | `StatusTruthful`, `NeverForgotten`, `SpecObserved` |
| `bundle`, `Bundle` | 2 exporters, 2 exports in 2 seconds, a reader | 3 513 655 | `ExportedVerifies`, `UploadedWhole` |
| `store_shared`, `SharedStore` | 2 processes, 3 records (rotation records come on top), 3 seconds, records too long to be read | 2 476 762 | `AckedOnDisk`, `OneChain`, `MemoryAgrees`, `RefusedForCause` |
| `engine_starts`, `MCWiring` | 14 documents, each as a file and as a policy, or 3 processes; 2 kills or stores that do not open; files with and without a cluster each | 195 015 | `OneKeySigns`, `Startable`, `NoStoreLeft`, `FrontendsAgree`, `ComesUp` |
| `report_cycles`, `MCReport` | 7 configurations of up to 4 objects; 3 cycles, 2 changes of the cluster, 1 failed call, a cap of 2, a clock that goes either way | 2 743 296 | `EverythingSeen`, `NothingInvented`, `TargetsIdentify`, `SectionCurrent`, `GapsReported` |

Several properties hold only up to an event that the code does not cope with.
The model allows the event and a ghost variable remembers it, so that the
property says what is kept until then and everywhere else: `lost` (the machine
lost power) in `ArchivesReadable` and `RotationLinks`, `torn` (a failed write cut
a line short) in `KeepsCycling`, `spoilt` (a store on which an append has failed
since its last rotation) in `ChainsIntact`, `uid = 1` (the policy was not
deleted and created again) in `StatusTruthful`, `shared` (two exports wrote into a
directory at the same time) in `ExportedVerifies`, `began` (exports per second) in
`UploadedWhole`, `overlapped` (two processes that found no key were both making
one) in `OneKeySigns`, `cut` in
`Startable` and `ComesUp`, `clash` (a process wrote that had not seen what
another wrote) in `OneChain`, `stale` in `MemoryAgrees`, `replaced` (two
rotations in one second) in `AckedOnDisk`, `long` in `RefusedForCause`, and
`stepped` (the clock was set back) in one half of `SectionCurrent`. `Twins` takes
workloads of two kinds with one name out of the same half and out of
`TargetsIdentify`; one of the configurations has such a pair.

Runs that end in a counterexample show where the code does not do what a
comment or a document says; `findings` in `PROJECT.json` quotes both.

| Run | What happens |
|---|---|
| `store_retry_breaks_chain` | append fails, the operator retries on the same object: a dangling link |
| `store_bare` | a lost newline is accepted; the next record is written onto that line |
| `daemon_upload` | failed upload, then rotation: never uploaded |

### Other divergences

TLC shows these as well, with the module's configuration changed as said.

| Code | What happens | To see it |
|---|---|---|
| `chain.go:62` | records removed at the end of a chain are not noticed (`docs/evidence-model.md:23` says removing any record breaks the chain) | `chain_audit` with `PROPERTY RemovalBreaksChain` |
| `store.go:113` | rotation fails after `Close`: the object never works again, though the operator retries on it (`reconciler.go:89`); in `Operator`, `store = "closed"` | `store_retry_breaks_chain` with `INVARIANT RetryHasFile` |
| `store.go:89` | `Sync` fails: the line is there and not counted (`store.go:166`) | `CountExact` without its `~failed`, `RetrySameStore = TRUE` |
| `store.go:50` | a line that one failed write cut short makes the store refuse to open, and the daemon stay down for good, though systemd starts it again and again (`daemon.go:1`, "until stopped") | `store_power` with `INVARIANT Reopenable`; `daemon_cycle` with `PROPERTY CollectsUntilStopped` |
| `store.go:118` | crash after the rename: the new chain has no rotation record (`docs/deployment.md:106`) | `store_power` with `INVARIANT OpensWithRotation` |
| `store.go:113` | no `Sync` before the rename: power loss shortens an archive that a rotation record names (`docs/evidence-model.md:42`) | `RotationLinks` without `lost` |
| `reconciler.go:244` | the operator accepts any rotation age; below a second, two archives get one name (`docs/evidence-model.md:38`) | `store_power` with `RotateAfter = 0` |
| `reconciler.go:250` | two policies without `storePath` write one file (`deployment.yaml:25`, "single writer") | `operator_chains` with `Policies <- MCPolicies` and `PathsOf <- DefaultPath` |
| `reconciler.go:169` | a policy deleted and created again before it is reconciled runs with the deleted one's engine | `StatusTruthful` without its `uid = 1` |
| `exporter.go:47` | two exports at once in one second mix their files, and parts of one file (`README.md:15`) | `ExportedVerifies` without `shared` |
| `signing.go:14` | two first starts at once make two keys (`signing.go:12`) | `OneKeySigns` without `overlapped` |
| `signing.go:26` | a key file cut short blocks every later start (`wiring.go:140`) | `Startable` without `cut` |
| `tlsscan.go:107` | an unreachable endpoint is not mapped to Articles 10(1), 6(1) (`README.md:39`) | `report_cycles` with `INVARIANT FailuresMapped` |
| `exporter.go:180` | a Deployment and a StatefulSet of one name have one target, so the report shows one of them (`docs/collectors/provenance.md:8`, "for every") | `TargetsIdentify`, or `SectionCurrent`, without `Twins` |
| `exporter.go:183` | after the clock was set back, the report shows an older record of a target instead of its last | `SectionCurrent` without `stepped` |
| `cli.go:38` | a command that appends beside the daemon, or a second engine, breaks the chain; the store then refuses to open | `store_shared`: `OneChain`, `RefusedForCause` without `clash` |
| `store.go:117` | rotations of two processes in one second: the second replaces the first's archive | `AckedOnDisk` without `replaced` |
| `store.go:197` | a record longer than 16 MiB is appended, and from then on the store can be neither opened nor exported | `RefusedForCause` without `long` |
| `config.go:122` | the file's frontend refuses a rotation age below 24 h, an unknown field, a collector named twice and (`config.go:90`) a file with nothing in it, the operator accepts what says the same; a daemon or CLI without a cluster refuses collectors that need one (`kube.go:17`; `wiring.go:3`, "identical behavior") | `FrontendsAgree` without its exceptions |

Seen while modelling, and modelled as the code has it: init containers are not
looked at; `minTls12Enforced` (`tlsscan.go`) says that this handshake negotiated
1.2 or newer, not that older versions are refused; misspelt keys of a collector's
`settings` are dropped silently by both frontends, although other unknown
fields are an error in a file.

### Bounds

`MaxRecords`, `MaxTime`, `MaxCycles`, `MaxChanges`, `MaxFaults`, `MaxFails`,
`MaxRestarts`, `MaxExports`, `MaxBatch` and `MaxEdits` bound counters in guards.
Four records and three clock values allow two rotations, that is a segment with
one before and one after it, a failure in each, and a restart after it, which is
every way in which a segment, its archive and its successor relate. Two processes on one store are
one that renames and one that is behind; three are covered by the proofs.
Three changes of policies are create, change and delete of one, a path changed
and changed back, or two policies side by side; four records in the operator's
stores allow an append, a rotation and an append on one path and an append on
the other. What policies are told and when they are reconciled does not depend
on how many records there are, so there one is enough. Two exports are all that
can be mixed in one directory by two writers, one after the other or at once, and
two seconds also keep them apart; a third is again one more writer.
Two changes of the cluster let an object go and come back, or change while
another does, within one collection; three cycles give a target an older, a
newest and a repeated record, and a cap of 2 below the number of targets of a
control cuts a section. Two kills are one of the process that makes the key and
one of another; a store that does not open counts as one of them. One fault is
enough to reach each error return after each success. `CHECK_DEADLOCK FALSE` is
set because the bounds, and a process that was asked to stop, end a behaviour.

### Fairness

`Daemon`, `Operator` and `Wiring` state it. The process, systemd (`Restart=on-failure`)
and the worker go on (weak fairness of their steps). Go's `select` chooses at
random among ready cases, so a case that is ready over and over is taken:
strong fairness of `TakeTick` and `TakeDone`. The work queue is first in, first
out, so a name at its head again and again is got: strong fairness of a `Get`
that does not fail. In `Wiring`, a process that is down is started again and
goes on with `Build`, and a missing mount arrives. Failures are bounded, that
is, they cease; nothing is assumed about when.

## What is proved

TLAPS checks these for every value of the constants that satisfies the modules'
assumptions.

* `ChainAuditProofs!HeadCommitsToChain`: two chains that `Verify` accepts and that
  end with the same hash are equal. The encoding is taken apart from its last
  atom (`HashParts`, `HashInjective`); a hash grows with every record, so two
  chains of different length cannot meet (`LeastNat` gives the least place at
  which they could differ). This is why a rotation record's
  `previousChainHead` pins the archived segment.
* `ChainAuditProofs`, too: `Spec => []SealedVerifies`, `[]HeadCommits` and
  `[]DamageDetected`, without hypotheses. The inductive invariant is that the
  history verifies and its writer stands at its head (`History`), and that until
  someone recomputes a hash every record of the copy carries a hash of the history
  (`Traceable`). A damaged copy that verifies then follows the history link by
  link, since a hash has one predecessor only. `HeadCommits` is
  `HeadCommitsToChain` again.
* `FileStoreProofs!TypeCorrect`: `Spec => []TypeOK`.
* `FileStoreProofs!ChainAlwaysIntact`: if `RetrySameStore` is false,
  `Spec => []ChainIntact`. `ChainIntact` is not inductive: an append keeps it
  only if the object's `lastHash` is the hash of the last line. The inductive
  invariant adds `HandleAgrees`: while a store is open and has not failed,
  `lastHash` agrees with the lines of the file, and between rename and reopen the
  file is empty. `VerifyAppend` and `VerifyPrefix` say that `Verify` is
  preserved by appending a sealed record and by cutting back to a prefix, which
  is all that writing, crashing and power loss do (what these need to know of a
  hash is stated again in `FileStoreProofs`). Without the hypothesis the
  statement is false (`store_retry_breaks_chain`).
* `FileStoreProofs!AckedAlwaysKept` and `ArchivesNeverReplaced`:
  `Spec => []AckedKept` and `Spec => ArchivesKept`, if `RetrySameStore` is false,
  `RotateAfter` is not 0 and `"bare" \notin Tears`. The two need each other: a
  record is lost when a rename replaces its archive. The inductive invariant has
  three parts. `Complete`: while a store may be called, its file ends with a
  complete line. `AckedDurable`: an acknowledged record is in a synced prefix of
  the store or of an archive, and nothing in the store is synced while its last
  rename may be undone. `InOrder`: segments follow one another in time. What is in
  the store is not older than any archive, a rotation waits until its oldest
  record is a second old or more, and so its rename finds no archive of its second
  (`RenameFresh`). `AckedKept` is false without any one of the hypotheses: a record
  cut before its newline takes the next one, acknowledged, onto its line
  (`store_bare`); a call after a failed write acknowledges a record behind a line
  that does not decode; an age below a second gives two rotations one name
  (divergences, `reconciler.go:244`).
* `FileStoreProofs!StoreImplementsLog`: `Spec => ImplementsLog`, under the same
  hypotheses. The invariant joins that of `AckedKept` with `Counted` and
  `Loaded`: a rotation that has begun archives a segment with a record in it.
  A write or a sync is a step of the log's `Append` or leaves it alone, the
  rename is its rotation, and a crash or power loss its loss of what was not
  acknowledged; each action has a lemma.
* `FileStoreProofs!CountAlwaysExact`, `RotationAlwaysLinks` and
  `ArchivesAlwaysReadable`, each under the hypotheses it needs. All need
  `RetrySameStore` to be false, and `CountExact` needs no more; `Counted` relates
  `count` to the file at every step of a call. The other two need those of
  `AckedKept`, and speak of the time before power is lost, torn writes and all:
  `Links` says that what a rotation under way has noted is what it archives, and
  `Complete` that what it renames is a file without a torn line. Each hypothesis
  and exception is one of the divergences above: `store.go:89`, `store_bare`,
  `store.go:113`.
* `SharedStoreProofs`, for any number of processes on one store path:
  `Spec => []AckedOnDisk`, `[]MemoryAgrees`, `[]OneChain`, `[]RefusedForCause`.
  Each rests on the ones before it. `KeptInv` says that acknowledged records are
  in some file and that every file has a name; files only grow (`FilesGrow`).
  `AgreesInv` strengthens `MemoryAgrees` to the steps between opening and idle
  and those within a rotation: what a process that is not stale remembers is
  what opening the file now would find. `ChainInv` adds that the path names no
  archive and that a rotation under way carries the head and length of the file
  just renamed (`PendingRotations`); it needs `AgreesInv`, because an append
  links to the process's memory and not to the file. `ReadableInv` needs
  `ChainInv`, since a store is refused for a broken chain, too.
* `DaemonProofs!CycleImplementsLoop`: `Spec => ImplementsLoop`. The mapping takes
  the four phases of a cycle to one; `LoopTypes` (the values of `pc` and
  `cancelled`) is all the invariant it takes.
* `DaemonProofs!PortalAlwaysHasPrefixes`: `Spec => []PortalHasPrefixes`. A record
  in the portal and another of its segment before it that is not there must be
  impossible, which takes that no record is made twice: what the cycle has still
  to append is in no segment and not in the portal (`BeforeRotation`,
  `NotCollected`, `NotAppended`), because records carry their cycle, their collector and their
  number. It uses that collectors have different IDs
  (`CollectorsAssumption`; `Registry.Register` refuses a second one of an ID). TLC
  checked the invariant, `UploadInv`, on `daemon_cycle` before.
* `DaemonProofs!HistoryAlwaysGrows`: `Spec => HistoryGrows`, segment by segment.
* `DaemonProofs!BundleAlwaysReportsCycle`: `Spec => []BundleReportsCycle`.
  `ReportInv` says at every step of a cycle what the end says of all of it: each
  collector called so far has one answer (`Asked`), and the store is something
  without records of this cycle, its rotation record apart, followed by the
  records of these answers without the batch (`Recorded`). `FlattenSeq`
  is a recursive function of the library, so that `FlattenAppend` (one sequence more is
  appended) has to be shown by hand: two unfoldings of the recursion agree,
  or there would be a least place at which they do not (`LeastNat`).
* `OperatorProofs!NoneEverForgotten` and `StatusAlwaysTruthful`:
  `Spec => []NeverForgotten` and `[]StatusTruthful`, without hypotheses on
  policies, faults or restarts. `NeverForgotten` needs that a policy deleted while
  it is being reconciled is in the queue again (`Recalled`), or the last step of
  its reconcile would lose its engine. `WorkInv` is what either needs to
  know of the worker: what it has read is of the policy it works on, and an
  engine in the cache was built from a generation of its policy.
* `OperatorProofs!ChainsAlwaysIntact`: `Spec => []ChainsIntact`, if no two
  policies ever name one store (`Apart`). The invariant is that an engine whose
  store is not shut remembers the last record of its file (`HeadsAgree`), over
  appends, rotations that archive the file, and rebuilt engines; a second engine
  on a path would make it false, which is the divergence `reconciler.go:250`.
* `BundleProofs!ExportedAlwaysVerifies`: `Spec => []ExportedVerifies`, for any number
  of exporters and exports into the same directory. The invariant (`Turns`) is of
  seconds whose exports took turns: only the last that began is writing, the
  files it has done are its own, the one it has opened is empty, so nothing of
  an earlier one stays behind what it writes, and the directory of one that
  returned is all its own. `Counted` keeps exports of different numbers apart.
* `BundleProofs!UploadedAlwaysWhole`: `Spec => []UploadedWhole`. `SecondsInv` says of
  each second either that nothing is there, or, of one in which one export began,
  at which of its writes the directory is, who may still write it, and that
  readers and portal have of it nothing but that export (`Single`). It says
  nothing of seconds that several exports share.
* `WiringProofs!KeyNeverBlocks` and `FailedBuildClosesStore`:
  `Spec => []Startable` and `Spec => []NoStoreLeft`, for any processes and
  documents. `Startable` is not inductive: who writes the file must have a key
  to write (`KeyMade`), or the file would not load afterwards.
* `WiringProofs!OneKeyForAll`: `Spec => []OneKeySigns`. `KeyInv` adds, until
  two processes make a key at once, that at most one generates a key, that the
  file stays missing until that process writes it, and that the only key in use
  is the one in the file.
* `WiringProofs!FrontendsAlwaysAgree`: `Spec => []FrontendsAgree`, for every
  document of the schema and any number of engines, each with or without a
  cluster. The invariant (`FrontInv`) is that who is past the registry, or was
  refused, is so by what it makes of its document; the rest is about the two
  functions alone. Paths that a document names reach both configurations
  (`PathsCarried`). In `FilePolicy`, names that differ make the map of the
  file's entries, and that of the policy's, have each entry as it was given
  (`MapOfDistinct`), so that both enable the same collectors
  (`SpecEnablesSame`); an entry with an empty name is refused by both, by the
  policy at once and by the file as a collector nobody knows. `OnlyTheCluster`:
  what can be built in one process can be in another but for a cluster.

* `ReportProofs`, for any cluster, configuration, number of cycles, failing calls
  and cap: `Spec => []EverythingSeen`, `[]NothingInvented`, `[]TargetsIdentify`,
  `[]SectionCurrent` and `[]GapsReported`. They follow from one inductive
  invariant, `Inv`, whose parts are these.
  - `Underway` says of a collection half way (`Progress`) what the first three
    properties say of one that returns. Every record so far comes from a call
    already made (`Made`), every object such a call selects that stayed as it
    was has its record, and no two records share a target unless they are of
    twins. A call looks at the cluster as it is then; a record of it stays true
    because `held` only grows (`HeldGrows`), and it needs to stay true only of
    objects that do not change.
  - `CallsApart` keeps targets apart from one call to the next. The calls of a
    collector differ (`CallsFacts`: they are laid out by kind and namespace, and
    place by place the quotient and remainder tell both), so what one selects no other
    does, and the names tell namespace and scope.
  - `Stored` says where the records of the store come from, that none is later than
    now unless the clock was set back, and that one made now is of a collector that has run in this
    cycle. As types tell the collector (`Home`), a record appended now is of a
    target that has none of this cycle: `StrictlyLater`, the part that makes a
    report that compares times only show the last record. It is false after a
    clock was set back, and for twins.
  - `LatestExists`: of each target there is a record that no other replaces, the
    first of the latest. `SectionFacts`: a section is the first `Cap` places of a
    permutation of these, ordered by time, whichever order the map and the sort
    gave it.

  TLC checked `Underway`, `Stored` and `StrictlyLater` on two cycles of all
  configurations before they were proved.

The assumptions are the `ASSUME`s of the modules: natural bounds, distinct IDs of
the collectors, that "no policy" is not one, that processes are configured with
documents of the schema by one of the two frontends, for `FileStore` what
its constants are, and for `Collectors` what Kubernetes guarantees of names and
scopes (`ObjectsAssumption`) and what a configuration is.

Only model-checked:

* the liveness properties `SignalStops`, `KeepsCycling`, `SpecObserved` and `ComesUp`:
  temporal reasoning under fairness is out of the prover's reach;
* the findings and the other divergences, which are counterexamples.

## Assumptions about the environment

* SHA-256 over the canonical JSON of a record does not collide.
* A successful `Sync` makes the lines of the file and earlier renames in its
  directory durable; without one, power loss keeps any prefix of the lines.
  A killed process loses nothing that `write` has accepted.
* `os.Rename` is atomic and replaces its target.
* One reconcile worker (the default of controller-runtime); `Get` returns the
  current object.
* A configuration names a namespace or an endpoint once, and no namespace is
  empty. The code does not check this: it would collect what is named twice twice,
  into records with one target, of which the report shows one.
* A cluster-scoped object has no namespace, and no namespace is called `all`, which
  stands for `NamespaceAll`.
* A key file or bundle file that was truncated and not written to the end does
  not parse, or does not match its checksum. The same holds of a bundle file that
  has parts of two exports, whose files differ in length and in every part.

## Not modelled

* `Scheduler.Run`: no shell calls it. `bundle.Read`: no caller in this
  repository.
* EvidenceReport objects, which the operator creates and never reads.
* `Mapping.Load` and `validate`: the built-in mapping is a constant of the
  program, and `Rules` is its content.
* The bytes: YAML decoding beyond which fields are there, x509 and TLS beyond
  their verdicts, JSON, the text of the report.
* Contents that are copied as they are (issuer references, key sizes, cipher
  suites, subjects): one field, `spec`, stands for them.
* Reading the upload token, flags, logging, health endpoints, API clients.
* `cloudconfig` and `hostposture`: placeholders that return an error.

## Plan

Done, in this order: chain, store, refinement and proofs, daemon, operator,
bundle, key, report; then several processes on one store, the collectors call
by call, configuration and wiring, clocks that go back, records too long to be
read, and proofs about what the store keeps, the shared store, the daemon's
refinement and wiring; then the proof that the store implements the log, and
of all safety properties of the store, the chain's audit, the daemon, the
operator, the bundle, the frontends, the collectors and the report.

Next, prove: what the store still keeps for a shell that goes on after a failed
call, with a ghost for the first failure; `OneChain`'s consequences for an audit
of a shared store.

Next, model: EvidenceReport objects and their names in `Operator`; failing
calls in `SharedStore`.
