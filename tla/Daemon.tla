------------------------------- MODULE Daemon -------------------------------
(***************************************************************************)
(* One agent's collection cycle: Scheduler.RunOnce over the registry,      *)
(* Exporter.Export and Pusher.Push (Engine.ExportAndPush), in the daemon's *)
(* loop.  The store is the one EvidenceLog promises: an append is          *)
(* persisted or fails, and a rotation sets the segment aside.  An append   *)
(* that fails may leave part of a line, and a store with such a line is    *)
(* refused at every start.  (A line that lacks its newline only is not     *)
(* refused; it is FileStore's subject, as are chain hashes and clocks.)    *)
(* Here a rotation may be due whenever the store holds a record.  The      *)
(* daemon runs for ever: after MaxCycles cycles with records its           *)
(* collectors have nothing to report.                                      *)
(***************************************************************************)
EXTENDS Integers, Sequences, SequencesExt, FiniteSetsExt

CONSTANTS Collectors,  \* the enabled collectors, as the sequence of their
                       \* IDs in sorted order
          MaxCycles,   \* bound: cycles that rotate or bring records
          MaxFaults,   \* bound: failures of the store, export, process
          MaxBatch,    \* bound: records a collector returns
          MayRotate    \* whether the chain ever reaches StoreRotateAfter

ASSUME DaemonBounds == /\ MaxCycles \in Nat /\ MaxFaults \in Nat /\ MaxBatch \in Nat
                       /\ MayRotate \in BOOLEAN
ASSUME CollectorsAssumption == Collectors \in Seq(STRING) /\ IsInjective(Collectors)

VARIABLES
  pc,         \* where the process is
  cancelled,  \* the context is done
  ticker,     \* the ticker exists
  tick,       \* a tick waits
  faults,     \* failures so far
  cycle,      \* numbers the cycle; all quiet ones are MaxCycles + 1
  idx,        \* index of the collector RunOnce is at
  batch,      \* its records not appended yet
  store,      \* the records of the current chain
  torn,       \* its last line is cut short, and does not decode
  archives,   \* the archived segments, oldest first
  bundle,     \* evidence.json of the newest bundle
  portal,     \* the records the portal has received
  want        \* ghost: what the collectors of this cycle reported

vars == << pc, cancelled, ticker, tick, faults, cycle, idx, batch, store,
           torn, archives, bundle, portal, want >>

(* A record: which cycle and collector made it, and the how-manieth it is. *)
Rec(col, outcome, n) == [cycle |-> cycle, col |-> col, outcome |-> outcome, n |-> n]

Init ==
  /\ pc = "down"
  /\ cancelled = FALSE
  /\ ticker = FALSE
  /\ tick = FALSE
  /\ faults = 0
  /\ cycle = 0
  /\ idx = 1
  /\ batch = << >>
  /\ store = << >>
  /\ torn = FALSE
  /\ archives = << >>
  /\ bundle = << >>
  /\ portal = {}
  /\ want = << >>

data == << cycle, idx, batch, store, torn, archives, bundle, portal, want >>
loop == << cancelled, ticker, tick, faults >>

(* The process ends with an error or is killed; systemd may restart it. *)
Exit ==
  /\ faults < MaxFaults
  /\ faults' = faults + 1
  /\ pc' = IF cancelled THEN "stopped" ELSE "down"
  /\ ticker' = FALSE
  /\ tick' = FALSE
  /\ UNCHANGED cancelled

Start ==
  /\ pc = "down"
  /\ pc' = "build"
  /\ UNCHANGED << loop, data >>

Quiet == cycle > MaxCycles

(* A cycle begins: RunOnce is called. *)
BeginCycle ==
  /\ cycle' = Min({cycle + 1, MaxCycles + 1})
  /\ idx' = 1
  /\ batch' = << >>
  /\ want' = << >>
  /\ pc' = "rotate"

(* wiring.Build: registry, mapping, store, key, pusher; then cycle(). *)
BuildOk ==
  /\ pc = "build"
  /\ ~torn
  /\ BeginCycle
  /\ UNCHANGED << loop, store, torn, archives, bundle, portal >>

(***************************************************************************)
(* OpenFileStore refuses a store with a line that does not decode, and     *)
(* Build with it.  systemd tries again, for ever: RestartSec keeps the     *)
(* restarts below its start limit.                                         *)
(***************************************************************************)
BuildRefused ==
  /\ pc = "build"
  /\ torn
  /\ pc' = "down"
  /\ UNCHANGED << loop, data >>

(* Mutant: the segment is truncated instead of renamed. *)
ArchivedNot(segment) == archives

(* The archives once a segment has been renamed away. *)
Archived(segment) == Append(archives, segment)

(***************************************************************************)
(* RunOnce's first part: MaybeRotate.  The rotation record is appended by  *)
(* the store itself; it belongs to no collector.                           *)
(***************************************************************************)
RotateStore ==
  /\ pc = "rotate"
  /\ \/ UNCHANGED << store, archives >>
     \/ /\ MayRotate /\ ~Quiet
        /\ store # << >>
        /\ archives' = Archived(store)
        /\ store' = << Rec("evidenced", "rotation", 0) >>
  /\ pc' = "collect"
  /\ UNCHANGED << loop, cycle, idx, batch, torn, bundle, portal, want >>

(***************************************************************************)
(* MaybeRotate returns an error: before the rename, or with a new chain    *)
(* that its rotation record did not reach, or in part, or unsynced.        *)
(***************************************************************************)
RotateFails ==
  /\ pc = "rotate"
  /\ \/ UNCHANGED << store, torn, archives >>
     \/ /\ MayRotate /\ ~Quiet
        /\ store # << >>
        /\ archives' = Archived(store)
        /\ \/ store' = << >> /\ torn' \in {torn, TRUE}
           \/ store' = << Rec("evidenced", "rotation", 0) >> /\ UNCHANGED torn
  /\ Exit
  /\ UNCHANGED << cycle, idx, batch, bundle, portal, want >>

(* Mutant: a failing collector is logged only. *)
RecordsDropped(col, n, err) ==
  IF err THEN << >> ELSE [i \in 1..n |-> Rec(col, "observed", i)]

(***************************************************************************)
(* What RunOnce appends for a collector that returned n records and err:   *)
(* an error replaces whatever came with it by one collector-run record.    *)
(***************************************************************************)
RecordsOf(col, n, err) ==
  IF err THEN << Rec(col, "failed", 0) >>
         ELSE [i \in 1..n |-> Rec(col, "observed", i)]

(* c.Collect(ctx) of the next collector, whatever the state of ctx. *)
Collect ==
  /\ pc = "collect"
  /\ batch = << >>
  /\ idx <= Len(Collectors)
  /\ \E n \in 0..MaxBatch, err \in BOOLEAN :
       /\ Quiet => n = 0 /\ ~err
       /\ batch' = RecordsOf(Collectors[idx], n, err)
       /\ want' = Append(want, [col |-> Collectors[idx], n |-> n, err |-> err])
  /\ idx' = idx + 1
  /\ UNCHANGED << loop, pc, cycle, store, torn, archives, bundle, portal >>

AppendBatch ==
  /\ pc = "collect"
  /\ batch # << >>
  /\ store' = Append(store, Head(batch))
  /\ batch' = Tail(batch)
  /\ UNCHANGED << loop, pc, cycle, idx, torn, archives, bundle, portal, want >>

(***************************************************************************)
(* Store.Append returns an error, or the process is killed within it: the  *)
(* record is not in the file, or in part, or as a whole and unsynced.      *)
(***************************************************************************)
AppendFails ==
  /\ pc = "collect"
  /\ batch # << >>
  /\ \/ UNCHANGED store /\ torn' \in {torn, TRUE}
     \/ store' = Append(store, Head(batch)) /\ UNCHANGED torn
  /\ Exit
  /\ UNCHANGED << cycle, idx, batch, archives, bundle, portal, want >>

RunOnceDone ==
  /\ pc = "collect"
  /\ batch = << >>
  /\ idx > Len(Collectors)
  /\ pc' = "export"
  /\ UNCHANGED << loop, data >>

(* Mutant: only what this cycle added is exported. *)
ExportedNew == SelectSeq(store, LAMBDA r : r.cycle = cycle)

(* Store.All: every record of the current chain. *)
Exported == store

(* Exporter.Export: all records of the store, as one bundle. *)
Export ==
  /\ pc = "export"
  /\ bundle' = Exported
  /\ pc' = "push"
  /\ UNCHANGED << loop, cycle, idx, batch, store, torn, archives, portal, want >>

(* Mutant: the loop waits for a ticker nobody made. *)
PushNoTicker ==
  /\ pc = "push"
  /\ portal' \in {portal, portal \cup Range(bundle)}
  /\ pc' = "wait"
  /\ UNCHANGED << loop, cycle, idx, batch, store, torn, archives, bundle, want >>

(***************************************************************************)
(* Pusher.Push: the bundle arrives, or not, or it arrives and the answer   *)
(* is lost.  Its error is only logged.  A pusher that is not configured    *)
(* behaves like one whose uploads never arrive.  With cycle() done the     *)
(* loop waits; the first time round the ticker is made now.                *)
(***************************************************************************)
Push ==
  /\ pc = "push"
  /\ portal' \in {portal, portal \cup Range(bundle)}
  /\ pc' = "wait"
  /\ ticker' = TRUE
  /\ UNCHANGED << cancelled, tick, faults, cycle, idx, batch, store, torn, archives,
                  bundle, want >>

(* An interval passes.  A tick nobody has taken yet absorbs the next one. *)
TickerFires ==
  /\ ticker
  /\ pc \notin {"down", "build", "stopped"}
  /\ ~tick
  /\ tick' = TRUE
  /\ UNCHANGED << pc, cancelled, ticker, faults, data >>

(* Mutant: the tick that starts a cycle stays in the channel. *)
TakeTickKeeps ==
  /\ pc = "wait"
  /\ tick
  /\ BeginCycle
  /\ UNCHANGED << cancelled, ticker, tick, faults, store, torn, archives, bundle, portal >>

TakeTick ==
  /\ pc = "wait"
  /\ tick
  /\ tick' = FALSE
  /\ BeginCycle
  /\ UNCHANGED << cancelled, ticker, faults, store, torn, archives, bundle, portal >>

(* Mutant: the loop looks at ctx only when no tick is waiting. *)
TakeDoneLate ==
  /\ pc = "wait"
  /\ cancelled
  /\ ~tick
  /\ pc' = "stopped"
  /\ ticker' = FALSE
  /\ tick' = FALSE
  /\ UNCHANGED << cancelled, faults, data >>

TakeDone ==
  /\ pc = "wait"
  /\ cancelled
  /\ pc' = "stopped"
  /\ ticker' = FALSE
  /\ tick' = FALSE
  /\ UNCHANGED << cancelled, faults, data >>

(***************************************************************************)
(* SIGINT or SIGTERM.  Before NotifyContext is in place it ends the        *)
(* process at once; afterwards it only cancels ctx.                        *)
(***************************************************************************)
Signal ==
  /\ ~cancelled
  /\ pc # "stopped"
  /\ cancelled' = TRUE
  /\ pc' = IF pc \in {"down", "build"} THEN "stopped" ELSE pc
  /\ UNCHANGED << ticker, tick, faults, data >>

(***************************************************************************)
(* The process is killed at any point, or Build or Export returns an       *)
(* error, which ends it the same way.                                      *)
(***************************************************************************)
Die ==
  /\ pc \notin {"down", "stopped"}
  /\ Exit
  /\ UNCHANGED data

Next ==
  \/ Start \/ BuildOk \/ BuildRefused
  \/ RotateStore \/ RotateFails \/ Collect \/ AppendBatch \/ AppendFails \/ RunOnceDone
  \/ Export \/ Push
  \/ TickerFires \/ TakeTick \/ TakeDone \/ Signal
  \/ Die

(* What the process does by itself, between two waits. *)
Progress ==
  \/ Start \/ BuildOk \/ BuildRefused
  \/ RotateStore \/ Collect \/ AppendBatch \/ RunOnceDone
  \/ Export \/ Push

(***************************************************************************)
(* The process and systemd make progress and time passes; and since select *)
(* picks at random among ready cases, a case that is ready again and again *)
(* is taken in the end.                                                    *)
(***************************************************************************)
Fairness ==
  /\ WF_vars(Progress)
  /\ WF_vars(TickerFires)
  /\ SF_vars(TakeTick)
  /\ SF_vars(TakeDone)

Spec == Init /\ [][Next]_vars /\ Fairness
-----------------------------------------------------------------------------
(* The records a collector's answer comes to, and those of all so far. *)
Reported(w) ==
  IF w.err THEN << Rec(w.col, "failed", 0) >>
           ELSE [k \in 1..w.n |-> Rec(w.col, "observed", k)]

CycleRecords == FlattenSeq([i \in 1..Len(want) |-> Reported(want[i])])

(***************************************************************************)
(* "A failing collector is recorded as evidence and never stops the run"   *)
(* (scheduler.go:17) and "the newest report is always on disk"             *)
(* (daemon.go:1): when the loop waits, the newest bundle is the whole      *)
(* store, it ends with each collector's records of the cycle just run, in  *)
(* registry order, one collector-run failure for each that failed, and     *)
(* before them it has nothing of this cycle but a rotation record.         *)
(***************************************************************************)
BundleReportsCycle ==
  pc = "wait" =>
    /\ bundle = store
    /\ \E n \in 0..Len(bundle) :
         /\ SubSeq(bundle, n + 1, Len(bundle)) = CycleRecords
         /\ \A i \in 1..n : bundle[i].cycle = cycle => bundle[i].outcome = "rotation"
    /\ [i \in 1..Len(want) |-> want[i].col] = Collectors

Segments == Append(archives, store)

(***************************************************************************)
(* Every bundle is the whole chain, so what the portal has of a segment is *)
(* a prefix of it: no upload leaves a gap that a later one does not close. *)
(***************************************************************************)
PortalHasPrefixes ==
  \A i \in 1..Len(Segments) : \A k \in 1..Len(Segments[i]) :
    Segments[i][k] \in portal => \A j \in 1..k : Segments[i][j] \in portal

(***************************************************************************)
(* An append-only history: no cycle, failure or restart changes or loses a *)
(* stored record; a segment only grows while it is the newest, and the     *)
(* archives are only added to.                                             *)
(***************************************************************************)
HistoryGrows ==
  [][\A i \in 1..Len(Segments) :
       /\ i <= Len(Segments')
       /\ IsPrefix(Segments[i], Segments'[i])
       /\ i < Len(Segments) => Segments'[i] = Segments[i]]_vars

(***************************************************************************)
(* daemon.go:63: "a failed upload is logged and retried implicitly next    *)
(* cycle".  Then whatever a completed cycle exported has reached the       *)
(* portal, or is in the bundle the next cycle uploads: the current chain.  *)
(***************************************************************************)
UploadRetried ==
  \A i \in 1..Len(archives) : Range(archives[i]) \subseteq portal

(***************************************************************************)
(* The daemon "blocks until SIGINT/SIGTERM" (daemon.go:23): once signalled *)
(* it stops, whatever the cycle under way does, even when every cycle      *)
(* outlasts the interval, so that a tick is always waiting when the select *)
(* looks.                                                                  *)
(***************************************************************************)
SignalStops == cancelled ~> pc = "stopped"

(***************************************************************************)
(* "it collects on the configured interval until stopped" (daemon.go:1):   *)
(* unless signalled it runs and completes cycle after cycle, failures of   *)
(* the collectors, the export, the upload, the process and the store       *)
(* notwithstanding, as long as the fatal ones cease -- all but one: a      *)
(* write that fails half way, after which no start succeeds.               *)
(***************************************************************************)
KeepsCycling ==
  (<>[](~cancelled)) => ([]<>(pc = "rotate") /\ []<>(pc = "wait")) \/ <>torn

(***************************************************************************)
(* The same sentence taken at its word: whatever failed and has ceased to  *)
(* fail, a daemon that nobody stopped begins cycle after cycle.  A line    *)
(* that one failed write left keeps it down for good (store.go:50).        *)
(***************************************************************************)
CollectsUntilStopped == (<>[](~cancelled)) => []<>(pc = "rotate")

(* The loop of this module is the daemon's loop. *)
Loop == INSTANCE DaemonLoop WITH
          phase <- IF pc \in {"rotate", "collect", "export", "push"} THEN "cycle" ELSE pc

(***************************************************************************)
(* Each step of a cycle is a step of the loop, or none: whatever happens   *)
(* inside a cycle, it ends by waiting or by leaving.                       *)
(***************************************************************************)
ImplementsLoop == Loop!SafeSpec
=============================================================================
