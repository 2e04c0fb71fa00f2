------------------------------ MODULE Operator ------------------------------
(***************************************************************************)
(* The Kubernetes shell (internal/shells/operator): EvidencePolicy objects *)
(* come, change and go; a work queue hands their names to one reconcile    *)
(* worker, which keeps an engine per policy name, runs a cycle with it and *)
(* asks to be called again.  A store is reduced to what several engines    *)
(* can do to one file: the lines in it and what each engine's store holds, *)
(* the head of its chain and whether it has records or was shut.           *)
(***************************************************************************)
EXTENDS Integers, Sequences, FiniteSets

CONSTANTS Policies,    \* policy names
          PathsOf,     \* PathsOf[p]: the store paths p's spec may name
          MaxChanges,  \* bound: changes made to policy objects
          MaxRecords,  \* bound: records appended
          MaxFaults,   \* bound: failed API calls, builds and exports
          MaxRestarts  \* bound: restarts of the operator's pod

ASSUME OperatorBounds ==
  /\ MaxChanges \in Nat /\ MaxRecords \in Nat /\ MaxFaults \in Nat
  /\ MaxRestarts \in Nat

Paths == UNION {PathsOf[p] : p \in Policies}

(* No policy, no path: what the worker holds when it is idle. *)
None == "none"

ASSUME NoneAssumption == None \notin Policies

VARIABLES
  obj,      \* the policy objects of the API server
  status,   \* their status: the observed generation and (ghost) the spec
            \* the reported run was for and the spec its engine was built from
  queue,    \* names in the work queue
  timers,   \* names with a RequeueAfter pending
  active,   \* the name being reconciled
  step,     \* the next part of Reconcile
  seen,     \* the object Reconcile's Get returned, with its status
  engines,  \* r.engines
  files,    \* the store files
  spoilt,   \* ghost: files on which an append has failed since a rotation
  nextId, changes, faults, restarts

vars == << obj, status, queue, timers, active, step, seen, engines, files,
           spoilt, nextId, changes, faults, restarts >>

(* uid tells a policy from a later one of its name. *)
NoObj    == [exists |-> FALSE, uid |-> 0, gen |-> 0, path |-> None]
NoEngine == [uid |-> 0, gen |-> 0, path |-> None, last |-> 0, store |-> "empty"]
NoRun    == [for |-> << 0, 0 >>, by |-> << 0, 0 >>]
NoStatus == [gen |-> 0, run |-> NoRun]
NoSeen   == [uid |-> 0, gen |-> 0, path |-> None, observed |-> 0]

Init ==
  /\ obj = [p \in Policies |-> NoObj]
  /\ status = [p \in Policies |-> NoStatus]
  /\ queue = {}
  /\ timers = {}
  /\ active = None
  /\ step = "idle"
  /\ seen = NoSeen
  /\ engines = [p \in Policies |-> NoEngine]
  /\ files = [f \in Paths |-> << >>]
  /\ spoilt = {}
  /\ nextId = 1
  /\ changes = 0
  /\ faults = 0
  /\ restarts = 0

worker == << active, step, seen, engines, files, spoilt, nextId, timers, faults, restarts >>
-----------------------------------------------------------------------------
(***************************************************************************)
(* Creating a policy, changing its spec and deleting it raise an event     *)
(* that passes GenerationChangedPredicate; a status patch raises none.     *)
(***************************************************************************)
Change(p) ==
  /\ changes < MaxChanges
  /\ changes' = changes + 1
  /\ queue' = queue \cup {p}
  /\ UNCHANGED worker

CreatePolicy(p) ==
  /\ ~obj[p].exists
  /\ \E f \in PathsOf[p] :
       obj' = [obj EXCEPT ![p] =
                 [exists |-> TRUE, uid |-> @.uid + 1, gen |-> 1, path |-> f]]
  /\ status' = [status EXCEPT ![p] = NoStatus]
  /\ Change(p)

UpdateSpec(p) ==
  /\ obj[p].exists
  /\ \E f \in PathsOf[p] :
       obj' = [obj EXCEPT ![p].gen = @ + 1, ![p].path = f]
  /\ UNCHANGED status
  /\ Change(p)

DeletePolicy(p) ==
  /\ obj[p].exists
  /\ obj' = [obj EXCEPT ![p] = [NoObj EXCEPT !.uid = obj[p].uid]]
  /\ status' = [status EXCEPT ![p] = NoStatus]
  /\ Change(p)

(* RequeueAfter runs out. *)
TimerFires(p) ==
  /\ p \in timers
  /\ timers' = timers \ {p}
  /\ queue' = queue \cup {p}
  /\ UNCHANGED << obj, status, active, step, seen, engines, files, spoilt, nextId,
                  changes, faults, restarts >>
-----------------------------------------------------------------------------
Fault == faults < MaxFaults /\ faults' = faults + 1

Done == active' = None /\ step' = "idle" /\ seen' = NoSeen

(* Mutant: the cycle is not asked for again. *)
NoRequeue(p) == UNCHANGED timers

(* ctrl.Result{RequeueAfter: ...} *)
Requeue(p) == timers' = timers \cup {p}

(***************************************************************************)
(* Reconcile, first part: Get.  A policy that is gone loses its engine     *)
(* (dropEngine) and is not asked for again; another error of Get puts the  *)
(* name back into the queue.                                               *)
(***************************************************************************)
Get(p) ==
  /\ active = None
  /\ p \in queue
  /\ \/ /\ obj[p].exists
        /\ queue' = queue \ {p}
        /\ active' = p
        /\ step' = "engine"
        /\ seen' = [uid |-> obj[p].uid, gen |-> obj[p].gen, path |-> obj[p].path,
                    observed |-> status[p].gen]
        /\ UNCHANGED << engines, faults >>
     \/ /\ ~obj[p].exists
        /\ queue' = queue \ {p}
        /\ engines' = [engines EXCEPT ![p] = NoEngine]
        /\ UNCHANGED << active, step, seen, faults >>
     \/ /\ Fault
        /\ UNCHANGED << queue, active, step, seen, engines >>
  /\ UNCHANGED << obj, status, timers, files, spoilt, nextId, changes, restarts >>

(* Mutant: an engine, once built, is used for good. *)
CachedForever(p) == engines[p] # NoEngine

(* engineFor finds an engine of the policy's generation. *)
Cached(p) == engines[p] # NoEngine /\ engines[p].gen = seen.gen

(* Mutant: a rebuilt engine starts a new chain. *)
LastIdFresh(f) == 0

(* The head of the chain that an engine opening store f resumes. *)
LastId(f) == IF files[f] = << >> THEN 0 ELSE files[f][Len(files[f])].id

(* Its count: whether the store it opened has records. *)
Holding(f) == IF files[f] = << >> THEN "empty" ELSE "some"

Linked(recs) ==
  \A i \in 1..Len(recs) : recs[i].prev = IF i = 1 THEN 0 ELSE recs[i - 1].id

(***************************************************************************)
(* patchStatus: a merge patch of what Reconcile changed in the object Get  *)
(* returned, applied to the object that now has the name.  It may fail,    *)
(* and then only that is logged.                                           *)
(***************************************************************************)
PatchStatus(p, run) ==
  \/ /\ obj[p].exists
     /\ status' = [status EXCEPT
          ![p].gen = IF seen.observed = seen.gen THEN @ ELSE seen.gen,
          ![p].run = run]
     /\ UNCHANGED faults
  \/ ~obj[p].exists /\ UNCHANGED << status, faults >>
  \/ Fault /\ UNCHANGED status

(***************************************************************************)
(* engineFor: the cached engine, or the old one closed and a new one built *)
(* from the spec, which opens the store where its file ends.  A build that *)
(* fails leaves no engine, is reported and tried again.                    *)
(***************************************************************************)
EngineFor ==
  LET p == active
  IN  /\ step = "engine"
      /\ \/ /\ Cached(p)
            /\ step' = "rotate"
            /\ UNCHANGED << engines, status, timers, active, seen, faults >>
         \/ /\ ~Cached(p)
            /\ Linked(files[seen.path])
            /\ engines' = [engines EXCEPT ![p] =
                             [uid |-> seen.uid, gen |-> seen.gen, path |-> seen.path,
                              last |-> LastId(seen.path), store |-> Holding(seen.path)]]
            /\ step' = "rotate"
            /\ UNCHANGED << status, timers, active, seen, faults >>
         \/ /\ ~Cached(p)
            /\ ~Linked(files[seen.path]) \/ faults < MaxFaults
            /\ engines' = [engines EXCEPT ![p] = NoEngine]
            /\ PatchStatus(p, status[p].run)
            /\ Requeue(p)
            /\ Done
      /\ UNCHANGED << obj, queue, files, spoilt, nextId, changes, restarts >>

(* An append by p's engine seals a record, which moves its chain on. *)
Sealed(p, count) ==
  /\ nextId <= MaxRecords
  /\ nextId' = nextId + 1
  /\ engines' = [engines EXCEPT ![p] = [engines[p] EXCEPT !.last = nextId, !.store = count]]

(***************************************************************************)
(* What an append of a record that fails leaves at the end of the file:    *)
(* nothing, the record (Sync has failed) or a line cut short, which is     *)
(* refused as one that links to nothing is.  FileStore has the detail.     *)
(***************************************************************************)
Remains(prev) ==
  {<< >>, << [id |-> nextId, prev |-> prev] >>, << [id |-> nextId, prev |-> nextId] >>}

(* A store's error ends the cycle: it is put into the status, the engine   *)
(* is kept and the cycle is asked for again.                               *)
CycleFails(p) ==
  /\ PatchStatus(p, status[p].run)
  /\ Requeue(p)
  /\ Done

(***************************************************************************)
(* Scheduler.RunOnce begins with MaybeRotate, which archives a store whose *)
(* oldest record is old enough and begins a chain with a rotation record.  *)
(* Where Close, Rename or OpenFile fails, the store stays shut, its file   *)
(* in place or archived, and fails to Close it at every later cycle; where *)
(* the rotation record fails, the new file is left without records.        *)
(***************************************************************************)
MaybeRotate ==
  LET p == active
      e == engines[p]
  IN  /\ step = "rotate"
      /\ \/ /\ e.store # "closed"
            /\ step' = "run"
            /\ UNCHANGED << active, seen, status, timers, faults, files, spoilt, engines,
                            nextId >>
         \/ /\ e.store = "some"
            /\ Sealed(p, "some")
            /\ files' = [files EXCEPT ![e.path] = << [id |-> nextId, prev |-> 0] >>]
            /\ spoilt' = spoilt \ {e.path}
            /\ step' = "run"
            /\ UNCHANGED << active, seen, status, timers, faults >>
         \/ /\ e.store = "some"
            /\ Sealed(p, "empty")
            /\ \E left \in Remains(0) : files' = [files EXCEPT ![e.path] = left]
            /\ spoilt' = spoilt \cup {e.path}
            /\ CycleFails(p)
         \/ /\ e.store = "some" /\ faults < MaxFaults
            /\ engines' = [engines EXCEPT ![p].store = "closed"]
            /\ files' \in {files, [files EXCEPT ![e.path] = << >>]}
            /\ UNCHANGED << spoilt, nextId >>
            /\ CycleFails(p)
         \/ /\ e.store = "closed"
            /\ UNCHANGED << files, spoilt, engines, nextId >>
            /\ CycleFails(p)
      /\ UNCHANGED << obj, queue, changes, restarts >>

(***************************************************************************)
(* The rest of RunOnce: a record is appended through the engine's own      *)
(* chain, or nothing is observed, or the append fails.                     *)
(***************************************************************************)
RunOnce ==
  LET p == active
      e == engines[p]
  IN  /\ step = "run"
      /\ \/ /\ Sealed(p, "some")
            /\ files' = [files EXCEPT ![e.path] = Append(@, [id |-> nextId, prev |-> e.last])]
            /\ step' = "export"
            /\ UNCHANGED << active, seen, status, timers, faults, spoilt >>
         \/ /\ step' = "export"
            /\ UNCHANGED << active, seen, status, timers, faults, files, spoilt, engines,
                            nextId >>
         \/ /\ Sealed(p, e.store)
            /\ \E left \in Remains(e.last) : files' = [files EXCEPT ![e.path] = @ \o left]
            /\ spoilt' = spoilt \cup {e.path}
            /\ CycleFails(p)
      /\ UNCHANGED << obj, queue, changes, restarts >>

(***************************************************************************)
(* ExportAndPush, createReport and the final status.  Export refuses a     *)
(* chain that does not verify or fails otherwise; then, as when RunOnce    *)
(* fails, the engine is kept and the status carries the error.             *)
(***************************************************************************)
Finish ==
  LET e == engines[active]
  IN  /\ step = "export"
      /\ \/ /\ Linked(files[e.path])
            /\ PatchStatus(active, [for |-> << seen.uid, seen.gen >>,
                                     by  |-> << e.uid, e.gen >>])
         \/ /\ ~Linked(files[e.path]) \/ faults < MaxFaults
            /\ PatchStatus(active, status[active].run)
      /\ Requeue(active)
      /\ Done
      /\ UNCHANGED << obj, queue, engines, files, spoilt, nextId, changes, restarts >>

(***************************************************************************)
(* The pod restarts: engines, timers and queue are gone, and the initial   *)
(* list of the informer enqueues every policy there is.                    *)
(***************************************************************************)
Restart ==
  /\ restarts < MaxRestarts
  /\ restarts' = restarts + 1
  /\ engines' = [p \in Policies |-> NoEngine]
  /\ queue' = {p \in Policies : obj[p].exists}
  /\ timers' = {}
  /\ Done
  /\ UNCHANGED << obj, status, files, spoilt, nextId, changes, faults >>

Next ==
  \/ \E p \in Policies : \/ CreatePolicy(p) \/ UpdateSpec(p) \/ DeletePolicy(p)
                         \/ TimerFires(p) \/ Get(p)
  \/ EngineFor \/ MaybeRotate \/ RunOnce \/ Finish
  \/ Restart

(***************************************************************************)
(* The worker runs and time passes; the queue is first in, first out, so a *)
(* name that keeps coming to its head is taken.                            *)
(***************************************************************************)
Fairness ==
  /\ \A p \in Policies : WF_vars(TimerFires(p)) /\ SF_vars(Get(p) /\ faults' = faults)
  /\ WF_vars(EngineFor)
  /\ WF_vars(MaybeRotate)
  /\ WF_vars(RunOnce)
  /\ WF_vars(Finish)

Spec == Init /\ [][Next]_vars /\ Fairness
-----------------------------------------------------------------------------
(***************************************************************************)
(* deployment.yaml:25, "single writer of the evidence store": whatever     *)
(* happens to policies, engines and the pod, through rotations that work   *)
(* or fail, a file on which no append has failed since its last rotation   *)
(* is one chain.                                                           *)
(***************************************************************************)
ChainsIntact == \A f \in Paths \ spoilt : Linked(files[f])

(***************************************************************************)
(* types.go:2, an EvidencePolicy "translates 1:1" into the configuration   *)
(* that runs: unless the policy was deleted and created again, the run its *)
(* status reports was made by an engine built from the very spec that      *)
(* Reconcile had read.                                                     *)
(***************************************************************************)
StatusTruthful ==
  \A p \in Policies :
    (obj[p].exists /\ obj[p].uid = 1) => status[p].run.by = status[p].run.for

(***************************************************************************)
(* A RequeueAfter, an event or the worker itself will come back to every   *)
(* policy; and the engine of a deleted one will be closed.                 *)
(***************************************************************************)
NeverForgotten ==
  \A p \in Policies :
    /\ obj[p].exists => p \in queue \cup timers \cup {active}
    /\ (~obj[p].exists /\ engines[p] # NoEngine) => p \in queue

(***************************************************************************)
(* Every generation of a spec that stays is reported as observed: failed   *)
(* builds, cycles and patches are surfaced and retried.                    *)
(***************************************************************************)
SpecObserved ==
  \A p \in Policies : []<>(~obj[p].exists \/ status[p].gen = obj[p].gen)
=============================================================================
