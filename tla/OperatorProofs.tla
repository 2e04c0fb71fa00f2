---------------------------- MODULE OperatorProofs ----------------------------
(***************************************************************************)
(* Proofs about Operator for any number of policies, changes, failures and *)
(* restarts: no policy is forgotten, a status tells of the spec that ran,  *)
(* and every store is written by one engine.                               *)
(***************************************************************************)
EXTENDS Operator, SequenceTheorems, TLAPS

Objs    == [exists : BOOLEAN, uid : Nat, gen : Nat, path : Paths \cup {None}]
Engines == [uid : Nat, gen : Nat, path : Paths \cup {None}, last : Nat,
            store : {"empty", "some", "closed"}]
Runs    == [for : Nat \X Nat, by : Nat \X Nat]
Lines   == [id : Nat, prev : Nat]

TypeInv ==
  /\ obj \in [Policies -> Objs]
  /\ status \in [Policies -> [gen : Nat, run : Runs]]
  /\ queue \subseteq Policies
  /\ timers \subseteq Policies
  /\ active \in Policies \cup {None}
  /\ step \in {"idle", "engine", "rotate", "run", "export"}
  /\ seen \in [uid : Nat, gen : Nat, path : Paths \cup {None}, observed : Nat]
  /\ engines \in [Policies -> Engines]
  /\ files \in [Paths -> Seq(Lines)]
  /\ spoilt \subseteq Paths
  /\ nextId \in Nat
  /\ changes \in Nat /\ faults \in Nat /\ restarts \in Nat

(* A policy that exists names a store its spec may name. *)
ObjectsOK ==
  \A p \in Policies : obj[p].exists => obj[p].uid >= 1 /\ obj[p].path \in PathsOf[p]

(* An engine was built from a spec its name has had. *)
EnginesOK ==
  \A p \in Policies : engines[p] # NoEngine =>
    engines[p].uid \in 1..obj[p].uid /\ engines[p].path \in PathsOf[p]

(* So is the object a reconcile works on; its engine is of its generation, *)
(* and open once MaybeRotate has passed.                                   *)
WorkerOK ==
  /\ step = "idle" <=> active = None
  /\ active # None => seen.uid \in 1..obj[active].uid /\ seen.path \in PathsOf[active]
  /\ step \in {"rotate", "run", "export"} =>
       engines[active] # NoEngine /\ engines[active].gen = seen.gen
  /\ step = "run" => engines[active].store # "closed"

WorkInv == TypeInv /\ ObjectsOK /\ EnginesOK /\ WorkerOK
-----------------------------------------------------------------------------
(* A patch changes the status of one policy that exists, if anything. *)
LEMMA PatchFacts ==
  ASSUME TypeInv, NEW p \in Policies, NEW run \in Runs, PatchStatus(p, run)
  PROVE  /\ status' \in [Policies -> [gen : Nat, run : Runs]]
         /\ faults' \in Nat
         /\ \A q \in Policies : status'[q].run = status[q].run
                                \/ (q = p /\ status'[q].run = run)
<1>0. /\ status \in [Policies -> [gen : Nat, run : Runs]] /\ faults \in Nat
      /\ seen.gen \in Nat
  BY DEF TypeInv
<1>1. CASE UNCHANGED status /\ (Fault \/ UNCHANGED faults)
  BY <1>0, <1>1 DEF Fault
<1>2. CASE /\ status' = [status EXCEPT
                ![p].gen = IF seen.observed = seen.gen THEN @ ELSE seen.gen,
                ![p].run = run]
           /\ UNCHANGED faults
  <2>1. PICK g \in Nat : status' = [status EXCEPT ![p].gen = g, ![p].run = run]
    BY <1>0, <1>2
  <2> DEFINE m == [status EXCEPT ![p].gen = g]
  <2>2. m \in [Policies -> [gen : Nat, run : Runs]] /\ \A q \in Policies : q # p => m[q] = status[q]
    BY <1>0
  <2>3. status' = [m EXCEPT ![p].run = run]
    BY <2>1
  <2> HIDE DEF m
  <2>4. /\ status' \in [Policies -> [gen : Nat, run : Runs]]
        /\ status'[p].run = run
        /\ \A q \in Policies : q # p => status'[q] = m[q]
    BY <2>2, <2>3
  <2> QED BY <1>0, <1>2, <2>2, <2>4
<1> QED BY <1>1, <1>2 DEF PatchStatus

(* Initially there are no policies. *)
LEMMA WorkInit == Init => WorkInv
<1> SUFFICES ASSUME Init PROVE WorkInv
  OBVIOUS
<1>1. /\ NoObj \in Objs /\ NoEngine \in Engines /\ NoRun \in Runs
      /\ NoStatus \in [gen : Nat, run : Runs]
      /\ NoSeen \in [uid : Nat, gen : Nat, path : Paths \cup {None}, observed : Nat]
  BY DEF NoObj, Objs, NoEngine, Engines, NoRun, Runs, NoStatus, NoSeen
<1>2. << >> \in Seq(Lines)
  OBVIOUS
<1>3. TypeInv
  BY <1>1, <1>2 DEF Init, TypeInv
<1>4. NoObj.exists = FALSE
  BY DEF NoObj
<1> QED BY <1>3, <1>4 DEF Init, WorkInv, ObjectsOK, EnginesOK, WorkerOK

(* What a change of an object does to it and to the rest. *)
LEMMA ChangeFacts ==
  ASSUME TypeInv, ObjectsOK, NEW p \in Policies,
         CreatePolicy(p) \/ UpdateSpec(p) \/ DeletePolicy(p)
  PROVE  /\ obj' \in [Policies -> Objs]
         /\ \A q \in Policies \ {p} : obj'[q] = obj[q]
         /\ obj'[p].uid >= obj[p].uid
         /\ obj'[p].exists => obj'[p].uid >= 1 /\ obj'[p].path \in PathsOf[p]
<1>0. obj \in [Policies -> Objs] /\ obj[p] \in Objs /\ PathsOf[p] \subseteq Paths
  BY DEF TypeInv, Paths
<1>1. CASE CreatePolicy(p)
  <2>1. PICK f \in PathsOf[p] :
          obj' = [obj EXCEPT ![p] =
                    [exists |-> TRUE, uid |-> @.uid + 1, gen |-> 1, path |-> f]]
    BY <1>1 DEF CreatePolicy
  <2> DEFINE o == [exists |-> TRUE, uid |-> obj[p].uid + 1, gen |-> 1, path |-> f]
  <2>2. o \in Objs /\ o.uid = obj[p].uid + 1 /\ o.path = f /\ obj[p].uid \in Nat
    BY <1>0 DEF Objs
  <2>3. obj' = [obj EXCEPT ![p] = o]
    BY <2>1
  <2> HIDE DEF o
  <2> QED BY <1>0, <2>2, <2>3
<1>2. CASE UpdateSpec(p)
  <2>1. PICK f \in PathsOf[p] : obj' = [obj EXCEPT ![p].gen = @ + 1, ![p].path = f]
    BY <1>2 DEF UpdateSpec
  <2> DEFINE o == [obj[p] EXCEPT !.gen = @ + 1, !.path = f]
  <2>0. obj[p].uid \in Nat /\ obj[p].gen + 1 \in Nat /\ f \in Paths
    BY <1>0 DEF Objs
  <2>2. o \in Objs /\ o.uid = obj[p].uid /\ o.path = f /\ obj[p].uid \in Nat
    BY <1>0, <2>0 DEF Objs
  <2>3. obj' = [obj EXCEPT ![p] = o]
    BY <1>0, <2>1
  <2>4. obj[p].uid >= 1
    BY <1>2 DEF UpdateSpec, ObjectsOK
  <2> HIDE DEF o
  <2> QED BY <1>0, <2>2, <2>3, <2>4
<1>3. CASE DeletePolicy(p)
  <2> DEFINE o == [NoObj EXCEPT !.uid = obj[p].uid]
  <2>1. o \in Objs /\ o.uid = obj[p].uid /\ o.exists = FALSE /\ obj[p].uid \in Nat
    BY <1>0 DEF Objs, NoObj
  <2>2. obj' = [obj EXCEPT ![p] = o]
    BY <1>3 DEF DeletePolicy
  <2> HIDE DEF o
  <2> QED BY <1>0, <2>1, <2>2
<1> QED BY <1>1, <1>2, <1>3

(* A change of an object leaves the worker and the engines. *)
LEMMA ChangeWork ==
  ASSUME WorkInv, NEW p \in Policies,
         CreatePolicy(p) \/ UpdateSpec(p) \/ DeletePolicy(p)
  PROVE  WorkInv'
<1>0. TypeInv /\ ObjectsOK /\ EnginesOK /\ WorkerOK
  BY DEF WorkInv
<1>1. /\ obj' \in [Policies -> Objs]
      /\ \A q \in Policies \ {p} : obj'[q] = obj[q]
      /\ obj'[p].uid >= obj[p].uid
      /\ obj'[p].exists => obj'[p].uid >= 1 /\ obj'[p].path \in PathsOf[p]
  BY <1>0, ChangeFacts
<1>2. queue' = queue \cup {p} /\ changes' = changes + 1 /\ UNCHANGED worker
  BY DEF CreatePolicy, UpdateSpec, DeletePolicy, Change
<1>3. status' \in [Policies -> [gen : Nat, run : Runs]]
  <2>1. NoStatus \in [gen : Nat, run : Runs]
    BY DEF NoStatus, NoRun, Runs
  <2>2. status' = status \/ status' = [status EXCEPT ![p] = NoStatus]
    BY DEF CreatePolicy, UpdateSpec, DeletePolicy
  <2> QED BY <1>0, <2>1, <2>2 DEF TypeInv
<1>4. TypeInv'
  BY <1>0, <1>1, <1>2, <1>3 DEF TypeInv, worker
<1>5. \A q \in Policies : 1..obj[q].uid \subseteq 1..obj'[q].uid
  <2>1. \A q \in Policies : obj[q].uid \in Nat /\ obj'[q].uid \in Nat
    BY <1>0, <1>1 DEF TypeInv, Objs
  <2>2. \A q \in Policies : obj[q].uid <= obj'[q].uid
    BY <1>1, <2>1
  <2> QED BY <2>1, <2>2
<1>6. ObjectsOK'
  BY <1>0, <1>1 DEF ObjectsOK
<1>7. EnginesOK'
  BY <1>0, <1>2, <1>5 DEF EnginesOK, worker
<1>8. WorkerOK'
  BY <1>0, <1>2, <1>5 DEF WorkerOK, worker, TypeInv
<1> QED BY <1>4, <1>6, <1>7, <1>8 DEF WorkInv

(* The worker's part of a step that ends a reconcile or only runs a timer. *)
LEMMA GetWork ==
  ASSUME WorkInv, NEW p \in Policies, Get(p)
  PROVE  WorkInv'
<1>0. /\ TypeInv /\ ObjectsOK /\ EnginesOK /\ WorkerOK
      /\ active = None /\ step = "idle" /\ p # None
  BY NoneAssumption DEF WorkInv, Get, WorkerOK
<1>1. UNCHANGED << obj, status, timers, files, spoilt, nextId, changes, restarts >>
  BY DEF Get
<1>2. CASE /\ obj[p].exists /\ queue' = queue \ {p} /\ active' = p /\ step' = "engine"
           /\ seen' = [uid |-> obj[p].uid, gen |-> obj[p].gen, path |-> obj[p].path,
                       observed |-> status[p].gen]
           /\ UNCHANGED << engines, faults >>
  <2>1. obj[p] \in Objs /\ status[p].gen \in Nat
    BY <1>0 DEF TypeInv
  <2>2. obj[p].uid \in 1..obj[p].uid /\ obj[p].path \in PathsOf[p]
    BY <1>0, <1>2, <2>1 DEF ObjectsOK, Objs
  <2>3. /\ seen' \in [uid : Nat, gen : Nat, path : Paths \cup {None}, observed : Nat]
        /\ seen'.uid = obj[p].uid /\ seen'.path = obj[p].path
    BY <1>2, <2>1 DEF Objs
  <2>4. TypeInv'
    BY <1>0, <1>1, <1>2, <2>3 DEF TypeInv
  <2>5. WorkerOK'
    BY <1>0, <1>1, <1>2, <2>2, <2>3 DEF WorkerOK
  <2> QED BY <1>0, <1>1, <1>2, <2>4, <2>5 DEF WorkInv, ObjectsOK, EnginesOK
<1>3. CASE /\ queue' = queue \ {p} /\ engines' = [engines EXCEPT ![p] = NoEngine]
           /\ UNCHANGED << active, step, seen, faults >>
  <2>1. NoEngine \in Engines
    BY DEF NoEngine, Engines
  <2>2. TypeInv'
    BY <1>0, <1>1, <1>3, <2>1 DEF TypeInv
  <2>3. EnginesOK'
    BY <1>0, <1>1, <1>3 DEF EnginesOK, TypeInv
  <2> QED BY <1>0, <1>1, <1>3, <2>2, <2>3 DEF WorkInv, ObjectsOK, WorkerOK
<1>4. CASE Fault /\ UNCHANGED << queue, active, step, seen, engines >>
  <2>1. TypeInv'
    BY <1>0, <1>1, <1>4 DEF Fault, TypeInv
  <2> QED BY <1>0, <1>1, <1>4, <2>1 DEF WorkInv, ObjectsOK, EnginesOK, WorkerOK
<1> QED BY <1>2, <1>3, <1>4 DEF Get

(* A reconcile that ends leaves an idle worker. *)
LEMMA DoneWork ==
  ASSUME Done
  PROVE  /\ active' = None /\ step' = "idle" /\ WorkerOK'
         /\ seen' \in [uid : Nat, gen : Nat, path : Paths \cup {None}, observed : Nat]
BY DEF Done, NoSeen, WorkerOK

(* engineFor leaves an engine of the generation that was read, or none. *)
LEMMA EngineForWork ==
  ASSUME WorkInv, EngineFor
  PROVE  WorkInv'
<1>0. /\ TypeInv /\ ObjectsOK /\ EnginesOK /\ WorkerOK
      /\ step = "engine" /\ active \in Policies
      /\ seen.uid \in 1..obj[active].uid /\ seen.path \in PathsOf[active]
      /\ engines \in [Policies -> Engines] /\ PathsOf[active] \subseteq Paths
  BY DEF WorkInv, EngineFor, WorkerOK, TypeInv, Paths
<1>1. UNCHANGED << obj, queue, files, spoilt, nextId, changes, restarts >>
  BY DEF EngineFor
<1>2. CASE Cached(active) /\ step' = "rotate"
           /\ UNCHANGED << engines, status, timers, active, seen, faults >>
  <2>1. WorkerOK'
    BY <1>0, <1>1, <1>2 DEF Cached, WorkerOK
  <2>2. TypeInv'
    BY <1>0, <1>1, <1>2 DEF TypeInv
  <2> QED BY <1>0, <1>1, <1>2, <2>1, <2>2 DEF WorkInv, ObjectsOK, EnginesOK
<1>3. CASE /\ engines' = [engines EXCEPT ![active] =
                            [uid |-> seen.uid, gen |-> seen.gen, path |-> seen.path,
                             last |-> LastId(seen.path), store |-> Holding(seen.path)]]
           /\ step' = "rotate"
           /\ UNCHANGED << status, timers, active, seen, faults >>
  <2> DEFINE e == [uid |-> seen.uid, gen |-> seen.gen, path |-> seen.path,
                   last |-> LastId(seen.path), store |-> Holding(seen.path)]
  <2>1. LastId(seen.path) \in Nat
    <3>1. files[seen.path] \in Seq(Lines)
      BY <1>0 DEF TypeInv
    <3>2. files[seen.path] # << >> => files[seen.path][Len(files[seen.path])] \in Lines
      BY <3>1, EmptySeq, ElementOfSeq
    <3> QED BY <3>2 DEF LastId, Lines
  <2>2. e \in Engines /\ e.uid = seen.uid /\ e.gen = seen.gen /\ e.path = seen.path
    BY <1>0, <2>1 DEF TypeInv, Engines, Holding
  <2>3. e # NoEngine
    BY <1>0, <2>2 DEF NoEngine
  <2>4. engines' = [engines EXCEPT ![active] = e]
    BY <1>3
  <2> HIDE DEF e
  <2>5. /\ engines' \in [Policies -> Engines] /\ engines'[active] = e
        /\ \A q \in Policies \ {active} : engines'[q] = engines[q]
    BY <1>0, <2>2, <2>4
  <2>6. TypeInv'
    BY <1>0, <1>1, <1>3, <2>5 DEF TypeInv
  <2>7. EnginesOK'
    BY <1>0, <1>1, <2>2, <2>5 DEF EnginesOK
  <2>8. WorkerOK'
    BY <1>0, <1>1, <1>3, <2>2, <2>3, <2>5 DEF WorkerOK
  <2> QED BY <1>0, <1>1, <2>6, <2>7, <2>8 DEF WorkInv, ObjectsOK
<1>4. CASE /\ engines' = [engines EXCEPT ![active] = NoEngine]
           /\ PatchStatus(active, status[active].run) /\ Requeue(active) /\ Done
  <2>1. NoEngine \in Engines
    BY DEF NoEngine, Engines
  <2>2. status' \in [Policies -> [gen : Nat, run : Runs]] /\ faults' \in Nat
    BY <1>0, <1>4, PatchFacts DEF TypeInv
  <2>3. TypeInv'
    BY <1>0, <1>1, <1>4, <2>1, <2>2, DoneWork DEF TypeInv, Requeue
  <2>4. EnginesOK'
    BY <1>0, <1>1, <1>4 DEF EnginesOK
  <2> QED BY <1>0, <1>1, <1>4, <2>3, <2>4, DoneWork DEF WorkInv, ObjectsOK
<1> QED BY <1>2, <1>3, <1>4 DEF EngineFor

(* Neither a record sealed nor a store shut changes whose engine it is. *)
LEMMA SameEngine ==
  ASSUME WorkInv, NEW p \in Policies, engines[p] # NoEngine,
         NEW n \in Nat, NEW h \in {"empty", "some", "closed"},
         engines' = [engines EXCEPT ![p] = [engines[p] EXCEPT !.last = n, !.store = h]]
  PROVE  /\ engines' \in [Policies -> Engines]
         /\ engines'[p].uid = engines[p].uid /\ engines'[p].gen = engines[p].gen
         /\ engines'[p].path = engines[p].path
         /\ engines'[p].last = n /\ engines'[p].store = h
         /\ engines'[p] # NoEngine
         /\ \A q \in Policies \ {p} : engines'[q] = engines[q]
<1> DEFINE e == [engines[p] EXCEPT !.last = n, !.store = h]
<1>1. engines \in [Policies -> Engines] /\ engines[p] \in Engines
  BY DEF WorkInv, TypeInv
<1>2. /\ e \in Engines /\ e.uid = engines[p].uid /\ e.gen = engines[p].gen
      /\ e.path = engines[p].path /\ e.last = n /\ e.store = h
  BY <1>1 DEF Engines
<1>3. engines' = [engines EXCEPT ![p] = e]
  BY <1>1
<1>4. e.uid # 0
  BY <1>2 DEF WorkInv, EnginesOK
<1>5. e # NoEngine
  BY <1>4 DEF NoEngine
<1> HIDE DEF e
<1>6. engines'[p] = e /\ engines' \in [Policies -> Engines]
  BY <1>1, <1>2, <1>3
<1>7. \A q \in Policies \ {p} : engines'[q] = engines[q]
  BY <1>1, <1>3
<1> QED BY <1>2, <1>5, <1>6, <1>7

(* An engine that seals a record has it as its head. *)
LEMMA SealedEngine ==
  ASSUME WorkInv, NEW p \in Policies, engines[p] # NoEngine,
         NEW h \in {"empty", "some", "closed"}, Sealed(p, h)
  PROVE  /\ nextId' \in Nat
         /\ engines' \in [Policies -> Engines]
         /\ engines'[p].uid = engines[p].uid /\ engines'[p].gen = engines[p].gen
         /\ engines'[p].path = engines[p].path
         /\ engines'[p].last = nextId /\ engines'[p].store = h
         /\ engines'[p] # NoEngine
         /\ \A q \in Policies \ {p} : engines'[q] = engines[q]
<1>1. nextId \in Nat
  BY DEF WorkInv, TypeInv
<1>2. nextId' \in Nat
  BY <1>1 DEF Sealed
<1>3. engines' = [engines EXCEPT ![p] = [engines[p] EXCEPT !.last = nextId, !.store = h]]
  BY DEF Sealed
<1> QED BY <1>1, <1>2, <1>3, SameEngine

(* So has an engine whose store is shut, its old one. *)
LEMMA ShutEngine ==
  ASSUME WorkInv, NEW p \in Policies, engines[p] # NoEngine,
         engines' = [engines EXCEPT ![p].store = "closed"]
  PROVE  /\ engines' \in [Policies -> Engines]
         /\ engines'[p].uid = engines[p].uid /\ engines'[p].gen = engines[p].gen
         /\ engines'[p].path = engines[p].path /\ engines'[p].store = "closed"
         /\ engines'[p] # NoEngine
         /\ \A q \in Policies \ {p} : engines'[q] = engines[q]
<1>1. engines \in [Policies -> Engines] /\ engines[p] \in Engines
  BY DEF WorkInv, TypeInv
<1>2. [engines[p] EXCEPT !.store = "closed"]
        = [engines[p] EXCEPT !.last = engines[p].last, !.store = "closed"]
  BY <1>1 DEF Engines
<1>3. engines' = [engines EXCEPT ![p] =
                    [engines[p] EXCEPT !.last = engines[p].last, !.store = "closed"]]
  BY <1>2
<1>4. engines[p].last \in Nat
  BY <1>1 DEF Engines
<1> QED BY <1>3, <1>4, SameEngine

(* What a failed append leaves are lines. *)
LEMMA RemainsLines ==
  ASSUME TypeInv, NEW n \in Nat, NEW left \in Remains(n)
  PROVE  left \in Seq(Lines)
<1>1. [id |-> nextId, prev |-> n] \in Lines /\ [id |-> nextId, prev |-> nextId] \in Lines
  BY DEF TypeInv, Lines
<1>2. /\ << >> \in Seq(Lines) /\ << [id |-> nextId, prev |-> n] >> \in Seq(Lines)
      /\ << [id |-> nextId, prev |-> nextId] >> \in Seq(Lines)
  BY <1>1
<1> QED BY <1>2 DEF Remains

(* An engine that is the old one but for its head and its store is as good. *)
LEMMA KeptEngines ==
  ASSUME WorkInv, NEW p \in Policies, engines[p] # NoEngine, obj' = obj,
         engines'[p].uid = engines[p].uid, engines'[p].path = engines[p].path,
         \A q \in Policies \ {p} : engines'[q] = engines[q]
  PROVE  EnginesOK'
BY DEF WorkInv, EnginesOK

(* A cycle that fails leaves an idle worker and a status of the old run. *)
LEMMA CycleFailsWork ==
  ASSUME WorkInv, active \in Policies, CycleFails(active),
         UNCHANGED << obj, queue, changes, restarts >>,
         engines' \in [Policies -> Engines], EnginesOK',
         files' \in [Paths -> Seq(Lines)], spoilt' \subseteq Paths, nextId' \in Nat
  PROVE  WorkInv'
<1>0. TypeInv /\ ObjectsOK /\ Done
  BY DEF WorkInv, CycleFails
<1>1. status' \in [Policies -> [gen : Nat, run : Runs]] /\ faults' \in Nat
  BY <1>0, PatchFacts DEF TypeInv, CycleFails
<1>2. timers' \subseteq Policies
  BY <1>0 DEF TypeInv, CycleFails, Requeue
<1>3. TypeInv'
  BY <1>0, <1>1, <1>2, DoneWork DEF TypeInv
<1> QED BY <1>0, <1>3, DoneWork DEF WorkInv, ObjectsOK

(* MaybeRotate, whether it leaves the store, rotates it or fails. *)
LEMMA MaybeRotateWork ==
  ASSUME WorkInv, MaybeRotate
  PROVE  WorkInv'
<1> DEFINE e == engines[active]
<1>0. /\ TypeInv /\ ObjectsOK /\ EnginesOK /\ WorkerOK
      /\ step = "rotate" /\ active \in Policies /\ e # NoEngine /\ e.gen = seen.gen
      /\ e \in Engines /\ e.path \in Paths
  BY DEF WorkInv, MaybeRotate, WorkerOK, TypeInv, Paths, EnginesOK
<1>1. UNCHANGED << obj, queue, changes, restarts >>
  BY DEF MaybeRotate
<1>2. CASE /\ e.store # "closed"
           /\ step' = "run"
           /\ UNCHANGED << active, seen, status, timers, faults, files, spoilt, engines,
                           nextId >>
  <2>1. TypeInv'
    BY <1>0, <1>1, <1>2 DEF TypeInv
  <2> QED BY <1>0, <1>1, <1>2, <2>1 DEF WorkInv, ObjectsOK, EnginesOK, WorkerOK
<1>3. CASE /\ Sealed(active, "some")
           /\ files' = [files EXCEPT ![e.path] = << [id |-> nextId, prev |-> 0] >>]
           /\ spoilt' = spoilt \ {e.path}
           /\ step' = "run"
           /\ UNCHANGED << active, seen, status, timers, faults >>
  <2>1. << [id |-> nextId, prev |-> 0] >> \in Seq(Lines)
    <3>1. [id |-> nextId, prev |-> 0] \in Lines
      BY <1>0 DEF TypeInv, Lines
    <3> QED BY <3>1
  <2>2. files' \in [Paths -> Seq(Lines)]
    BY <1>0, <1>3, <2>1 DEF TypeInv
  <2>3. /\ nextId' \in Nat /\ engines' \in [Policies -> Engines]
        /\ engines'[active].gen = e.gen /\ engines'[active].store = "some"
        /\ engines'[active] # NoEngine
    BY <1>0, <1>3, SealedEngine
  <2>4. TypeInv'
    BY <1>0, <1>1, <1>3, <2>2, <2>3 DEF TypeInv
  <2>5. EnginesOK'
    BY <1>0, <1>1, <1>3, SealedEngine, KeptEngines
  <2>6. WorkerOK'
    BY <1>0, <1>1, <1>3, <2>3 DEF WorkerOK
  <2> QED BY <1>0, <1>1, <2>4, <2>5, <2>6 DEF WorkInv, ObjectsOK
<1>4. CASE /\ Sealed(active, "empty")
           /\ \E left \in Remains(0) : files' = [files EXCEPT ![e.path] = left]
           /\ spoilt' = spoilt \cup {e.path}
           /\ CycleFails(active)
  <2>1. files' \in [Paths -> Seq(Lines)]
    BY <1>0, <1>4, RemainsLines DEF TypeInv
  <2>2. /\ nextId' \in Nat /\ engines' \in [Policies -> Engines] /\ spoilt' \subseteq Paths
    BY <1>0, <1>4, SealedEngine DEF TypeInv
  <2>3. EnginesOK'
    BY <1>0, <1>1, <1>4, SealedEngine, KeptEngines
  <2> QED BY <1>0, <1>1, <1>4, <2>1, <2>2, <2>3, CycleFailsWork
<1>5. CASE /\ engines' = [engines EXCEPT ![active].store = "closed"]
           /\ files' \in {files, [files EXCEPT ![e.path] = << >>]}
           /\ UNCHANGED << spoilt, nextId >>
           /\ CycleFails(active)
  <2>1. files' \in [Paths -> Seq(Lines)]
    <3>1. << >> \in Seq(Lines)
      OBVIOUS
    <3> QED BY <1>0, <1>5, <3>1 DEF TypeInv
  <2>2. engines' \in [Policies -> Engines] /\ spoilt' \subseteq Paths /\ nextId' \in Nat
    BY <1>0, <1>5, ShutEngine DEF TypeInv
  <2>3. EnginesOK'
    BY <1>0, <1>1, <1>5, ShutEngine, KeptEngines
  <2> QED BY <1>0, <1>1, <1>5, <2>1, <2>2, <2>3, CycleFailsWork
<1>6. CASE UNCHANGED << files, spoilt, engines, nextId >> /\ CycleFails(active)
  <2>1. /\ engines' \in [Policies -> Engines] /\ EnginesOK' /\ spoilt' \subseteq Paths
        /\ files' \in [Paths -> Seq(Lines)] /\ nextId' \in Nat
    BY <1>0, <1>1, <1>6 DEF TypeInv, EnginesOK
  <2> QED BY <1>0, <1>1, <1>6, <2>1, CycleFailsWork
<1> QED BY <1>2, <1>3, <1>4, <1>5, <1>6 DEF MaybeRotate

(* The rest of RunOnce, whether it appends, observes nothing or fails. *)
LEMMA RunOnceWork ==
  ASSUME WorkInv, RunOnce
  PROVE  WorkInv'
<1> DEFINE e == engines[active]
<1>0. /\ TypeInv /\ ObjectsOK /\ EnginesOK /\ WorkerOK
      /\ step = "run" /\ active \in Policies /\ e # NoEngine /\ e.gen = seen.gen
      /\ e \in Engines /\ e.path \in Paths /\ e.last \in Nat
      /\ e.store \in {"empty", "some", "closed"} /\ files[e.path] \in Seq(Lines)
  <2>1. TypeInv /\ ObjectsOK /\ EnginesOK /\ WorkerOK /\ step = "run"
    BY DEF WorkInv, RunOnce
  <2>2. active \in Policies /\ e # NoEngine /\ e.gen = seen.gen
    BY <2>1 DEF WorkerOK, TypeInv
  <2>3. e \in Engines /\ e.path \in Paths
    BY <2>1, <2>2 DEF TypeInv, EnginesOK, Paths
  <2> QED BY <2>1, <2>2, <2>3 DEF Engines, TypeInv
<1>1. UNCHANGED << obj, queue, changes, restarts >>
  BY DEF RunOnce
<1>2. CASE /\ Sealed(active, "some")
           /\ files' = [files EXCEPT ![e.path] = Append(@, [id |-> nextId, prev |-> e.last])]
           /\ step' = "export"
           /\ UNCHANGED << active, seen, status, timers, faults, spoilt >>
  <2>1. files' \in [Paths -> Seq(Lines)]
    <3>1. [id |-> nextId, prev |-> e.last] \in Lines
      BY <1>0 DEF TypeInv, Lines
    <3>2. Append(files[e.path], [id |-> nextId, prev |-> e.last]) \in Seq(Lines)
      BY <1>0, <3>1
    <3> QED BY <1>0, <1>2, <3>2 DEF TypeInv
  <2>2. /\ nextId' \in Nat /\ engines' \in [Policies -> Engines]
        /\ engines'[active].gen = e.gen /\ engines'[active] # NoEngine
    BY <1>0, <1>2, SealedEngine
  <2>3. TypeInv'
    BY <1>0, <1>1, <1>2, <2>1, <2>2 DEF TypeInv
  <2>4. EnginesOK'
    BY <1>0, <1>1, <1>2, SealedEngine, KeptEngines
  <2>5. WorkerOK'
    BY <1>0, <1>1, <1>2, <2>2 DEF WorkerOK
  <2> QED BY <1>0, <1>1, <2>3, <2>4, <2>5 DEF WorkInv, ObjectsOK
<1>3. CASE /\ step' = "export"
           /\ UNCHANGED << active, seen, status, timers, faults, files, spoilt, engines,
                           nextId >>
  <2>1. TypeInv'
    BY <1>0, <1>1, <1>3 DEF TypeInv
  <2> QED BY <1>0, <1>1, <1>3, <2>1 DEF WorkInv, ObjectsOK, EnginesOK, WorkerOK
<1>4. CASE /\ Sealed(active, e.store)
           /\ \E left \in Remains(e.last) : files' = [files EXCEPT ![e.path] = @ \o left]
           /\ spoilt' = spoilt \cup {e.path}
           /\ CycleFails(active)
  <2>1. files' \in [Paths -> Seq(Lines)]
    <3>1. PICK left \in Remains(e.last) : files' = [files EXCEPT ![e.path] = @ \o left]
      BY <1>4
    <3>2. left \in Seq(Lines)
      BY <1>0, <3>1, RemainsLines
    <3>3. files[e.path] \o left \in Seq(Lines)
      BY <1>0, <3>2
    <3> QED BY <1>0, <3>1, <3>3 DEF TypeInv
  <2>2. /\ nextId' \in Nat /\ engines' \in [Policies -> Engines] /\ spoilt' \subseteq Paths
    BY <1>0, <1>4, SealedEngine DEF TypeInv
  <2>3. EnginesOK'
    BY <1>0, <1>1, <1>4, SealedEngine, KeptEngines
  <2> QED BY <1>0, <1>1, <1>4, <2>1, <2>2, <2>3, CycleFailsWork
<1> QED BY <1>2, <1>3, <1>4 DEF RunOnce

(* The final status is that of the run, or keeps that of an earlier one. *)
LEMMA FinishPatch ==
  ASSUME WorkInv, Finish
  PROVE  /\ active \in Policies
         /\ \E run \in Runs :
              /\ \/ run = status[active].run
                 \/ run = [for |-> << seen.uid, seen.gen >>,
                           by  |-> << engines[active].uid, engines[active].gen >>]
              /\ PatchStatus(active, run)
<1>1. active \in Policies /\ TypeInv
  BY DEF WorkInv, WorkerOK, Finish, TypeInv
<1>2. /\ status[active].run \in Runs
      /\ [for |-> << seen.uid, seen.gen >>,
          by  |-> << engines[active].uid, engines[active].gen >>] \in Runs
  BY <1>1 DEF TypeInv, Engines, Runs
<1> QED BY <1>1, <1>2 DEF Finish

(* Finish leaves an idle worker. *)
LEMMA FinishWork ==
  ASSUME WorkInv, Finish
  PROVE  WorkInv'
<1>0. TypeInv /\ ObjectsOK /\ EnginesOK /\ active \in Policies
  BY FinishPatch DEF WorkInv
<1>1. /\ UNCHANGED << obj, queue, engines, files, spoilt, nextId, changes, restarts >>
      /\ Done /\ Requeue(active)
  BY DEF Finish
<1>2. status' \in [Policies -> [gen : Nat, run : Runs]] /\ faults' \in Nat
  BY <1>0, FinishPatch, PatchFacts
<1>3. TypeInv'
  BY <1>0, <1>1, <1>2, DoneWork DEF TypeInv, Requeue
<1> QED BY <1>0, <1>1, <1>3, DoneWork DEF WorkInv, ObjectsOK, EnginesOK

(* Every step keeps what the worker relies on. *)
LEMMA WorkStep == WorkInv /\ [Next]_vars => WorkInv'
<1> SUFFICES ASSUME WorkInv, [Next]_vars PROVE WorkInv'
  OBVIOUS
<1>0. TypeInv /\ ObjectsOK /\ EnginesOK /\ WorkerOK
  BY DEF WorkInv
<1>1. CASE UNCHANGED vars
  BY <1>1 DEF vars, WorkInv, TypeInv, ObjectsOK, EnginesOK, WorkerOK
<1>2. ASSUME NEW p \in Policies, CreatePolicy(p) \/ UpdateSpec(p) \/ DeletePolicy(p)
      PROVE  WorkInv'
  BY <1>2, ChangeWork
<1>3. ASSUME NEW p \in Policies, TimerFires(p)
      PROVE  WorkInv'
  <2>1. TypeInv'
    BY <1>0, <1>3 DEF TimerFires, TypeInv
  <2> QED BY <1>0, <1>3, <2>1 DEF TimerFires, WorkInv, ObjectsOK, EnginesOK, WorkerOK
<1>4. ASSUME NEW p \in Policies, Get(p)
      PROVE  WorkInv'
  BY <1>4, GetWork
<1>5. CASE Restart
  <2>1. NoEngine \in Engines
    BY DEF NoEngine, Engines
  <2>2. TypeInv'
    BY <1>0, <1>5, <2>1, DoneWork DEF Restart, TypeInv
  <2>3. EnginesOK'
    BY <1>5 DEF Restart, EnginesOK
  <2> QED BY <1>0, <1>5, <2>2, <2>3, DoneWork DEF Restart, WorkInv, ObjectsOK
<1> QED
  BY <1>1, <1>2, <1>3, <1>4, <1>5, EngineForWork, MaybeRotateWork, RunOnceWork,
     FinishWork DEF Next
-----------------------------------------------------------------------------
(* A policy that goes while it is reconciled is in the queue again. *)
Recalled == active # None /\ ~obj[active].exists => active \in queue

QueueInv == WorkInv /\ NeverForgotten /\ Recalled

(* Every step keeps a way back to every policy. *)
LEMMA QueueStep == QueueInv /\ [Next]_vars => NeverForgotten' /\ Recalled'
<1> SUFFICES ASSUME QueueInv, [Next]_vars PROVE NeverForgotten' /\ Recalled'
  OBVIOUS
<1>0. /\ TypeInv /\ ObjectsOK /\ EnginesOK /\ WorkerOK /\ NeverForgotten /\ Recalled
      /\ None \notin Policies
  BY NoneAssumption DEF QueueInv, WorkInv
<1>1. CASE UNCHANGED vars
  BY <1>0, <1>1 DEF vars, NeverForgotten, Recalled
<1>2. ASSUME NEW p \in Policies, CreatePolicy(p) \/ UpdateSpec(p) \/ DeletePolicy(p)
      PROVE  NeverForgotten' /\ Recalled'
  <2>1. \A q \in Policies \ {p} : obj'[q] = obj[q]
    BY <1>0, <1>2, ChangeFacts
  <2>2. queue' = queue \cup {p} /\ UNCHANGED << timers, active, engines >>
    BY <1>2 DEF CreatePolicy, UpdateSpec, DeletePolicy, Change, worker
  <2>3. NeverForgotten'
    BY <1>0, <2>1, <2>2 DEF NeverForgotten
  <2>4. Recalled'
    BY <1>0, <2>1, <2>2 DEF Recalled, TypeInv
  <2> QED BY <2>3, <2>4
<1>3. ASSUME NEW p \in Policies, TimerFires(p)
      PROVE  NeverForgotten' /\ Recalled'
  BY <1>0, <1>3 DEF TimerFires, NeverForgotten, Recalled
<1>4. ASSUME NEW p \in Policies, Get(p)
      PROVE  NeverForgotten' /\ Recalled'
  <2>1. active = None /\ p \in queue /\ UNCHANGED << obj, timers >>
    BY <1>4 DEF Get
  <2>2. CASE obj[p].exists /\ queue' = queue \ {p} /\ active' = p /\ UNCHANGED engines
    BY <1>0, <2>1, <2>2 DEF NeverForgotten, Recalled
  <2>3. CASE /\ ~obj[p].exists /\ queue' = queue \ {p}
             /\ engines' = [engines EXCEPT ![p] = NoEngine] /\ UNCHANGED active
    <3>1. engines'[p] = NoEngine /\ \A q \in Policies \ {p} : engines'[q] = engines[q]
      BY <1>0, <2>3 DEF TypeInv
    <3> QED BY <1>0, <2>1, <2>3, <3>1 DEF NeverForgotten, Recalled
  <2>4. CASE UNCHANGED << queue, active, engines >>
    BY <1>0, <2>1, <2>4 DEF NeverForgotten, Recalled
  <2> QED BY <1>4, <2>2, <2>3, <2>4 DEF Get
<1>5. CASE EngineFor
  <2>1. active \in Policies /\ UNCHANGED << obj, queue >>
    BY <1>0, <1>5 DEF EngineFor, WorkerOK, TypeInv
  <2>2. CASE UNCHANGED << engines, timers, active >>
    BY <1>0, <2>1, <2>2 DEF NeverForgotten, Recalled
  <2>3. CASE /\ \E e : engines' = [engines EXCEPT ![active] = e]
             /\ UNCHANGED << timers, active >>
    <3>1. \A q \in Policies \ {active} : engines'[q] = engines[q]
      BY <1>0, <2>3 DEF TypeInv
    <3> QED BY <1>0, <2>1, <2>3, <3>1 DEF NeverForgotten, Recalled
  <2>4. CASE engines' = [engines EXCEPT ![active] = NoEngine] /\ Requeue(active) /\ Done
    <3>1. \A q \in Policies : engines'[q] = engines[q] \/ engines'[q] = NoEngine
      BY <1>0, <2>4 DEF TypeInv
    <3>2. active' = None /\ timers' = timers \cup {active}
      BY <2>4 DEF Requeue, Done
    <3> QED BY <1>0, <2>1, <3>1, <3>2 DEF NeverForgotten, Recalled
  <2> QED BY <1>5, <2>2, <2>3, <2>4 DEF EngineFor
<1>6. CASE MaybeRotate \/ RunOnce \/ Finish
  <2>1. active \in Policies /\ UNCHANGED << obj, queue >>
    BY <1>0, <1>6 DEF MaybeRotate, RunOnce, Finish, WorkerOK, TypeInv
  <2>2. \A q \in Policies \ {active} : engines'[q] = engines[q]
    <3>1. \/ engines' = engines
          \/ \E e : engines' = [engines EXCEPT ![active] = e]
      <4>1. CASE engines' = [engines EXCEPT ![active].store = "closed"]
        BY <4>1
      <4>2. ASSUME NEW h, Sealed(active, h)
            PROVE  \E e : engines' = [engines EXCEPT ![active] = e]
        BY <4>2 DEF Sealed
      <4> QED BY <1>6, <4>1, <4>2 DEF MaybeRotate, RunOnce, Finish
    <3> QED BY <1>0, <3>1 DEF TypeInv
  <2>3. engines[active] # NoEngine
    BY <1>0, <1>6 DEF MaybeRotate, RunOnce, Finish, WorkerOK
  <2>4. \/ UNCHANGED << timers, active >>
        \/ active' = None /\ timers' = timers \cup {active}
    BY <1>6 DEF MaybeRotate, RunOnce, Finish, CycleFails, Requeue, Done
  <2> QED BY <1>0, <2>1, <2>2, <2>3, <2>4 DEF NeverForgotten, Recalled
<1>7. CASE Restart
  BY <1>7 DEF Restart, Done, NeverForgotten, Recalled
<1> QED
  BY <1>1, <1>2, <1>3, <1>4, <1>5, <1>6, <1>7 DEF Next

(***************************************************************************)
(* Whatever comes between - changes during a reconcile, failed reads,      *)
(* builds, cycles and patches, restarts - every policy is in the queue, on *)
(* a timer or being reconciled, and a deleted one's engine will be closed. *)
(***************************************************************************)
THEOREM NoneEverForgotten == Spec => []NeverForgotten
<1>1. Init => QueueInv
  <2> SUFFICES ASSUME Init PROVE NeverForgotten /\ Recalled
    BY WorkInit DEF QueueInv
  <2>1. \A p \in Policies : obj[p].exists = FALSE /\ engines[p] = NoEngine
    BY DEF Init, NoObj
  <2> QED BY <2>1 DEF Init, NeverForgotten, Recalled
<1>2. QueueInv /\ [Next]_vars => QueueInv'
  BY WorkStep, QueueStep DEF QueueInv
<1>3. QueueInv => NeverForgotten
  BY DEF QueueInv
<1> QED BY <1>1, <1>2, <1>3, PTL DEF Spec
-----------------------------------------------------------------------------
(* A status changes when its policy comes or goes, or by a patch. *)
LEMMA StatusStep == WorkInv /\ StatusTruthful /\ [Next]_vars => StatusTruthful'
<1> SUFFICES ASSUME WorkInv, StatusTruthful, [Next]_vars PROVE StatusTruthful'
  OBVIOUS
<1>0. TypeInv /\ ObjectsOK /\ EnginesOK /\ WorkerOK
  BY DEF WorkInv
<1>1. CASE UNCHANGED << obj, status >>
  BY <1>1 DEF StatusTruthful
<1>2. ASSUME NEW p \in Policies, CreatePolicy(p) \/ DeletePolicy(p)
      PROVE  StatusTruthful'
  <2>1. \A q \in Policies \ {p} : obj'[q] = obj[q] /\ status'[q] = status[q]
    BY <1>0, <1>2, ChangeFacts DEF CreatePolicy, DeletePolicy, TypeInv
  <2>2. status'[p] = NoStatus
    BY <1>0, <1>2 DEF CreatePolicy, DeletePolicy, TypeInv
  <2>3. NoStatus.run.by = NoStatus.run.for
    BY DEF NoStatus, NoRun
  <2> QED BY <2>1, <2>2, <2>3 DEF StatusTruthful
<1>3. ASSUME NEW p \in Policies, UpdateSpec(p)
      PROVE  StatusTruthful'
  <2>1. status' = status /\ \A q \in Policies \ {p} : obj'[q] = obj[q]
    BY <1>0, <1>3, ChangeFacts DEF UpdateSpec
  <2>2. obj[p].exists /\ obj'[p].uid = obj[p].uid
    <3>1. PICK f \in PathsOf[p] : obj' = [obj EXCEPT ![p].gen = @ + 1, ![p].path = f]
      BY <1>3 DEF UpdateSpec
    <3>2. obj[p] \in Objs
      BY <1>0 DEF TypeInv
    <3> QED BY <1>0, <1>3, <3>1, <3>2 DEF UpdateSpec, TypeInv, Objs
  <2> QED BY <2>1, <2>2 DEF StatusTruthful
<1>4. ASSUME obj' = obj, active \in Policies, PatchStatus(active, status[active].run)
      PROVE  StatusTruthful'
  <2>1. status[active].run \in Runs
    BY <1>0, <1>4 DEF TypeInv
  <2>2. \A q \in Policies : status'[q].run = status[q].run
    BY <1>0, <1>4, <2>1, PatchFacts
  <2> QED BY <1>4, <2>2 DEF StatusTruthful
<1>5. CASE EngineFor \/ MaybeRotate \/ RunOnce
  <2>1. active \in Policies /\ obj' = obj
    BY <1>0, <1>5 DEF EngineFor, MaybeRotate, RunOnce, WorkerOK, TypeInv
  <2>2. UNCHANGED status \/ PatchStatus(active, status[active].run)
    BY <1>5 DEF EngineFor, MaybeRotate, RunOnce, CycleFails
  <2> QED BY <1>1, <1>4, <2>1, <2>2
<1>6. CASE Finish
  <2> DEFINE new == [for |-> << seen.uid, seen.gen >>,
                     by  |-> << engines[active].uid, engines[active].gen >>]
  <2>1. active \in Policies /\ obj' = obj /\ step = "export"
    BY <1>6, FinishPatch DEF Finish
  <2>2. PICK run \in Runs : /\ run = status[active].run \/ run = new
                            /\ PatchStatus(active, run)
    BY <1>6, FinishPatch
  <2>3. CASE run = status[active].run
    BY <1>4, <2>1, <2>2, <2>3
  <2>4. CASE run = new
    <3>1. \A q \in Policies : \/ status'[q].run = status[q].run
                              \/ q = active /\ status'[q].run = new
      BY <1>0, <2>1, <2>2, <2>4, PatchFacts
    <3>2. obj[active].uid = 1 => new.by = new.for
      <4>1. /\ engines[active] # NoEngine /\ engines[active].gen = seen.gen
            /\ engines[active].uid \in 1..obj[active].uid
            /\ seen.uid \in 1..obj[active].uid
        BY <1>0, <2>1, NoneAssumption DEF WorkerOK, EnginesOK
      <4> QED BY <4>1
    <3> QED BY <2>1, <3>1, <3>2 DEF StatusTruthful
  <2> QED BY <2>2, <2>3, <2>4
<1>7. ASSUME NEW p \in Policies, TimerFires(p) \/ Get(p)
      PROVE  StatusTruthful'
  BY <1>1, <1>7 DEF TimerFires, Get
<1> QED
  BY <1>1, <1>2, <1>3, <1>5, <1>6, <1>7 DEF Next, vars, Restart

(***************************************************************************)
(* As long as a policy is the first of its name, the run its status tells  *)
(* of was made by an engine built from the spec that Reconcile had read,   *)
(* however specs change and cycles fail meanwhile.                         *)
(***************************************************************************)
THEOREM StatusAlwaysTruthful == Spec => []StatusTruthful
<1> DEFINE Inv == WorkInv /\ StatusTruthful
<1>1. Init => Inv
  <2>1. Init => StatusTruthful
    BY DEF Init, StatusTruthful, NoStatus, NoRun
  <2> QED BY <2>1, WorkInit
<1>2. Inv /\ [Next]_vars => Inv'
  BY WorkStep, StatusStep
<1>3. Inv => StatusTruthful
  OBVIOUS
<1> QED BY <1>1, <1>2, <1>3, PTL DEF Spec
-----------------------------------------------------------------------------
(* No two policies may name the same store. *)
Apart == \A p, q \in Policies : p # q => PathsOf[p] \cap PathsOf[q] = {}

(* The chain of an engine that can append stands at the end of its file. *)
HeadsAgree ==
  \A p \in Policies :
    (engines[p] # NoEngine /\ engines[p].store # "closed" /\ engines[p].path \notin spoilt)
      => engines[p].last = LastId(engines[p].path)

ChainsInv == WorkInv /\ ChainsIntact /\ HeadsAgree

(* A line appended at the head keeps a file linked, and is its new head. *)
LEMMA LinkedAppend ==
  ASSUME NEW s \in Seq(Lines), NEW l \in Lines, Linked(s),
         l.prev = IF s = << >> THEN 0 ELSE s[Len(s)].id
  PROVE  /\ Linked(Append(s, l))
         /\ Append(s, l) # << >>
         /\ Append(s, l)[Len(Append(s, l))] = l
<1> DEFINE t == Append(s, l)
           n == Len(s)
<1>1. /\ Len(t) = n + 1 /\ t[n + 1] = l /\ t # << >>
      /\ \A i \in 1..n : t[i] = s[i]
  BY AppendProperties
<1>2. n \in Nat /\ (s = << >> <=> n = 0)
  BY LenProperties, EmptySeq
<1> HIDE DEF t, n
<1>3. ASSUME NEW i \in 1..(n + 1)
      PROVE  t[i].prev = IF i = 1 THEN 0 ELSE t[i - 1].id
  <2>1. CASE i = n + 1
    <3>1. CASE n = 0
      BY <1>1, <1>2, <2>1, <3>1
    <3>2. CASE n # 0
      <4>1. n \in 1..n /\ i # 1 /\ i - 1 = n /\ s # << >>
        BY <1>2, <2>1, <3>2
      <4> QED BY <1>1, <2>1, <4>1 DEF n
    <3> QED BY <3>1, <3>2
  <2>2. CASE i # n + 1
    <3>1. i \in 1..n /\ (i # 1 => i - 1 \in 1..n)
      BY <1>2, <2>2
    <3>2. s[i].prev = IF i = 1 THEN 0 ELSE s[i - 1].id
      BY <3>1 DEF Linked, n
    <3> QED BY <1>1, <3>1, <3>2
  <2> QED BY <2>1, <2>2
<1> QED BY <1>1, <1>3 DEF Linked, t

(* An engine that wrote its file, and left it linked or spoilt, with its *)
(* head at the end unless it is shut, leaves the others as they were.     *)
LEMMA WrittenChains ==
  ASSUME Apart, ChainsInv, NEW p \in Policies, NEW f \in PathsOf[p], engines[p] # NoEngine,
         engines'[p].path = f,
         \A q \in Policies \ {p} : engines'[q] = engines[q],
         \A g \in Paths \ {f} : files'[g] = files[g] /\ (g \in spoilt' <=> g \in spoilt),
         f \notin spoilt' =>
           /\ Linked(files'[f])
           /\ \/ engines'[p].store = "closed"
              \/ engines'[p].last = IF files'[f] = << >> THEN 0
                                    ELSE files'[f][Len(files'[f])].id
  PROVE  ChainsIntact' /\ HeadsAgree'
<1>0. EnginesOK /\ ChainsIntact /\ HeadsAgree /\ f \in Paths
  BY DEF ChainsInv, WorkInv, Paths
<1>1. ChainsIntact'
  BY <1>0 DEF ChainsIntact
<1>2. HeadsAgree'
  <2> SUFFICES ASSUME NEW q \in Policies, engines'[q] # NoEngine,
                      engines'[q].store # "closed", engines'[q].path \notin spoilt'
               PROVE  LET g == engines'[q].path
                      IN  engines'[q].last = IF files'[g] = << >> THEN 0
                                             ELSE files'[g][Len(files'[g])].id
    BY DEF HeadsAgree, LastId
  <2>1. CASE q = p
    BY <2>1
  <2>2. CASE q # p
    <3>1. engines'[q] = engines[q] /\ engines[q].path \in PathsOf[q]
      BY <1>0, <2>2 DEF EnginesOK
    <3>2. engines[q].path # f /\ engines[q].path \in Paths
      BY <2>2, <3>1 DEF Apart, Paths
    <3>3. /\ files'[engines[q].path] = files[engines[q].path]
          /\ engines[q].path \notin spoilt
      BY <3>1, <3>2
    <3> QED BY <1>0, <3>1, <3>3 DEF HeadsAgree, LastId
  <2> QED BY <2>1, <2>2
<1> QED BY <1>1, <1>2

(* What the engine of a cycle is known to be. *)
LEMMA CycleFacts ==
  ASSUME ChainsInv, step \in {"rotate", "run"}
  PROVE  LET e == engines[active]
         IN  /\ active \in Policies /\ e # NoEngine /\ e \in Engines
             /\ e.path \in PathsOf[active] /\ e.path \in Paths
             /\ files[e.path] \in Seq(Lines)
             /\ step = "run" => e.store # "closed"
<1>1. TypeInv /\ EnginesOK /\ WorkerOK
  BY DEF ChainsInv, WorkInv
<1>2. active \in Policies /\ engines[active] # NoEngine
  BY <1>1 DEF WorkerOK, TypeInv
<1> QED BY <1>1, <1>2 DEF TypeInv, EnginesOK, WorkerOK, Paths

(* The first part of a cycle. *)
LEMMA RotateChains ==
  ASSUME Apart, ChainsInv, MaybeRotate
  PROVE  ChainsIntact' /\ HeadsAgree'
<1> DEFINE e == engines[active]
           f == e.path
           l == [id |-> nextId, prev |-> 0]
<1>0. /\ active \in Policies /\ e # NoEngine /\ e \in Engines
      /\ f \in PathsOf[active] /\ f \in Paths /\ files[f] \in Seq(Lines)
      /\ WorkInv /\ ChainsIntact /\ HeadsAgree /\ files \in [Paths -> Seq(Lines)]
  BY CycleFacts DEF MaybeRotate, ChainsInv, WorkInv, TypeInv
<1>1. CASE UNCHANGED << files, spoilt, engines >>
  BY <1>0, <1>1 DEF ChainsIntact, HeadsAgree, LastId
<1>2. CASE /\ Sealed(active, "some")
           /\ files' = [files EXCEPT ![f] = << l >>]
           /\ spoilt' = spoilt \ {f}
  <2>1. files'[f] = << l >> /\ \A g \in Paths \ {f} : files'[g] = files[g]
    BY <1>0, <1>2
  <2>2. engines'[active].path = f /\ engines'[active].last = nextId
        /\ \A q \in Policies \ {active} : engines'[q] = engines[q]
    BY <1>0, <1>2, SealedEngine
  <2>3. Linked(files'[f])
    BY <2>1 DEF Linked
  <2>4. nextId = IF files'[f] = << >> THEN 0 ELSE files'[f][Len(files'[f])].id
    BY <2>1
  <2> QED BY <1>0, <1>2, <2>1, <2>2, <2>3, <2>4, WrittenChains
<1>3. CASE /\ Sealed(active, "empty")
           /\ \E left \in Remains(0) : files' = [files EXCEPT ![f] = left]
           /\ spoilt' = spoilt \cup {f}
  <2>1. \A g \in Paths \ {f} : files'[g] = files[g]
    BY <1>0, <1>3
  <2>2. /\ engines'[active].path = f
        /\ \A q \in Policies \ {active} : engines'[q] = engines[q]
    BY <1>0, <1>3, SealedEngine
  <2> QED BY <1>0, <1>3, <2>1, <2>2, WrittenChains
<1>4. CASE /\ engines' = [engines EXCEPT ![active].store = "closed"]
           /\ files' \in {files, [files EXCEPT ![f] = << >>]}
           /\ UNCHANGED << spoilt, nextId >>
  <2>1. \A g \in Paths \ {f} : files'[g] = files[g]
    BY <1>0, <1>4
  <2>2. /\ engines'[active].path = f /\ engines'[active].store = "closed"
        /\ \A q \in Policies \ {active} : engines'[q] = engines[q]
    BY <1>0, <1>4, ShutEngine
  <2>3. f \notin spoilt' => Linked(files'[f])
    <3>1. Linked(<< >>)
      BY DEF Linked
    <3>2. files'[f] = files[f] \/ files'[f] = << >>
      BY <1>0, <1>4
    <3> QED BY <1>0, <1>4, <3>1, <3>2 DEF ChainsIntact
  <2> QED BY <1>0, <1>4, <2>1, <2>2, <2>3, WrittenChains
<1> QED BY <1>1, <1>2, <1>3, <1>4 DEF MaybeRotate

(* The second: an append at the engine's head, at the end of the file. *)
LEMMA RunChains ==
  ASSUME Apart, ChainsInv, RunOnce
  PROVE  ChainsIntact' /\ HeadsAgree'
<1> DEFINE e == engines[active]
           f == e.path
           l == [id |-> nextId, prev |-> e.last]
<1>0. /\ active \in Policies /\ e # NoEngine /\ e \in Engines /\ e.store # "closed"
      /\ f \in PathsOf[active] /\ f \in Paths /\ files[f] \in Seq(Lines)
      /\ WorkInv /\ ChainsIntact /\ HeadsAgree /\ files \in [Paths -> Seq(Lines)]
      /\ nextId \in Nat
  BY CycleFacts DEF RunOnce, ChainsInv, WorkInv, TypeInv
<1>1. CASE UNCHANGED << files, spoilt, engines >>
  BY <1>0, <1>1 DEF ChainsIntact, HeadsAgree, LastId
<1>2. CASE /\ Sealed(active, "some")
           /\ files' = [files EXCEPT ![f] = Append(@, l)]
           /\ UNCHANGED spoilt
  <2>1. files'[f] = Append(files[f], l) /\ \A g \in Paths \ {f} : files'[g] = files[g]
    BY <1>0, <1>2
  <2>2. engines'[active].path = f /\ engines'[active].last = nextId
        /\ \A q \in Policies \ {active} : engines'[q] = engines[q]
    BY <1>0, <1>2, SealedEngine
  <2>3. f \notin spoilt =>
          /\ Linked(files'[f])
          /\ nextId = IF files'[f] = << >> THEN 0 ELSE files'[f][Len(files'[f])].id
    <3> SUFFICES ASSUME f \notin spoilt
                 PROVE  /\ Linked(files'[f])
                        /\ files'[f] # << >> /\ files'[f][Len(files'[f])].id = nextId
      OBVIOUS
    <3>1. Linked(files[f]) /\ l.prev = LastId(f)
      BY <1>0 DEF ChainsIntact, HeadsAgree
    <3>2. l.prev = IF files[f] = << >> THEN 0 ELSE files[f][Len(files[f])].id
      BY <3>1 DEF LastId
    <3>3. l \in Lines /\ l.id = nextId
      BY <1>0 DEF Lines, Engines
    <3> HIDE DEF l, f
    <3>4. /\ Linked(files'[f])
          /\ files'[f] # << >>
          /\ files'[f][Len(files'[f])] = l
      BY <1>0, <2>1, <3>1, <3>2, <3>3, LinkedAppend
    <3> QED BY <3>3, <3>4
  <2> QED BY <1>0, <1>2, <2>1, <2>2, <2>3, WrittenChains
<1>3. CASE /\ Sealed(active, e.store)
           /\ \E left \in Remains(e.last) : files' = [files EXCEPT ![f] = @ \o left]
           /\ spoilt' = spoilt \cup {f}
  <2>1. \A g \in Paths \ {f} : files'[g] = files[g]
    BY <1>0, <1>3
  <2>0. e.store \in {"empty", "some", "closed"}
    BY <1>0 DEF Engines
  <2>2. /\ engines'[active].path = f
        /\ \A q \in Policies \ {active} : engines'[q] = engines[q]
    BY <1>0, <1>3, <2>0, SealedEngine
  <2> QED BY <1>0, <1>3, <2>1, <2>2, WrittenChains
<1> QED BY <1>1, <1>2, <1>3 DEF RunOnce

(* Every step keeps the chains, and the engines at their heads. *)
LEMMA ChainsStep ==
  ASSUME Apart
  PROVE  ChainsInv /\ [Next]_vars => ChainsIntact' /\ HeadsAgree'
<1> SUFFICES ASSUME ChainsInv, [Next]_vars PROVE ChainsIntact' /\ HeadsAgree'
  OBVIOUS
<1>0. /\ TypeInv /\ EnginesOK /\ WorkerOK /\ ChainsIntact /\ HeadsAgree /\ WorkInv
      /\ engines \in [Policies -> Engines]
  BY DEF ChainsInv, WorkInv, TypeInv
<1>1. CASE files' = files /\ spoilt' = spoilt
           /\ \A p \in Policies : engines'[p] = engines[p] \/ engines'[p] = NoEngine
  BY <1>0, <1>1 DEF ChainsIntact, HeadsAgree, LastId
<1>2. ASSUME NEW p \in Policies, CreatePolicy(p) \/ UpdateSpec(p) \/ DeletePolicy(p)
      PROVE  ChainsIntact' /\ HeadsAgree'
  BY <1>1, <1>2 DEF CreatePolicy, UpdateSpec, DeletePolicy, Change, worker
<1>3. ASSUME NEW p \in Policies, TimerFires(p) \/ Get(p)
      PROVE  ChainsIntact' /\ HeadsAgree'
  <2>1. files' = files /\ spoilt' = spoilt
    BY <1>3 DEF TimerFires, Get
  <2>2. engines' = engines \/ engines' = [engines EXCEPT ![p] = NoEngine]
    BY <1>3 DEF TimerFires, Get
  <2> QED BY <1>0, <1>1, <2>1, <2>2
<1>4. CASE EngineFor
  <2>1. files' = files /\ spoilt' = spoilt /\ active \in Policies
    BY <1>0, <1>4 DEF EngineFor, WorkerOK, TypeInv
  <2>2. CASE engines' = engines \/ engines' = [engines EXCEPT ![active] = NoEngine]
    BY <1>0, <1>1, <2>1, <2>2
  <2>3. CASE engines' = [engines EXCEPT ![active] =
                           [uid |-> seen.uid, gen |-> seen.gen, path |-> seen.path,
                            last |-> LastId(seen.path), store |-> Holding(seen.path)]]
    <3>1. /\ engines'[active].path = seen.path /\ engines'[active].last = LastId(seen.path)
          /\ \A q \in Policies \ {active} : engines'[q] = engines[q]
      BY <1>0, <2>1, <2>3
    <3> QED BY <1>0, <2>1, <3>1 DEF ChainsIntact, HeadsAgree, LastId
  <2> QED BY <1>4, <2>2, <2>3 DEF EngineFor
<1>5. CASE MaybeRotate \/ RunOnce
  BY <1>5, RotateChains, RunChains
<1>6. CASE Finish \/ UNCHANGED vars
  BY <1>1, <1>6 DEF Finish, vars
<1>7. CASE Restart
  <2>1. \A p \in Policies : engines'[p] = NoEngine
    BY <1>7 DEF Restart
  <2> QED BY <1>1, <1>7, <2>1 DEF Restart
<1> QED
  BY <1>2, <1>3, <1>4, <1>5, <1>6, <1>7 DEF Next

(***************************************************************************)
(* One worker and one engine per name are a single writer: when no two     *)
(* policies may name the same store, every file on which no append has failed since *)
(* its last rotation is one chain, across changes of the path and back,    *)
(* rebuilt engines, rotations that fail half-way, policies created anew    *)
(* and restarts of the pod.                                                *)
(***************************************************************************)
THEOREM ChainsAlwaysIntact ==
  ASSUME Apart
  PROVE  Spec => []ChainsIntact
<1>1. Init => ChainsInv
  <2> SUFFICES ASSUME Init PROVE ChainsIntact /\ HeadsAgree
    BY WorkInit DEF ChainsInv
  <2>1. \A f \in Paths : files[f] = << >>
    BY DEF Init
  <2>2. Linked(<< >>)
    BY DEF Linked
  <2> QED BY <2>1, <2>2 DEF Init, ChainsIntact, HeadsAgree
<1>2. ChainsInv /\ [Next]_vars => ChainsInv'
  BY WorkStep, ChainsStep DEF ChainsInv
<1>3. ChainsInv => ChainsIntact
  BY DEF ChainsInv
<1> QED BY <1>1, <1>2, <1>3, PTL DEF Spec
=============================================================================
