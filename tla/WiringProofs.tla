---------------------------- MODULE WiringProofs ----------------------------
(***************************************************************************)
(* Proofs about engines coming up, for any processes, documents and        *)
(* number of faults: the key file never blocks a start, a failed Build     *)
(* leaves no store open, one key signs unless two are made at once, and    *)
(* both frontends mean the same by a document.                             *)
(***************************************************************************)
EXTENDS Wiring, FiniteSetTheorems, TLAPS

Labels ==
  {"down", "failed", "refused", "open", "load", "stat", "create", "write", "push", "up"}

TypeInv ==
  /\ pc \in [Procs -> Labels]
  /\ handles \in [Procs -> Int]
  /\ key \in [Procs -> Nat]
  /\ keys \in Nat
  /\ file \in Nat \cup {Partial}
  /\ cut \in BOOLEAN

(* Whoever writes the file has a key to write. *)
KeyMade == \A p \in Procs : pc[p] \in {"create", "write"} => key[p] > 0

Inv == TypeInv /\ KeyMade /\ Startable /\ NoStoreLeft

(* The parts that only concern the process that takes the step. *)
LEMMA BuildKeepsTypes ==
  ASSUME Inv, NEW p \in Procs, BuildStep(p) \/ OpenFails(p) \/ Exit(p)
  PROVE  /\ TypeInv' /\ setup' = setup
         /\ \A q \in Procs \ {p} :
              pc'[q] = pc[q] /\ handles'[q] = handles[q] /\ key'[q] = key[q]
<1> USE DEF Inv, TypeInv, Labels, GoTo, conf, keyVars, Procs, Missing, Partial
<1>1. CASE Configure(p)
  BY <1>1 DEF Configure
<1>2. CASE OpenStore(p)
  <2>1. PICK label \in {"push", "load"} : pc' = [pc EXCEPT ![p] = label]
    BY <1>2 DEF OpenStore
  <2>2. pc' \in [Procs -> Labels]
    BY <2>1
  <2>3. handles' = [handles EXCEPT ![p] = handles[p] + 1]
    BY <1>2 DEF OpenStore
  <2>4. handles' \in [Procs -> Int] /\ \A q \in Procs \ {p} : handles'[q] = handles[q]
    BY <2>3
  <2> QED BY <1>2, <2>1, <2>2, <2>4 DEF OpenStore
<1>3. CASE OpenFails(p)
  BY <1>3 DEF OpenFails
<1>4. CASE Load(p)
  BY <1>4 DEF Load, Fail
<1>5. CASE Stat(p)
  BY <1>5 DEF Stat, Fail
<1>6. CASE Create(p)
  BY <1>6 DEF Create
<1>7. CASE Write(p)
  BY <1>7 DEF Write, Block
<1>8. CASE Finish(p)
  BY <1>8 DEF Finish, Fail
<1>9. CASE Exit(p)
  BY <1>9 DEF Exit
<1> QED
  BY <1>1, <1>2, <1>3, <1>4, <1>5, <1>6, <1>7, <1>8, <1>9 DEF BuildStep

(* Only a process that has generated a key goes on to write one. *)
LEMMA BuildKeepsKey ==
  ASSUME Inv, NEW p \in Procs, BuildStep(p) \/ OpenFails(p) \/ Exit(p)
  PROVE  KeyMade'
<1>1. pc'[p] \in {"create", "write"} => key'[p] > 0
  <2> USE DEF Inv, TypeInv, KeyMade, GoTo, keyVars
  <2>1. CASE Configure(p) \/ OpenStore(p) \/ OpenFails(p) \/ Exit(p)
    BY <2>1 DEF Configure, OpenStore, OpenFails, Exit
  <2>2. CASE Load(p) \/ Finish(p)
    BY <2>2 DEF Load, Finish, Fail
  <2>3. CASE Stat(p)
    BY <2>3 DEF Stat, Fail
  <2>4. CASE Create(p) \/ Write(p)
    BY <2>4 DEF Create, Write
  <2> QED BY <2>1, <2>2, <2>3, <2>4 DEF BuildStep
<1> QED BY <1>1, BuildKeepsTypes DEF Inv, KeyMade, Procs

(* A file begun is being written, until the write is cut short. *)
LEMMA BuildKeepsStartable ==
  ASSUME Inv, NEW p \in Procs, BuildStep(p) \/ OpenFails(p) \/ Exit(p)
  PROVE  Startable'
<1>1. ASSUME file' = file, pc[p] # "write", cut' = cut PROVE Startable'
  <2>1. \A q \in Procs : pc[q] = "write" => q \in Procs' /\ pc'[q] = "write"
    BY <1>1, BuildKeepsTypes DEF Procs
  <2> QED BY <1>1, <2>1 DEF Inv, Startable
<1>2. CASE Configure(p) \/ OpenStore(p) \/ OpenFails(p)
  BY <1>1, <1>2 DEF Configure, OpenStore, OpenFails, keyVars
<1>3. CASE Load(p) \/ Stat(p) \/ Finish(p)
  BY <1>1, <1>3 DEF Load, Stat, Finish, keyVars
<1>4. CASE Create(p)
  <2>1. pc'[p] = "write" /\ p \in Procs'
    BY <1>4, BuildKeepsTypes DEF Create, GoTo, Inv, TypeInv, Procs
  <2> QED BY <2>1 DEF Startable
<1>5. CASE Write(p)
  <2>1. file' # Partial
    BY <1>5 DEF Write, Block, Inv, KeyMade, TypeInv, Partial
  <2> QED BY <2>1 DEF Startable, Partial
<1>6. CASE Exit(p)
  <2>1. CASE pc[p] = "write"
    BY <1>6, <2>1 DEF Exit, Startable
  <2>2. CASE pc[p] # "write"
    <3>1. cut' = cut
      BY <1>6, <2>2 DEF Exit, Inv, TypeInv
    <3> QED BY <1>1, <1>6, <2>2, <3>1 DEF Exit
  <2> QED BY <2>1, <2>2
<1> QED BY <1>2, <1>3, <1>4, <1>5, <1>6 DEF BuildStep

(* Every way out of Build after OpenFileStore closes the store. *)
LEMMA BuildKeepsStores ==
  ASSUME Inv, NEW p \in Procs, BuildStep(p) \/ OpenFails(p) \/ Exit(p)
  PROVE  NoStoreLeft'
<1> DEFINE Held(label) == IF label \in {"down", "failed", "refused", "open"} THEN 0 ELSE 1
<1>1. handles'[p] = Held(pc'[p])
  <2>1. handles[p] = Held(pc[p])
    BY DEF Inv, NoStoreLeft
  <2> USE DEF Inv, TypeInv, GoTo
  <2>2. CASE Configure(p) \/ OpenFails(p)
    BY <2>1, <2>2 DEF Configure, OpenFails
  <2>8. CASE OpenStore(p)
    <3>1. PICK label \in {"push", "load"} : pc' = [pc EXCEPT ![p] = label]
      BY <2>8 DEF OpenStore
    <3>2. pc[p] = "open" /\ handles' = [handles EXCEPT ![p] = handles[p] + 1]
      BY <2>8 DEF OpenStore
    <3>3. pc'[p] \in {"push", "load"} /\ handles'[p] = handles[p] + 1
      BY <3>1, <3>2
    <3> QED BY <2>1, <3>2, <3>3
  <2>3. CASE Load(p)
    BY <2>1, <2>3 DEF Load, Fail
  <2>4. CASE Stat(p)
    BY <2>1, <2>4 DEF Stat, Fail
  <2>5. CASE Create(p) \/ Write(p)
    BY <2>1, <2>5 DEF Create, Write
  <2>6. CASE Finish(p)
    BY <2>1, <2>6 DEF Finish, Fail
  <2>7. CASE Exit(p)
    BY <2>7 DEF Exit
  <2> QED BY <2>2, <2>3, <2>4, <2>5, <2>6, <2>7, <2>8 DEF BuildStep
<1>2. \A q \in Procs : handles'[q] = Held(pc'[q])
  BY <1>1, BuildKeepsTypes DEF Inv, NoStoreLeft
<1> QED BY <1>2, BuildKeepsTypes DEF NoStoreLeft, Procs

(* Every step keeps the invariant. *)
LEMMA InvStep == Inv /\ [Next]_vars => Inv'
<1> SUFFICES ASSUME Inv, [Next]_vars PROVE Inv'
  OBVIOUS
<1>1. CASE UNCHANGED vars \/ Mount
  BY <1>1 DEF vars, Mount, conf, keyVars, Inv, TypeInv, KeyMade, Startable, NoStoreLeft,
              Procs, Partial
<1>2. ASSUME NEW p \in Procs, BuildStep(p) \/ OpenFails(p) \/ Exit(p) PROVE Inv'
  BY <1>2, BuildKeepsTypes, BuildKeepsKey, BuildKeepsStartable, BuildKeepsStores DEF Inv
<1> QED BY <1>1, <1>2 DEF Next

(* No process runs at first. *)
LEMMA InvInit == Init => Inv
<1> SUFFICES ASSUME Init PROVE Inv
  OBVIOUS
<1>1. /\ pc = [p \in Procs |-> "down"] /\ handles = [p \in Procs |-> 0]
      /\ key = [p \in Procs |-> 0] /\ keys = 0 /\ file = 0 /\ cut = FALSE
  BY DEF Init, Missing
<1>2. TypeInv
  <2>1. pc \in [Procs -> Labels] /\ handles \in [Procs -> Int] /\ key \in [Procs -> Nat]
    BY <1>1 DEF Labels
  <2> QED BY <1>1, <2>1 DEF TypeInv
<1>3. KeyMade /\ NoStoreLeft
  BY <1>1 DEF KeyMade, NoStoreLeft
<1>4. Startable
  BY <1>1 DEF Startable, Partial
<1> QED BY <1>2, <1>3, <1>4 DEF Inv

(***************************************************************************)
(* Unless a write of the key was cut short, the key file can be loaded or  *)
(* replaced, or is being written, however many processes generate a key at *)
(* the same time.                                                          *)
(***************************************************************************)
THEOREM KeyNeverBlocks == Spec => []Startable
<1>1. Inv => Startable
  BY DEF Inv
<1> QED BY <1>1, InvInit, InvStep, PTL DEF Spec

(***************************************************************************)
(* Whichever step of Build fails, and however often it is tried again, the *)
(* process has a store open only for the engine that is up or coming up.   *)
(***************************************************************************)
THEOREM FailedBuildClosesStore == Spec => []NoStoreLeft
<1>1. Inv => NoStoreLeft
  BY DEF Inv
<1> QED BY <1>1, InvInit, InvStep, PTL DEF Spec
-----------------------------------------------------------------------------
(***************************************************************************)
(* One process at a time makes a key; until it creates the file there is   *)
(* none, and until it has written the key no other was used.               *)
(***************************************************************************)
OneGenerates == \A p, q \in Procs : Generating(p) /\ Generating(q) => p = q

FileAhead ==
  /\ \A p \in Procs : pc[p] = "create" => file = Missing
  /\ \A p \in Procs : pc[p] = "write" => file = Partial

KeyOnFile == used = {} \/ (file > 0 /\ used = {file})

KeyInv == overlapped \in BOOLEAN /\ (~overlapped => OneGenerates /\ FileAhead /\ KeyOnFile)

(* A step that makes no key leaves those that do alone. *)
LEMMA IdleKeepsKey ==
  ASSUME Inv, KeyInv, NEW p \in Procs, BuildStep(p) \/ OpenFails(p) \/ Exit(p),
         file' = file, overlapped' = overlapped, ~Generating(p)',
         used' = used \/ (file > 0 /\ used' = used \cup {file})
  PROVE  KeyInv'
<1>1. \A q \in Procs : Generating(q)' => Generating(q) /\ pc'[q] = pc[q]
  BY BuildKeepsTypes DEF Generating
<1>2. OneGenerates => OneGenerates'
  BY <1>1, BuildKeepsTypes DEF OneGenerates, Procs
<1>3. FileAhead => FileAhead'
  BY <1>1, BuildKeepsTypes DEF FileAhead, Generating, Procs
<1>4. KeyOnFile => KeyOnFile'
  BY DEF KeyOnFile
<1> QED BY <1>2, <1>3, <1>4 DEF KeyInv

(* Build loads the key on file, or creates the only one. *)
LEMMA BuildKeepsOneKey ==
  ASSUME Inv, KeyInv, NEW p \in Procs, BuildStep(p) \/ OpenFails(p) \/ Exit(p)
  PROVE  KeyInv'
<1>1. pc'[p] \in Labels /\ pc \in [Procs -> Labels]
  BY BuildKeepsTypes DEF Inv, TypeInv, Procs
<1>2. CASE Configure(p) \/ OpenStore(p) \/ OpenFails(p) \/ Finish(p) \/ Exit(p)
  <2>1. pc'[p] \in {"down", "failed", "refused", "open", "load", "push", "up"}
    BY <1>1, <1>2 DEF Configure, OpenStore, OpenFails, Finish, Exit, Fail, GoTo, Inv, TypeInv
  <2>2. UNCHANGED << file, used, overlapped >>
    BY <1>2 DEF Configure, OpenStore, OpenFails, Finish, Exit, keyVars
  <2>3. ~Generating(p)'
    BY <2>1 DEF Generating
  <2> QED BY <2>2, <2>3, IdleKeepsKey
<1>3. CASE Stat(p)
  <2>1. CASE file # Missing
    <3>1. pc'[p] = "failed" /\ UNCHANGED << file, used, overlapped >>
      BY <1>1, <1>3, <2>1 DEF Stat, Fail, GoTo
    <3>2. ~Generating(p)'
      BY <3>1 DEF Generating
    <3> QED BY <3>1, <3>2, IdleKeepsKey
  <2>2. CASE file = Missing
    <3>1. /\ pc'[p] = "create" /\ UNCHANGED << file, used >> /\ overlapped' \in BOOLEAN
          /\ overlapped' = (overlapped \/ \E q \in Procs : Generating(q))
      BY <1>1, <1>3, <2>2 DEF Stat, GoTo
    <3>2. SUFFICES ASSUME ~overlapped' PROVE OneGenerates' /\ FileAhead' /\ KeyOnFile'
      BY <3>1 DEF KeyInv
    <3>3. ~overlapped /\ \A q \in Procs : ~Generating(q)
      BY <3>1, <3>2 DEF KeyInv
    <3>4. \A q \in Procs \ {p} : ~Generating(q)' /\ pc'[q] \notin {"create", "write"}
      BY <3>3, BuildKeepsTypes DEF Generating
    <3>5. OneGenerates' /\ FileAhead'
      BY <2>2, <3>1, <3>4, BuildKeepsTypes DEF OneGenerates, FileAhead, Procs
    <3>6. KeyOnFile'
      BY <3>1, <3>3 DEF KeyInv, KeyOnFile
    <3> QED BY <3>5, <3>6
  <2> QED BY <2>1, <2>2
<1>4. CASE Load(p)
  <2>1. pc'[p] \in {"stat", "push", "failed"} /\ UNCHANGED << file, overlapped >>
    BY <1>1, <1>4 DEF Load, Fail, GoTo
  <2>2. used' = used \/ (file > 0 /\ used' = used \cup {file})
    BY <1>4 DEF Load
  <2>3. ~Generating(p)'
    BY <2>1 DEF Generating
  <2> QED BY <2>1, <2>2, <2>3, IdleKeepsKey
<1>5. CASE Create(p)
  <2>1. /\ pc[p] = "create" /\ pc'[p] = "write" /\ file' = Partial
        /\ UNCHANGED << used, overlapped >>
    BY <1>1, <1>5 DEF Create, GoTo
  <2>2. SUFFICES ASSUME ~overlapped PROVE OneGenerates' /\ FileAhead' /\ KeyOnFile'
    BY <2>1 DEF KeyInv
  <2>3. OneGenerates /\ FileAhead /\ KeyOnFile
    BY <2>2 DEF KeyInv
  <2>4. \A q \in Procs \ {p} : ~Generating(q) /\ pc'[q] = pc[q]
    BY <2>1, <2>3, BuildKeepsTypes DEF OneGenerates, Generating
  <2>5. used = {}
    BY <2>1, <2>3 DEF FileAhead, KeyOnFile, Missing
  <2>6. OneGenerates' /\ FileAhead'
    BY <2>1, <2>4, BuildKeepsTypes DEF OneGenerates, FileAhead, Generating, Procs
  <2> QED BY <2>1, <2>5, <2>6 DEF KeyOnFile
<1>6. CASE Write(p)
  <2>1. /\ pc[p] = "write" /\ pc'[p] = "push" /\ UNCHANGED overlapped
        /\ file' = key[p] /\ used' = used \cup {key[p]}
    BY <1>1, <1>6 DEF Write, GoTo, Block
  <2>2. SUFFICES ASSUME ~overlapped PROVE OneGenerates' /\ FileAhead' /\ KeyOnFile'
    BY <2>1 DEF KeyInv
  <2>3. OneGenerates /\ FileAhead /\ KeyOnFile
    BY <2>2 DEF KeyInv
  <2>4. \A q \in Procs \ {p} : ~Generating(q) /\ pc'[q] = pc[q]
    BY <2>1, <2>3, BuildKeepsTypes DEF OneGenerates, Generating
  <2>5. OneGenerates' /\ FileAhead'
    BY <2>1, <2>4, BuildKeepsTypes DEF OneGenerates, FileAhead, Generating, Procs
  <2>6. KeyOnFile'
    <3>1. used = {} /\ key[p] > 0
      BY <2>1, <2>3 DEF FileAhead, KeyOnFile, Inv, KeyMade, Partial
    <3> QED BY <2>1, <3>1 DEF KeyOnFile
  <2> QED BY <2>5, <2>6
<1> QED BY <1>2, <1>3, <1>4, <1>5, <1>6 DEF BuildStep

(* Every step keeps the keys in use the one on file. *)
LEMMA KeyStep == Inv /\ KeyInv /\ [Next]_vars => KeyInv'
<1> SUFFICES ASSUME Inv, KeyInv, [Next]_vars PROVE KeyInv'
  OBVIOUS
<1>1. CASE UNCHANGED vars \/ Mount
  BY <1>1 DEF vars, Mount, conf, keyVars, KeyInv, OneGenerates, FileAhead, KeyOnFile,
              Generating, Procs
<1>2. ASSUME NEW p \in Procs, BuildStep(p) \/ OpenFails(p) \/ Exit(p) PROVE KeyInv'
  BY <1>2, BuildKeepsOneKey
<1> QED BY <1>1, <1>2 DEF Next

(***************************************************************************)
(* "Refusing to overwrite an existing key": unless two processes that both *)
(* found no key file were making one at the same time, all engines there   *)
(* ever were signed with one key.                                          *)
(***************************************************************************)
THEOREM OneKeyForAll == Spec => []OneKeySigns
<1>1. Init => KeyInv
  <2> SUFFICES ASSUME Init PROVE KeyInv
    OBVIOUS
  <2>1. \A p \in Procs : pc[p] = "down"
    BY DEF Init
  <2> QED BY <2>1 DEF Init, KeyInv, OneGenerates, FileAhead, KeyOnFile, Generating
<1>2. KeyInv => OneKeySigns
  <2> SUFFICES ASSUME KeyInv, ~overlapped PROVE Cardinality(used) <= 1
    BY DEF OneKeySigns
  <2>1. used = {} \/ used = {file}
    BY DEF KeyInv, KeyOnFile
  <2>2. Cardinality({}) = 0 /\ Cardinality({file}) = 1
    BY FS_EmptySet, FS_Singleton
  <2> QED BY <2>1, <2>2
<1> QED BY <1>1, <1>2, InvInit, InvStep, KeyStep, PTL DEF Spec
-----------------------------------------------------------------------------
(***************************************************************************)
(* Whoever is past the registry got there with a document that its         *)
(* frontend accepts and whose collectors can be built, and who was refused *)
(* was not.  Nothing changes what a process makes of its document.         *)
(***************************************************************************)
Accepted(p) == cfg[p].ok /\ Registrable(cfg[p], kube[p])

FrontInv ==
  /\ setup \in Setups
  /\ cfg = [p \in Procs |-> Parsed(setup[p].front, setup[p].doc)]
  /\ \A p \in Procs : kube[p] \in MayReach(setup[p].front)
  /\ \A p \in Procs : pc[p] = "refused" => ~Accepted(p)
  /\ \A p \in Procs : pc[p] \notin {"down", "failed", "refused"} => Accepted(p)

(* Only Configure refuses, and only Configure lets into the rest of Build. *)
LEMMA BuildKeepsFront ==
  ASSUME Inv, FrontInv, NEW p \in Procs, BuildStep(p) \/ OpenFails(p) \/ Exit(p)
  PROVE  FrontInv'
<1>1. setup' = setup /\ cfg' = cfg /\ kube' = kube
  BY DEF BuildStep, Configure, OpenStore, Load, Stat, Create, Write, Finish, OpenFails, Exit, conf
<1>2. Procs' = Procs /\ \A q \in Procs : Accepted(q)' <=> Accepted(q)
  BY <1>1 DEF Procs, Accepted
<1>3. pc \in [Procs -> Labels]
  BY DEF Inv, TypeInv
<1>4. CASE Configure(p)
  <2>1. \/ pc' = [pc EXCEPT ![p] = "open"] /\ Accepted(p)
        \/ pc' = [pc EXCEPT ![p] = "refused"] /\ ~Accepted(p)
    BY <1>4 DEF Configure, GoTo, Accepted
  <2> QED BY <1>1, <1>2, <1>3, <2>1 DEF FrontInv
<1>5. CASE OpenStore(p) \/ OpenFails(p) \/ Exit(p)
  <2>1. \/ pc' = [pc EXCEPT ![p] = "down"] \/ pc' = [pc EXCEPT ![p] = "failed"]
        \/ pc[p] = "open" /\ \E l \in {"push", "load"} : pc' = [pc EXCEPT ![p] = l]
    BY <1>5 DEF OpenStore, OpenFails, Exit, GoTo
  <2> QED BY <1>1, <1>2, <1>3, <2>1 DEF FrontInv
<1>6. CASE Load(p) \/ Stat(p) \/ Create(p) \/ Write(p) \/ Finish(p)
  <2>1. pc[p] \in {"load", "stat", "create", "write", "push"}
    BY <1>6 DEF Load, Stat, Create, Write, Finish
  <2>2. \E l \in {"stat", "push", "failed", "create", "write", "up"} :
          pc' = [pc EXCEPT ![p] = l]
    BY <1>6 DEF Load, Stat, Create, Write, Finish, Fail, GoTo
  <2> QED BY <1>1, <1>2, <1>3, <2>1, <2>2 DEF FrontInv
<1> QED BY <1>4, <1>5, <1>6 DEF BuildStep

(* What a process makes of its document stays as it is, step by step. *)
LEMMA FrontStep == Inv /\ FrontInv /\ [Next]_vars => FrontInv'
<1> SUFFICES ASSUME Inv, FrontInv, [Next]_vars PROVE FrontInv'
  OBVIOUS
<1>1. CASE UNCHANGED vars \/ Mount
  BY <1>1 DEF vars, Mount, conf, FrontInv, Accepted, Procs
<1>2. ASSUME NEW p \in Procs, BuildStep(p) \/ OpenFails(p) \/ Exit(p) PROVE FrontInv'
  BY <1>2, BuildKeepsFront
<1> QED BY <1>1, <1>2 DEF Next

(* A map made of entries with names of their own has each of them. *)
LEMMA MapOfDistinct ==
  ASSUME NEW e, DOMAIN e \subseteq Int, IsInjective(Names(e)), NEW i \in DOMAIN e
  PROVE  /\ e[i].name \in DOMAIN AsMap(e)
         /\ AsMap(e)[e[i].name] = [enabled |-> e[i].enabled, settings |-> e[i].settings]
<1> DEFINE n == e[i].name
           LastOf(k) == e[k].name = n /\ \A j \in DOMAIN e : j > k => e[j].name # n
           c == CHOOSE k \in DOMAIN e : LastOf(k)
<1>1. \A k, j \in DOMAIN e : e[k].name = e[j].name => k = j
  BY DEF IsInjective, Names
<1>2. n \in ToSet(Names(e))
  BY DEF ToSet, Names
<1>3. \A k \in DOMAIN e : e[k].name = n => k = i
  BY <1>1
<1>4. LastOf(i)
  BY <1>3
<1>5. \A k \in DOMAIN e : LastOf(k) => k = i
  BY <1>3
<1>6. c = i
  BY <1>4, <1>5
<1>7. AsMap(e)[n] = [enabled |-> e[c].enabled, settings |-> e[c].settings]
  BY <1>2 DEF AsMap
<1>8. n \in DOMAIN AsMap(e)
  BY <1>2 DEF AsMap
<1> HIDE DEF c
<1> QED BY <1>6, <1>7, <1>8

(* The collectors a list of entries enables, and what each is configured with. *)
LEMMA EnabledOfDistinct ==
  ASSUME NEW e, DOMAIN e \subseteq Int, IsInjective(Names(e)), NEW f, f.collectors = AsMap(e)
  PROVE  /\ EnabledIn(f) = {e[i].name : i \in {k \in DOMAIN e : e[k].enabled}}
         /\ \A i \in DOMAIN e : f.collectors[e[i].name].settings = e[i].settings
<1>1. \A i \in DOMAIN e :
        /\ e[i].name \in DOMAIN AsMap(e)
        /\ AsMap(e)[e[i].name] = [enabled |-> e[i].enabled, settings |-> e[i].settings]
  BY MapOfDistinct
<1>2. ASSUME NEW i \in DOMAIN e
      PROVE  /\ AsMap(e)[e[i].name].enabled = e[i].enabled
             /\ AsMap(e)[e[i].name].settings = e[i].settings
  <2> DEFINE m == AsMap(e)[e[i].name]
  <2>1. m = [enabled |-> e[i].enabled, settings |-> e[i].settings]
    BY <1>1
  <2> HIDE DEF m
  <2>2. m.enabled = e[i].enabled /\ m.settings = e[i].settings
    BY <2>1
  <2> QED BY <2>2 DEF m
<1>3. DOMAIN AsMap(e) = {e[i].name : i \in DOMAIN e}
  BY DEF AsMap, ToSet, Names
<1> QED BY <1>2, <1>3 DEF EnabledIn

(***************************************************************************)
(* A policy with the content of a document, whose collectors have names of *)
(* their own, enables the collectors the document does, configured alike.  *)
(***************************************************************************)
LEMMA SpecEnablesSame ==
  ASSUME NEW doc \in Documents, IsInjective(Names(doc.entries)),
         NEW f, f.collectors = AsMap(doc.entries),
         NEW g, g.collectors = AsMap(AsSpec(doc).entries)
  PROVE  /\ EnabledIn(f) = EnabledIn(g)
         /\ \A n \in EnabledIn(f) : f.collectors[n].settings = g.collectors[n].settings
         /\ EnabledIn(f) = ToSet(Names(AsSpec(doc).entries))
<1> DEFINE e == doc.entries
           S == {k \in DOMAIN e : e[k].enabled}
           r == AsSpec(doc).entries
<1>1. r = Restrict(e, S)
  BY DEF AsSpec, Documents
<1>2. e \in Seq(Entries)
  BY DEF Documents
<1>3. DOMAIN e \subseteq Int
  BY <1>2
<1>4. IsInjective(Names(e))
  OBVIOUS
<1>5. f.collectors = AsMap(e) /\ g.collectors = AsMap(r)
  OBVIOUS
<1> HIDE DEF e, r
<1>6. DOMAIN r = S /\ \A i \in S : r[i] = e[i]
  BY <1>1 DEF Restrict
<1>7. DOMAIN r \subseteq Int /\ IsInjective(Names(r))
  BY <1>3, <1>4, <1>6 DEF IsInjective, Names
<1>8. EnabledIn(f) = {e[i].name : i \in S}
  BY <1>3, <1>4, <1>5, EnabledOfDistinct
<1>9. EnabledIn(g) = {r[i].name : i \in {k \in DOMAIN r : r[k].enabled}}
  BY <1>5, <1>7, EnabledOfDistinct
<1>10. {k \in DOMAIN r : r[k].enabled} = S
  BY <1>6
<1>11. EnabledIn(g) = EnabledIn(f)
  BY <1>6, <1>8, <1>9, <1>10
<1>12. \A i \in S : /\ f.collectors[e[i].name].settings = e[i].settings
                    /\ g.collectors[e[i].name].settings = e[i].settings
  <2>1. \A i \in DOMAIN e : f.collectors[e[i].name].settings = e[i].settings
    BY <1>3, <1>4, <1>5, EnabledOfDistinct
  <2>2. \A i \in DOMAIN r : g.collectors[r[i].name].settings = r[i].settings
    BY <1>5, <1>7, EnabledOfDistinct
  <2> QED BY <1>6, <2>1, <2>2
<1>13. ToSet(Names(r)) = {e[i].name : i \in S}
  BY <1>6 DEF ToSet, Names
<1> QED BY <1>8, <1>11, <1>12, <1>13 DEF r

(* The fields both frontends fill in alike. *)
LEMMA FilledAlike ==
  ASSUME NEW doc \in Documents, NEW a, NEW b, NEW c, NEW d,
         NEW f, f = Filled(doc, a, b), NEW g, g = Filled(AsSpec(doc), c, d)
  PROVE  /\ f.ok /\ g.ok
         /\ f.interval = g.interval /\ f.rotate = g.rotate
         /\ f.keyPath = g.keyPath /\ f.push = g.push
         /\ f.rotate = Or(doc.rotate, 0, 30 * Day)
         /\ f.collectors = AsMap(doc.entries) /\ g.collectors = AsMap(AsSpec(doc).entries)
<1>1. /\ AsSpec(doc).interval = doc.interval /\ AsSpec(doc).rotate = doc.rotate
      /\ AsSpec(doc).keyPath = doc.keyPath /\ AsSpec(doc).push = doc.push
  BY DEF AsSpec, Documents
<1> QED BY <1>1 DEF Filled

(* What Filled makes of the paths. *)
LEMMA FilledPaths ==
  ASSUME NEW doc, NEW a, NEW b
  PROVE  /\ Filled(doc, a, b).storePath = Or(doc.storePath, "", a)
         /\ Filled(doc, a, b).exportDir = Or(doc.exportDir, "", b)
BY DEF Filled

(* The paths a document names are those of either frontend. *)
LEMMA PathsCarried ==
  ASSUME NEW doc \in Documents, ParseConfig(doc).ok, Translate(AsSpec(doc)).ok
  PROVE  /\ doc.storePath # "" => ParseConfig(doc).storePath = Translate(AsSpec(doc)).storePath
         /\ doc.exportDir # "" => ParseConfig(doc).exportDir = Translate(AsSpec(doc)).exportDir
<1> DEFINE spec == AsSpec(doc)
<1>1. spec.storePath = doc.storePath /\ spec.exportDir = doc.exportDir
  BY DEF AsSpec, Documents
<1>2. ~Refused.ok
  BY DEF Refused
<1>3. PICK a, b : ParseConfig(doc) = Filled(doc, a, b)
  BY <1>2 DEF ParseConfig, applyDefaults
<1>4. PICK c, d : Translate(spec) = Filled(spec, c, d)
  BY <1>2 DEF Translate
<1>5. /\ ParseConfig(doc).storePath = Or(doc.storePath, "", a)
      /\ ParseConfig(doc).exportDir = Or(doc.exportDir, "", b)
  BY <1>3, FilledPaths, Zenon
<1>6. /\ Translate(spec).storePath = Or(spec.storePath, "", c)
      /\ Translate(spec).exportDir = Or(spec.exportDir, "", d)
  BY <1>4, FilledPaths, Zenon
<1> HIDE DEF spec
<1>7. /\ doc.storePath # "" => ParseConfig(doc).storePath = Translate(spec).storePath
      /\ doc.exportDir # "" => ParseConfig(doc).exportDir = Translate(spec).exportDir
  BY <1>1, <1>5, <1>6, Zenon DEF Or
<1> QED BY <1>7 DEF spec

(* Only the lack of a cluster keeps what can be built elsewhere from being built. *)
LEMMA OnlyTheCluster ==
  ASSUME NEW c, NEW j, NEW k \in BOOLEAN, Registrable(c, j)
  PROVE  Registrable(c, k) \/ (~k /\ NeedsCluster(c))
<1>1. CASE k
  <2>1. Factories(j) \subseteq Factories(k)
    BY <1>1 DEF Factories
  <2> QED BY <2>1 DEF Registrable
<1>2. CASE ~k
  <2>1. Factories(k) = Factories(FALSE)
    BY <1>2 DEF Factories
  <2> QED BY <1>2, <2>1 DEF Registrable, NeedsCluster
<1> QED BY <1>1, <1>2

(***************************************************************************)
(* A file and a policy of one document.  When the file is accepted, so is  *)
(* the policy, and they behave the same; what only the file's frontend     *)
(* refuses is an empty file, an unknown field, a name listed twice, or a   *)
(* short age.                                                              *)
(***************************************************************************)
LEMMA FilePolicy ==
  ASSUME NEW doc \in Documents, NEW f, f = ParseConfig(doc), NEW g, g = Translate(AsSpec(doc))
  PROVE  \A k \in BOOLEAN :
         /\ f.ok /\ Registrable(f, k) =>
              /\ g.ok /\ Registrable(g, TRUE)
              /\ f.interval = g.interval /\ f.rotate = g.rotate
              /\ f.keyPath = g.keyPath /\ f.push = g.push
              /\ EnabledIn(f) = EnabledIn(g)
              /\ \A n \in EnabledIn(f) : f.collectors[n].settings = g.collectors[n].settings
         /\ g.ok /\ Registrable(g, TRUE) =>
              \/ f.ok /\ Registrable(f, k)
              \/ ~k /\ NeedsCluster(g)
              \/ StricterFile(doc)
<1> DEFINE e == doc.entries
           ff == Filled(doc, "evidence.jsonl", "reports")
           gg == Filled(AsSpec(doc), "/var/lib/evidenced/evidence.jsonl",
                        "/var/lib/evidenced/reports")
<1>1. /\ ff.ok /\ gg.ok
      /\ ff.interval = gg.interval /\ ff.rotate = gg.rotate
      /\ ff.keyPath = gg.keyPath /\ ff.push = gg.push
      /\ ff.rotate = Or(doc.rotate, 0, 30 * Day)
      /\ ff.collectors = AsMap(e) /\ gg.collectors = AsMap(AsSpec(doc).entries)
  BY FilledAlike
<1>2. gg.interval \in Int
  BY DEF Filled, Or, AsSpec, Documents, Hour, Minute
<1>3. f = IF \/ doc.form # "known"
             \/ ~IsInjective(Names(e))
             \/ ~(ff.interval >= Minute /\ ff.rotate >= Day)
          THEN Refused ELSE ff
  BY DEF ParseConfig, applyDefaults, validate
<1>4. g = IF "" \in ToSet(Names(AsSpec(doc).entries)) \/ gg.interval < Minute
          THEN Refused ELSE gg
  BY DEF Translate
<1> HIDE DEF ff, gg
<1>5. ASSUME IsInjective(Names(e))
      PROVE  /\ EnabledIn(ff) = EnabledIn(gg)
             /\ \A n \in EnabledIn(ff) : ff.collectors[n].settings = gg.collectors[n].settings
             /\ EnabledIn(ff) = ToSet(Names(AsSpec(doc).entries))
             /\ \A j \in BOOLEAN : Registrable(ff, j) <=> Registrable(gg, j)
             /\ NeedsCluster(ff) <=> NeedsCluster(gg)
  <2>1. /\ EnabledIn(ff) = EnabledIn(gg)
        /\ \A n \in EnabledIn(ff) : ff.collectors[n].settings = gg.collectors[n].settings
        /\ EnabledIn(ff) = ToSet(Names(AsSpec(doc).entries))
    BY <1>1, <1>5, SpecEnablesSame
  <2>2. \A j \in BOOLEAN : Registrable(ff, j) <=> Registrable(gg, j)
    BY <2>1 DEF Registrable
  <2>3. NeedsCluster(ff) <=> NeedsCluster(gg)
    BY <2>1 DEF NeedsCluster
  <2> QED BY <2>1, <2>2, <2>3
<1>6. ~Refused.ok
  BY DEF Refused
<1>7. ASSUME NEW k \in BOOLEAN, f.ok, Registrable(f, k)
      PROVE  /\ IsInjective(Names(e)) /\ f = ff /\ g = gg
             /\ g.ok /\ Registrable(g, TRUE)
  <2>1. f = ff /\ IsInjective(Names(e)) /\ ff.interval >= Minute
    BY <1>3, <1>6, <1>7
  <2>2. "" \notin EnabledIn(ff)
    <3>1. "" \notin Factories(k)
      BY DEF Factories
    <3>2. \A n \in EnabledIn(ff) : n \in Factories(k)
      BY <1>7, <2>1 DEF Registrable
    <3> QED BY <3>1, <3>2
  <2>3. "" \notin ToSet(Names(AsSpec(doc).entries))
    BY <1>5, <2>1, <2>2
  <2>4. ~(gg.interval < Minute)
    BY <1>1, <1>2, <2>1 DEF Minute
  <2>5. g = gg
    BY <1>4, <2>3, <2>4
  <2>6. Registrable(gg, TRUE)
    BY <1>5, <1>7, <2>1, OnlyTheCluster
  <2> QED BY <1>1, <2>1, <2>5, <2>6
<1>8. ASSUME NEW k \in BOOLEAN, g.ok, Registrable(g, TRUE), ~StricterFile(doc), ~(~k /\ NeedsCluster(g))
      PROVE  f.ok /\ Registrable(f, k)
  <2>1. g = gg /\ ~(gg.interval < Minute)
    BY <1>4, <1>6, <1>8
  <2>2. ff.interval >= Minute
    BY <1>1, <1>2, <2>1 DEF Minute
  <2>3. /\ doc.form = "known" /\ IsInjective(Names(e))
        /\ ~(doc.rotate # 0 /\ doc.rotate < Day)
    BY <1>8 DEF StricterFile
  <2>4. ff.rotate >= Day
    <3>1. doc.rotate \in Int
      BY DEF Documents
    <3> QED BY <1>1, <2>3, <3>1 DEF Or, Day, Hour, Minute
  <2>5. f = ff
    BY <1>3, <2>2, <2>3, <2>4
  <2>6. Registrable(gg, k)
    BY <1>8, <2>1, OnlyTheCluster
  <2> QED BY <1>1, <1>5, <2>3, <2>5, <2>6
<1> QED BY <1>1, <1>5, <1>7, <1>8

(***************************************************************************)
(* "All shells expose identical behavior for the same YAML": of a document *)
(* an engine runs with, whichever frontend it came through, every other    *)
(* engine of it runs the same or is on its way, but for one that has no    *)
(* cluster for a collector that needs one, and for what the file's         *)
(* frontend alone refuses.  For all documents, also with paths of their    *)
(* own, and any number of engines, each with or without a cluster.         *)
(***************************************************************************)
THEOREM FrontendsAlwaysAgree == Spec => []FrontendsAgree
<1>1. Init => FrontInv
  <2> SUFFICES ASSUME Init PROVE FrontInv
    OBVIOUS
  <2>1. \A p \in Procs : pc[p] = "down"
    BY DEF Init
  <2> QED BY <2>1 DEF Init, FrontInv
<1>2. FrontInv => FrontendsAgree
  <2> SUFFICES ASSUME FrontInv, NEW p \in Procs, NEW q \in Procs,
                      pc[p] = "up", setup[p].doc = setup[q].doc
               PROVE  /\ pc[q] = "up" => Behaviour(p) = Behaviour(q)
                      /\ pc[q] = "refused" =>
                           /\ setup[q].front = "file"
                           /\ \/ ~kube[q] /\ NeedsCluster(cfg[p])
                              \/ setup[p].front = "policy" /\ StricterFile(setup[p].doc)
    BY DEF FrontendsAgree
  <2> DEFINE doc == setup[p].doc
             file0 == ParseConfig(doc)
             policy0 == Translate(AsSpec(doc))
  <2>1. /\ setup[p].front \in {"file", "policy"} /\ setup[q].front \in {"file", "policy"}
        /\ doc \in Documents
    BY SetupsAssumption DEF FrontInv, Procs
  <2>2. /\ cfg[p] = IF setup[p].front = "file" THEN file0 ELSE policy0
        /\ cfg[q] = IF setup[q].front = "file" THEN file0 ELSE policy0
    BY DEF FrontInv, Parsed
  <2>3. Accepted(p) /\ (pc[q] = "up" => Accepted(q)) /\ (pc[q] = "refused" => ~Accepted(q))
    BY DEF FrontInv
  <2>k. /\ kube[p] \in BOOLEAN /\ kube[q] \in BOOLEAN
        /\ setup[p].front = "policy" => kube[p] = TRUE
        /\ setup[q].front = "policy" => kube[q] = TRUE
    BY DEF FrontInv, MayReach
  <2>d. setup[q].doc = doc
    OBVIOUS
  <2>p. file0.ok /\ policy0.ok =>
          /\ doc.storePath # "" => file0.storePath = policy0.storePath
          /\ doc.exportDir # "" => file0.exportDir = policy0.exportDir
    BY <2>1, PathsCarried
  <2>4. \A k \in BOOLEAN :
          /\ file0.ok /\ Registrable(file0, k) =>
               /\ policy0.ok /\ Registrable(policy0, TRUE)
               /\ file0.interval = policy0.interval /\ file0.rotate = policy0.rotate
               /\ file0.keyPath = policy0.keyPath /\ file0.push = policy0.push
               /\ EnabledIn(file0) = EnabledIn(policy0)
               /\ \A n \in EnabledIn(file0) :
                    file0.collectors[n].settings = policy0.collectors[n].settings
          /\ policy0.ok /\ Registrable(policy0, TRUE) =>
               \/ file0.ok /\ Registrable(file0, k)
               \/ ~k /\ NeedsCluster(policy0)
               \/ StricterFile(doc)
    BY <2>1, FilePolicy
  <2> HIDE DEF file0, policy0
  <2>5. CASE setup[p].front = setup[q].front
    <3>1. cfg[p] = cfg[q]
      BY <2>2, <2>5
    <3>2. Behaviour(p) = Behaviour(q)
      BY <3>1 DEF Behaviour
    <3>3. Accepted(q) \/ (~kube[q] /\ NeedsCluster(cfg[p]))
      BY <2>3, <2>k, <3>1, OnlyTheCluster DEF Accepted
    <3>4. ~kube[q] => setup[q].front = "file"
      BY <2>1, <2>k
    <3> QED BY <2>3, <3>2, <3>3, <3>4
  <2>6. CASE setup[p].front = "file" /\ setup[q].front = "policy"
    <3>1. cfg[p] = file0 /\ cfg[q] = policy0 /\ kube[q] = TRUE
      BY <2>2, <2>6, <2>k
    <3>2. file0.ok /\ Registrable(file0, kube[p])
      BY <2>3, <3>1 DEF Accepted
    <3>3. Accepted(q)
      BY <2>4, <2>k, <3>1, <3>2 DEF Accepted
    <3>4. [n \in EnabledIn(file0) |-> file0.collectors[n].settings]
            = [n \in EnabledIn(policy0) |-> policy0.collectors[n].settings]
      BY <2>4, <2>k, <3>2
    <3>5. Behaviour(p) = Behaviour(q)
      BY <2>4, <2>k, <2>d, <2>p, <3>1, <3>2, <3>4 DEF Behaviour
    <3> QED BY <2>3, <3>3, <3>5
  <2>7. CASE setup[p].front = "policy" /\ setup[q].front = "file"
    <3>1. cfg[p] = policy0 /\ cfg[q] = file0 /\ kube[p] = TRUE
      BY <2>2, <2>7, <2>k
    <3>2. ASSUME pc[q] = "up" PROVE Behaviour(p) = Behaviour(q)
      <4>1. file0.ok /\ Registrable(file0, kube[q])
        BY <2>3, <3>1, <3>2 DEF Accepted
      <4>2. [n \in EnabledIn(file0) |-> file0.collectors[n].settings]
              = [n \in EnabledIn(policy0) |-> policy0.collectors[n].settings]
        BY <2>4, <2>k, <4>1
      <4> QED BY <2>4, <2>k, <2>d, <2>p, <3>1, <4>1, <4>2 DEF Behaviour
    <3>3. ASSUME pc[q] = "refused"
          PROVE  (~kube[q] /\ NeedsCluster(cfg[p])) \/ StricterFile(doc)
      <4>1. /\ policy0.ok /\ Registrable(policy0, TRUE)
            /\ ~(file0.ok /\ Registrable(file0, kube[q]))
        BY <2>3, <3>1, <3>3 DEF Accepted
      <4> QED BY <2>4, <2>k, <3>1, <4>1
    <3> QED BY <2>7, <3>2, <3>3 DEF doc
  <2> QED BY <2>1, <2>5, <2>6, <2>7
<1> QED BY <1>1, <1>2, InvInit, InvStep, FrontStep, PTL DEF Spec
=============================================================================
