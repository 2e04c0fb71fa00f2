---------------------------- MODULE DaemonProofs ----------------------------
(***************************************************************************)
(* Proofs about Daemon for any collectors and every bound: the cycle       *)
(* implements the loop of DaemonLoop, the portal has a prefix of every     *)
(* segment, history only grows, and the bundle reports the cycle.          *)
(***************************************************************************)
EXTENDS Daemon, SequenceTheorems, WellFoundedInduction, TLAPS

InCycle == {"rotate", "collect", "export", "push"}

(* What the refinement mapping needs to know of the process. *)
LoopTypes ==
  /\ pc \in {"down", "build", "wait", "stopped"} \cup InCycle
  /\ cancelled \in BOOLEAN

Phase == IF pc \in InCycle THEN "cycle" ELSE pc

(* Leaving the process is leaving the loop, wherever the cycle was. *)
LEMMA ExitDies ==
  ASSUME LoopTypes, pc \notin {"down", "stopped"}, Exit
  PROVE  Loop!Dies /\ LoopTypes'
<1>1. Phase \in {"build", "cycle", "wait"}
  BY DEF LoopTypes, InCycle, Phase
<1>2. Phase' = IF cancelled THEN "stopped" ELSE "down"
  BY DEF Exit, Phase, InCycle
<1>3. LoopTypes'
  BY DEF LoopTypes, Exit
<1>4. Loop!Dies
  BY <1>1, <1>2 DEF Exit, Loop!Dies, Phase, InCycle
<1> QED BY <1>3, <1>4

(* A step within the cycle is no step of the loop. *)
LEMMA CycleStutters ==
  ASSUME LoopTypes, pc \in InCycle, pc' \in InCycle, UNCHANGED loop
  PROVE  UNCHANGED Loop!vars /\ LoopTypes'
  BY DEF LoopTypes, InCycle, loop, Loop!vars

(* Every other step is the loop's step of the same name. *)
LEMMA LoopStep ==
  ASSUME LoopTypes, [Next]_vars
  PROVE  [Loop!Next]_(Loop!vars) /\ LoopTypes'
<1>1. CASE UNCHANGED vars
  BY <1>1 DEF vars, Loop!vars, LoopTypes
<1>2. CASE Start
  <2>1. Loop!Start
    BY <1>2 DEF Start, loop, Loop!Start
  <2> QED BY <1>2, <2>1 DEF Start, loop, LoopTypes, Loop!Next
<1>3. CASE BuildOk
  <2>1. Loop!BuildOk
    BY <1>3 DEF BuildOk, BeginCycle, loop, Loop!BuildOk
  <2> QED BY <1>3, <2>1 DEF BuildOk, BeginCycle, loop, LoopTypes, InCycle, Loop!Next
<1>4. CASE RotateStore \/ Collect \/ AppendBatch \/ RunOnceDone \/ Export
  <2>1. pc \in InCycle /\ pc' \in InCycle /\ UNCHANGED loop
    BY <1>4 DEF RotateStore, Collect, AppendBatch, RunOnceDone, Export, InCycle
  <2> QED BY <2>1, CycleStutters
<1>5. CASE RotateFails \/ AppendFails \/ Die
  <2>1. pc \notin {"down", "stopped"} /\ Exit
    BY <1>5 DEF RotateFails, AppendFails, Die
  <2> QED BY <2>1, ExitDies DEF Loop!Next
<1>6. CASE Push
  <2>1. Loop!CycleOk
    BY <1>6 DEF Push, Loop!CycleOk
  <2> QED BY <1>6, <2>1 DEF Push, LoopTypes, Loop!Next
<1>7. CASE TickerFires
  <2>1. Loop!TickerFires
    BY <1>7 DEF TickerFires, LoopTypes, InCycle, Loop!TickerFires
  <2> QED BY <1>7, <2>1 DEF TickerFires, LoopTypes, Loop!Next
<1>8. CASE TakeTick
  <2>1. Loop!TakeTick
    BY <1>8 DEF TakeTick, BeginCycle, Loop!TakeTick
  <2> QED BY <1>8, <2>1 DEF TakeTick, BeginCycle, LoopTypes, InCycle, Loop!Next
<1>9. CASE TakeDone
  <2>1. Loop!TakeDone
    BY <1>9 DEF TakeDone, Loop!TakeDone
  <2> QED BY <1>9, <2>1 DEF TakeDone, LoopTypes, Loop!Next
<1>10. CASE Signal
  <2>1. Loop!Signal
    BY <1>10 DEF Signal, LoopTypes, InCycle, Loop!Signal
  <2> QED BY <1>10, <2>1 DEF Signal, LoopTypes, Loop!Next
<1>11. CASE BuildRefused
  <2>1. Loop!BuildRefused
    BY <1>11 DEF BuildRefused, loop, Loop!BuildRefused
  <2> QED BY <1>11, <2>1 DEF BuildRefused, loop, LoopTypes, Loop!Next
<1> QED
  BY <1>1, <1>2, <1>3, <1>4, <1>5, <1>6, <1>7, <1>8, <1>9, <1>10, <1>11 DEF Next

(***************************************************************************)
(* Whatever its collectors, store, export and upload do, the daemon's      *)
(* process moves as its loop does: a cycle ends by waiting or by leaving,  *)
(* and nothing but the loop makes or takes ticks.                          *)
(***************************************************************************)
THEOREM CycleImplementsLoop == Spec => ImplementsLoop
<1>1. Init => LoopTypes /\ Loop!Init
  BY DEF Init, LoopTypes, Loop!Init
<1>2. LoopTypes /\ [Next]_vars => [Loop!Next]_(Loop!vars) /\ LoopTypes'
  BY LoopStep
<1> QED BY <1>1, <1>2, PTL DEF Spec, ImplementsLoop, Loop!SafeSpec
-----------------------------------------------------------------------------
Recs == [cycle : Nat, col : Range(Collectors) \cup {"evidenced"},
         outcome : {"observed", "failed", "rotation"}, n : Nat]

DaemonTypes ==
  /\ cycle \in Nat
  /\ idx \in Nat \ {0}
  /\ batch \in Seq(Recs)
  /\ store \in Seq(Recs)
  /\ archives \in Seq(Seq(Recs))
  /\ bundle \in Seq(Recs)

(* Every record that is anywhere. *)
Known == portal \cup Range(store) \cup UNION {Range(archives[i]) : i \in 1..Len(archives)}

(* The sequence has no record in the portal after one that is not. *)
PrefixIn(s, p) == \A k \in 1..Len(s) : s[k] \in p => \A j \in 1..k : s[j] \in p

(* Records carry the number of the cycle that made them; quiet ones make none. *)
Dated == \A r \in Known : r.cycle \in Nat /\ r.cycle <= cycle /\ r.cycle <= MaxCycles

(***************************************************************************)
(* What the cycle under way still makes is nowhere yet: before it rotates, *)
(* anything; then what the collectors it has not come to return; and what  *)
(* the one it has come to returned and the store did not get yet.          *)
(***************************************************************************)
BeforeRotation == pc = "rotate" => batch = << >> /\ \A r \in Known : r.cycle < cycle

NotCollected ==
  pc = "collect" =>
    \A r \in Known : \A i \in idx..Len(Collectors) :
      r.cycle = cycle /\ r.col = Collectors[i] => r.outcome = "rotation"

NotAppended ==
  pc = "collect" =>
    /\ \A k, l \in 1..Len(batch) : batch[k] = batch[l] => k = l
    /\ \A k \in 1..Len(batch) :
         /\ batch[k] \notin Known
         /\ batch[k].cycle = cycle /\ cycle <= MaxCycles
         /\ idx - 1 \in 1..Len(Collectors) /\ batch[k].col = Collectors[idx - 1]

(* No record is in an archive and in the current chain. *)
Apart == \A i \in 1..Len(archives) : Range(archives[i]) \cap Range(store) = {}

(* What the portal has of each chain is the beginning of it. *)
PrefixesIn ==
  PrefixIn(store, portal) /\ \A i \in 1..Len(archives) : PrefixIn(archives[i], portal)

UploadInv ==
  /\ DaemonTypes
  /\ Dated /\ BeforeRotation /\ NotCollected /\ NotAppended
  /\ Apart /\ PrefixesIn
  /\ pc = "push" => bundle = store

(* The records of a sequence, and of one with a record more. *)
LEMMA RangeFacts ==
  ASSUME NEW S, NEW s \in Seq(S)
  PROVE  /\ Range(s) = {s[i] : i \in 1..Len(s)}
         /\ \A x \in S : Range(Append(s, x)) = Range(s) \cup {x}
<1>1. Range(s) = {s[i] : i \in 1..Len(s)}
  BY DEF Range
<1>2. ASSUME NEW x \in S PROVE Range(Append(s, x)) = Range(s) \cup {x}
  <2> DEFINE a == Append(s, x)
  <2>1. a \in Seq(S) /\ Len(a) = Len(s) + 1 /\ Len(s) \in Nat
    BY AppendProperties, LenProperties
  <2>2. (\A i \in 1..Len(s) : a[i] = s[i]) /\ a[Len(s) + 1] = x
    BY AppendProperties
  <2> HIDE DEF a
  <2>3. Range(a) = {a[i] : i \in 1..Len(a)}
    BY <2>1 DEF Range
  <2>4. 1..Len(a) = 1..Len(s) \cup {Len(s) + 1}
    BY <2>1
  <2>5. Range(a) = Range(s) \cup {x}
    BY <1>1, <2>2, <2>3, <2>4
  <2> QED BY <2>5 DEF a
<1> QED BY <1>1, <1>2

(* The records of a chain that has none, or one. *)
LEMMA ShortRanges ==
  ASSUME NEW r
  PROVE  /\ Range(<< >>) = {} /\ Len(<< >>) = 0
         /\ Range(<< r >>) = {r} /\ Len(<< r >>) = 1
<1>1. DOMAIN << >> = {} /\ DOMAIN << r >> = {1} /\ << r >>[1] = r
  OBVIOUS
<1>2. Len(<< >>) = 0 /\ Len(<< r >>) = 1
  OBVIOUS
<1>3. Range(<< >>) = {}
  BY <1>1 DEF Range
<1> DEFINE s == << r >>
<1>4. DOMAIN s = {1} /\ s[1] = r
  BY <1>1
<1> HIDE DEF s
<1>5. Range(s) = {r}
  BY <1>4 DEF Range
<1> QED BY <1>2, <1>3, <1>5 DEF s

(* A record the portal does not have leaves what it has the beginning. *)
LEMMA PrefixGrows ==
  ASSUME NEW S, NEW s \in Seq(S), NEW x \in S, NEW p, x \notin p, PrefixIn(s, p)
  PROVE  PrefixIn(Append(s, x), p)
<1> DEFINE a == Append(s, x)
<1>1. Len(a) = Len(s) + 1 /\ Len(s) \in Nat
  BY AppendProperties, LenProperties
<1>2. (\A i \in 1..Len(s) : a[i] = s[i]) /\ a[Len(s) + 1] = x
  BY AppendProperties
<1> HIDE DEF a
<1>3. PrefixIn(a, p)
  <2> SUFFICES ASSUME NEW k \in 1..Len(a), a[k] \in p, NEW j \in 1..k PROVE a[j] \in p
    BY DEF PrefixIn
  <2>1. k # Len(s) + 1
    BY <1>2
  <2>2. k \in 1..Len(s) /\ j \in 1..Len(s)
    BY <1>1, <2>1
  <2> QED BY <1>2, <2>2 DEF PrefixIn
<1> QED BY <1>3 DEF a

(* An upload of the chain q completes what the portal has of it, and leaves others. *)
LEMMA PrefixUploaded ==
  ASSUME NEW S, NEW s \in Seq(S), NEW p, NEW q, PrefixIn(s, p),
         Range(s) \subseteq q \/ Range(s) \cap q = {}
  PROVE  PrefixIn(s, p \cup q)
<1>1. \A i \in 1..Len(s) : s[i] \in Range(s)
  BY RangeFacts
<1>2. \A k \in 1..Len(s) : \A j \in 1..k : j \in 1..Len(s)
  BY LenProperties
<1> QED BY <1>1, <1>2 DEF PrefixIn

(* Leaving the data alone, and coming to a place where nothing is collected. *)
LEMMA DataKept ==
  ASSUME UploadInv, UNCHANGED << cycle, idx, batch, store, archives, bundle, portal >>,
         pc' = pc \/ pc' \notin {"rotate", "collect", "push"}
  PROVE  UploadInv'
<1>1. /\ cycle' = cycle /\ idx' = idx /\ batch' = batch /\ store' = store
      /\ archives' = archives /\ bundle' = bundle /\ portal' = portal
  OBVIOUS
<1>2. Known' = Known
  BY <1>1 DEF Known
<1>3. DaemonTypes' /\ Dated' /\ Apart' /\ PrefixesIn'
  BY <1>1, <1>2 DEF UploadInv, DaemonTypes, Dated, Apart, PrefixesIn
<1>4. BeforeRotation' /\ NotCollected' /\ NotAppended'
  BY <1>1, <1>2 DEF UploadInv, BeforeRotation, NotCollected, NotAppended
<1>5. pc' = "push" => bundle' = store'
  BY <1>1 DEF UploadInv
<1> QED BY <1>3, <1>4, <1>5 DEF UploadInv

(* Cycles are counted up to the first quiet one. *)
LEMMA CycleCounted ==
  ASSUME UploadInv, BeginCycle
  PROVE  cycle' \in Nat /\ \A n \in Nat : n <= cycle /\ n <= MaxCycles => n < cycle'
<1>1. cycle \in Nat /\ MaxCycles \in Nat
  BY DaemonBounds DEF UploadInv, DaemonTypes
<1>2. cycle' = Min({cycle + 1, MaxCycles + 1})
  BY DEF BeginCycle
<1>3. \E x \in {cycle + 1, MaxCycles + 1} : \A y \in {cycle + 1, MaxCycles + 1} : x =< y
  BY <1>1
<1>4. cycle' \in {cycle + 1, MaxCycles + 1}
  BY <1>2, <1>3 DEF Min
<1> QED BY <1>1, <1>4

(* A cycle begins with nothing collected. *)
LEMMA BeginKeeps ==
  ASSUME UploadInv, BeginCycle, UNCHANGED << store, archives, bundle, portal >>
  PROVE  UploadInv'
<1>1. /\ idx' = 1 /\ batch' = << >> /\ pc' = "rotate" /\ store' = store
      /\ archives' = archives /\ bundle' = bundle /\ portal' = portal
  BY DEF BeginCycle
<1>2. Known' = Known
  BY <1>1 DEF Known
<1>3. cycle' \in Nat /\ MaxCycles \in Nat
  BY CycleCounted, DaemonBounds
<1>4. \A r \in Known : r.cycle \in Nat /\ r.cycle <= cycle /\ r.cycle <= MaxCycles
  BY DEF UploadInv, Dated
<1>5. \A r \in Known : r.cycle < cycle'
  BY <1>4, CycleCounted
<1>6. Dated' /\ BeforeRotation'
  BY <1>1, <1>2, <1>3, <1>4, <1>5 DEF Dated, BeforeRotation
<1>7. DaemonTypes' /\ Apart' /\ PrefixesIn' /\ NotCollected' /\ NotAppended'
  BY <1>1, <1>3 DEF UploadInv, DaemonTypes, Apart, PrefixesIn, NotCollected, NotAppended
<1>8. pc' # "push"
  BY <1>1
<1> QED BY <1>6, <1>7, <1>8 DEF UploadInv

(***************************************************************************)
(* The chain is set aside and a new one holds nothing but, perhaps, its    *)
(* rotation record; the process goes on collecting or leaves.              *)
(***************************************************************************)
LEMMA ArchiveKeeps ==
  ASSUME UploadInv, pc = "rotate", cycle <= MaxCycles,
         archives' = Append(archives, store),
         store' = << >> \/ store' = << Rec("evidenced", "rotation", 0) >>,
         UNCHANGED << cycle, idx, batch, bundle, portal >>,
         pc' \notin {"rotate", "push"}
  PROVE  UploadInv'
<1> DEFINE rot == Rec("evidenced", "rotation", 0)
<1>0. /\ cycle' = cycle /\ idx' = idx /\ batch' = batch /\ bundle' = bundle /\ portal' = portal
      /\ cycle \in Nat /\ store \in Seq(Recs) /\ archives \in Seq(Seq(Recs)) /\ batch = << >>
      /\ MaxCycles \in Nat
  BY DaemonBounds DEF UploadInv, DaemonTypes, BeforeRotation
<1>1. rot \in Recs /\ rot.cycle = cycle /\ rot.outcome = "rotation"
  <2>1. "evidenced" \in Range(Collectors) \cup {"evidenced"}
    OBVIOUS
  <2>2. rot = [cycle |-> cycle, col |-> "evidenced", outcome |-> "rotation", n |-> 0]
    BY DEF Rec
  <2> HIDE DEF rot
  <2> QED BY <1>0, <2>1, <2>2 DEF Recs
<1>2. rot \notin Known
  BY <1>0, <1>1 DEF UploadInv, BeforeRotation
<1> HIDE DEF rot
<1>3. /\ << rot >> \in Seq(Recs) /\ Range(<< rot >>) = {rot}
      /\ << >> \in Seq(Recs) /\ Range(<< >>) = {}
  BY <1>1, ShortRanges
<1>4. store' \in Seq(Recs) /\ Range(store') \subseteq {rot}
  BY <1>3 DEF rot
<1>5. /\ archives' \in Seq(Seq(Recs)) /\ Len(archives') = Len(archives) + 1
      /\ Len(archives) \in Nat /\ archives'[Len(archives) + 1] = store
      /\ \A i \in 1..Len(archives) : archives'[i] = archives[i]
  BY <1>0, AppendProperties, LenProperties
<1>6. \A i \in 1..Len(archives') : i \in 1..Len(archives) \/ archives'[i] = store
  BY <1>5
<1>7. \A i \in 1..Len(archives') : Range(archives'[i]) \subseteq Known
  BY <1>5, <1>6 DEF Known
<1>8. Known' \subseteq Known \cup {rot}
  BY <1>0, <1>4, <1>7 DEF Known
<1>9. Apart'
  BY <1>2, <1>4, <1>7 DEF Apart
<1>10. PrefixesIn'
  <2>1. \A i \in 1..Len(archives') : PrefixIn(archives'[i], portal)
    BY <1>5, <1>6 DEF UploadInv, PrefixesIn
  <2>2. PrefixIn(store', portal)
    <3>1. Len(store') <= 1
      <4>1. CASE store' = << >>
        BY <4>1, ShortRanges
      <4>2. CASE store' = << Rec("evidenced", "rotation", 0) >>
        <5>1. store' = << rot >>
          BY <4>2 DEF rot
        <5>2. Len(store') = 1
          BY <5>1, ShortRanges
        <5> QED BY <5>2
      <4> QED BY <4>1, <4>2
    <3>2. \A k \in 1..Len(store') : \A j \in 1..k : j = k
      BY <1>4, <3>1, LenProperties
    <3> QED BY <3>2 DEF PrefixIn
  <2> QED BY <1>0, <2>1, <2>2 DEF PrefixesIn
<1>11. Dated'
  BY <1>0, <1>1, <1>8 DEF UploadInv, Dated
<1>12. NotCollected'
  <2>1. \A r \in Known' : r.cycle = cycle => r.outcome = "rotation"
    BY <1>0, <1>1, <1>8 DEF UploadInv, Dated, BeforeRotation
  <2> QED BY <1>0, <2>1 DEF NotCollected
<1>13. BeforeRotation' /\ NotAppended' /\ (pc' = "push" => bundle' = store')
  BY <1>0 DEF BeforeRotation, NotAppended
<1>14. DaemonTypes'
  BY <1>0, <1>4, <1>5 DEF UploadInv, DaemonTypes
<1> QED BY <1>9, <1>10, <1>11, <1>12, <1>13, <1>14 DEF UploadInv

(* The rotation that is not due, or fails before the rename. *)
LEMMA RotateKeeps ==
  ASSUME UploadInv, RotateStore \/ RotateFails
  PROVE  UploadInv'
<1>0. /\ pc = "rotate" /\ UNCHANGED << cycle, idx, batch, bundle, portal >>
      /\ pc' \notin {"rotate", "push"}
  BY DEF RotateStore, RotateFails, Exit
<1>1. CASE UNCHANGED << store, archives >>
  <2>1. /\ cycle' = cycle /\ idx' = idx /\ batch' = batch /\ store' = store
        /\ archives' = archives /\ bundle' = bundle /\ portal' = portal /\ batch = << >>
    BY <1>0, <1>1 DEF UploadInv, BeforeRotation
  <2>2. Known' = Known
    BY <2>1 DEF Known
  <2>3. DaemonTypes' /\ Dated' /\ Apart' /\ PrefixesIn'
    BY <2>1, <2>2 DEF UploadInv, DaemonTypes, Dated, Apart, PrefixesIn
  <2>4. NotCollected'
    <3>1. \A r \in Known : r.cycle # cycle
      BY <1>0 DEF UploadInv, BeforeRotation, Dated, DaemonTypes
    <3> QED BY <2>1, <2>2, <3>1 DEF NotCollected
  <2>5. BeforeRotation' /\ NotAppended' /\ (pc' = "push" => bundle' = store')
    BY <1>0, <2>1 DEF BeforeRotation, NotAppended
  <2> QED BY <2>3, <2>4, <2>5 DEF UploadInv
<1>2. CASE ~ UNCHANGED << store, archives >>
  <2>1. cycle <= MaxCycles
    <3>1. ~Quiet
      BY <1>2 DEF RotateStore, RotateFails
    <3> QED BY <3>1, DaemonBounds DEF Quiet, UploadInv, DaemonTypes
  <2>2. /\ archives' = Append(archives, store)
        /\ store' = << >> \/ store' = << Rec("evidenced", "rotation", 0) >>
    BY <1>2 DEF RotateStore, RotateFails, Archived
  <2> QED BY <1>0, <2>1, <2>2, ArchiveKeeps
<1> QED BY <1>1, <1>2

(* What a collector returned becomes records of its own, each another. *)
LEMMA RecordsOfFacts ==
  ASSUME UploadInv, NEW col \in Range(Collectors), NEW n \in Nat, NEW err \in BOOLEAN,
         NEW s, s = RecordsOf(col, n, err)
  PROVE  /\ s \in Seq(Recs)
         /\ \A k \in 1..Len(s) : s[k].cycle = cycle /\ s[k].col = col /\ s[k].outcome # "rotation"
         /\ \A k, l \in 1..Len(s) : s[k] = s[l] => k = l
         /\ n = 0 /\ ~err => 1..Len(s) = {}
<1>0. cycle \in Nat
  BY DEF UploadInv, DaemonTypes
<1>1. CASE err
  <2> DEFINE r == Rec(col, "failed", 0)
  <2>1. r \in Recs /\ r.cycle = cycle /\ r.col = col /\ r.outcome = "failed"
    <3>1. r = [cycle |-> cycle, col |-> col, outcome |-> "failed", n |-> 0]
      BY DEF Rec
    <3> HIDE DEF r
    <3> QED BY <1>0, <3>1 DEF Recs
  <2>2. s = << r >>
    BY <1>1 DEF RecordsOf
  <2> HIDE DEF r
  <2>3. << r >> \in Seq(Recs) /\ Len(<< r >>) = 1 /\ << r >>[1] = r
    BY <2>1
  <2>4. 1..Len(s) = {1} /\ s[1] = r
    BY <2>2, <2>3
  <2> QED BY <1>1, <2>1, <2>2, <2>3, <2>4
<1>2. CASE ~ err
  <2>1. s = [i \in 1..n |-> Rec(col, "observed", i)]
    BY <1>2 DEF RecordsOf
  <2>2. \A i \in 1..n : Rec(col, "observed", i)
                          = [cycle |-> cycle, col |-> col, outcome |-> "observed", n |-> i]
    BY DEF Rec
  <2>3. \A i \in 1..n : [cycle |-> cycle, col |-> col, outcome |-> "observed", n |-> i] \in Recs
    BY <1>0 DEF Recs
  <2>4. s \in [1..n -> Recs]
    BY <2>1, <2>2, <2>3
  <2>5. s \in Seq(Recs) /\ Len(s) = n
    BY <2>4
  <2>6. \A k \in 1..Len(s) : s[k].cycle = cycle /\ s[k].col = col /\ s[k].outcome = "observed"
                             /\ s[k].n = k
    BY <2>1, <2>2, <2>5
  <2>7. \A k, l \in 1..Len(s) : s[k] = s[l] => k = l
    BY <2>6
  <2>8. n = 0 => 1..Len(s) = {}
    BY <2>5
  <2> QED BY <2>5, <2>6, <2>7, <2>8
<1> QED BY <1>1, <1>2

(* The next collector is called. *)
LEMMA CollectKeeps ==
  ASSUME UploadInv, Collect
  PROVE  UploadInv'
<1>0. /\ pc = "collect" /\ pc' = pc /\ cycle' = cycle /\ store' = store /\ idx' = idx + 1
      /\ archives' = archives /\ bundle' = bundle /\ portal' = portal
      /\ idx <= Len(Collectors) /\ idx \in Nat \ {0} /\ cycle \in Nat /\ MaxCycles \in Nat
      /\ Collectors \in Seq(STRING) /\ Len(Collectors) \in Nat
  BY DaemonBounds, CollectorsAssumption, LenProperties DEF Collect, UploadInv, DaemonTypes
<1>1. PICK n \in 0..MaxBatch, err \in BOOLEAN :
        (cycle > MaxCycles => n = 0 /\ ~err) /\ batch' = RecordsOf(Collectors[idx], n, err)
  BY DEF Collect, Quiet
<1>2. Collectors[idx] \in Range(Collectors) /\ n \in Nat
  BY <1>0, DaemonBounds DEF Range
<1>3. /\ batch' \in Seq(Recs)
      /\ \A k \in 1..Len(batch') : /\ batch'[k].cycle = cycle /\ batch'[k].col = Collectors[idx]
                                   /\ batch'[k].outcome # "rotation"
      /\ \A k, l \in 1..Len(batch') : batch'[k] = batch'[l] => k = l
      /\ n = 0 /\ ~err => 1..Len(batch') = {}
  BY <1>1, <1>2, RecordsOfFacts
<1>4. Known' = Known
  BY <1>0 DEF Known
<1>5. NotAppended'
  <2>1. \A k \in 1..Len(batch') : batch'[k] \notin Known
    BY <1>0, <1>3 DEF UploadInv, NotCollected
  <2>2. \A k \in 1..Len(batch') : cycle <= MaxCycles
    BY <1>0, <1>1, <1>3
  <2>3. idx' - 1 = idx /\ idx \in 1..Len(Collectors)
    BY <1>0
  <2> QED BY <1>0, <1>3, <1>4, <2>1, <2>2, <2>3 DEF NotAppended
<1>6. NotCollected'
  <2>1. idx'..Len(Collectors) \subseteq idx..Len(Collectors)
    BY <1>0
  <2> QED BY <1>0, <1>4, <2>1 DEF UploadInv, NotCollected
<1>7. Dated' /\ Apart' /\ PrefixesIn' /\ BeforeRotation' /\ (pc' = "push" => bundle' = store')
  BY <1>0, <1>4 DEF UploadInv, Dated, Apart, PrefixesIn, BeforeRotation
<1>8. DaemonTypes'
  BY <1>0, <1>3 DEF UploadInv, DaemonTypes
<1> QED BY <1>5, <1>6, <1>7, <1>8 DEF UploadInv

(* A record of the batch is appended; what the process does next apart. *)
LEMMA StoreExtended ==
  ASSUME UploadInv, pc = "collect", batch # << >>, store' = Append(store, Head(batch)),
         UNCHANGED << cycle, archives, portal >>
  PROVE  /\ store' \in Seq(Recs) /\ Known' = Known \cup {batch[1]}
         /\ Dated' /\ Apart' /\ PrefixesIn'
<1>0. /\ cycle' = cycle /\ archives' = archives /\ portal' = portal /\ cycle \in Nat
      /\ store \in Seq(Recs) /\ batch \in Seq(Recs) /\ archives \in Seq(Seq(Recs))
  BY DEF UploadInv, DaemonTypes
<1>1. Head(batch) = batch[1] /\ 1 \in 1..Len(batch) /\ batch[1] \in Recs
  BY <1>0, HeadTailProperties, LenProperties, ElementOfSeq
<1>2. batch[1] \notin Known /\ batch[1].cycle = cycle /\ cycle <= MaxCycles
  BY <1>1 DEF UploadInv, NotAppended
<1>3. store' = Append(store, batch[1])
  BY <1>1
<1>4. store' \in Seq(Recs)
  BY <1>0, <1>1, <1>3, AppendProperties
<1>5. Range(store') = Range(store) \cup {batch[1]}
  BY <1>0, <1>1, <1>3, RangeFacts
<1>6. Known' = Known \cup {batch[1]}
  BY <1>0, <1>5 DEF Known
<1>7. Dated'
  BY <1>0, <1>2, <1>6 DEF UploadInv, Dated
<1>8. Apart'
  <2>1. \A i \in 1..Len(archives) : batch[1] \notin Range(archives[i])
    BY <1>2 DEF Known
  <2>2. Apart
    BY DEF UploadInv
  <2> QED BY <1>0, <1>5, <2>1, <2>2 DEF Apart
<1>9. PrefixIn(store, portal)'
  <2>1. batch[1] \notin portal
    BY <1>2 DEF Known
  <2> QED BY <1>0, <1>1, <1>3, <2>1, PrefixGrows DEF UploadInv, PrefixesIn
<1>10. PrefixesIn'
  BY <1>0, <1>9 DEF UploadInv, PrefixesIn
<1> QED BY <1>4, <1>6, <1>7, <1>8, <1>10

(* A record of the batch reaches the store. *)
LEMMA AppendKeeps ==
  ASSUME UploadInv, AppendBatch
  PROVE  UploadInv'
<1>0. /\ pc = "collect" /\ pc' = pc /\ cycle' = cycle /\ idx' = idx /\ batch # << >>
      /\ archives' = archives /\ bundle' = bundle /\ portal' = portal /\ batch \in Seq(Recs)
      /\ store' = Append(store, Head(batch)) /\ batch' = Tail(batch) /\ idx \in Nat \ {0}
  BY DEF AppendBatch, UploadInv, DaemonTypes
<1>1. /\ store' \in Seq(Recs) /\ Known' = Known \cup {batch[1]}
      /\ Dated' /\ Apart' /\ PrefixesIn'
  BY <1>0, StoreExtended
<1>2. /\ batch' \in Seq(Recs) /\ Len(batch') = Len(batch) - 1 /\ Len(batch) \in Nat
      /\ \A k \in 1..Len(batch') : batch'[k] = batch[k + 1]
  BY <1>0, HeadTailProperties, LenProperties
<1>3. Len(batch') \in Nat
  BY <1>2, LenProperties
<1>4. \A k \in 1..Len(batch') : k + 1 \in 1..Len(batch) /\ k + 1 # 1 /\ 1 \in 1..Len(batch)
  BY <1>2, <1>3
<1>5. 1 \in 1..Len(batch)
  BY <1>2, <1>3
<1>6. /\ \A k, l \in 1..Len(batch) : batch[k] = batch[l] => k = l
      /\ \A k \in 1..Len(batch) :
           /\ batch[k] \notin Known
           /\ batch[k].cycle = cycle /\ cycle <= MaxCycles
           /\ idx - 1 \in 1..Len(Collectors) /\ batch[k].col = Collectors[idx - 1]
  BY <1>0 DEF UploadInv, NotAppended
<1>7. NotAppended'
  <2>1. \A k, l \in 1..Len(batch') : batch'[k] = batch'[l] => k = l
    <3> SUFFICES ASSUME NEW k \in 1..Len(batch'), NEW l \in 1..Len(batch'), batch'[k] = batch'[l]
                 PROVE  k = l
      OBVIOUS
    <3>1. k + 1 = l + 1
      BY <1>2, <1>4, <1>6
    <3> QED BY <3>1
  <2>2. ASSUME NEW k \in 1..Len(batch')
        PROVE  /\ batch'[k] \notin Known'
               /\ batch'[k].cycle = cycle /\ cycle <= MaxCycles
               /\ idx - 1 \in 1..Len(Collectors) /\ batch'[k].col = Collectors[idx - 1]
    <3>1. batch'[k] = batch[k + 1] /\ k + 1 \in 1..Len(batch)
      BY <1>2, <1>4
    <3>2. batch[k + 1] # batch[1]
      BY <1>4, <1>6
    <3>3. batch'[k] \notin Known'
      BY <1>1, <1>6, <3>1, <3>2
    <3> QED BY <1>6, <3>1, <3>3
  <2> QED BY <1>0, <2>1, <2>2 DEF NotAppended
<1>8. NotCollected'
  <2>1. \A i \in idx..Len(Collectors) : batch[1].col # Collectors[i]
    <3> SUFFICES ASSUME NEW i \in idx..Len(Collectors), Collectors[idx - 1] = Collectors[i]
                 PROVE  FALSE
      BY <1>5, <1>6
    <3>1. /\ idx - 1 \in DOMAIN Collectors /\ i \in DOMAIN Collectors
      BY <1>0, <1>5, <1>6, CollectorsAssumption, LenProperties
    <3>2. idx - 1 = i
      BY <3>1, CollectorsAssumption DEF IsInjective
    <3> QED BY <1>0, <3>2
  <2> QED BY <1>0, <1>1, <2>1 DEF UploadInv, NotCollected
<1>9. DaemonTypes' /\ BeforeRotation' /\ (pc' = "push" => bundle' = store')
  BY <1>0, <1>1, <1>2 DEF UploadInv, DaemonTypes, BeforeRotation
<1> QED BY <1>1, <1>7, <1>8, <1>9 DEF UploadInv

(* An append that fails may have extended the store; the process leaves. *)
LEMMA AppendFailsKeeps ==
  ASSUME UploadInv, AppendFails
  PROVE  UploadInv'
<1>0. /\ pc = "collect" /\ batch # << >>
      /\ store' = store \/ store' = Append(store, Head(batch))
      /\ UNCHANGED << cycle, idx, batch, archives, bundle, portal >>
      /\ pc' \notin {"rotate", "collect", "push"}
  BY DEF AppendFails, Exit
<1>1. CASE store' = store
  BY <1>0, <1>1, DataKept
<1>2. CASE store' = Append(store, Head(batch))
  <2>1. store' \in Seq(Recs) /\ Dated' /\ Apart' /\ PrefixesIn'
    BY <1>0, <1>2, StoreExtended
  <2>2. BeforeRotation' /\ NotCollected' /\ NotAppended' /\ (pc' = "push" => bundle' = store')
    BY <1>0 DEF BeforeRotation, NotCollected, NotAppended
  <2>3. DaemonTypes'
    BY <1>0, <2>1 DEF UploadInv, DaemonTypes
  <2> QED BY <2>1, <2>2, <2>3 DEF UploadInv
<1> QED BY <1>0, <1>1, <1>2

(* The bundle is made of the whole store, and uploaded or not. *)
LEMMA UploadKeeps ==
  ASSUME UploadInv, Export \/ Push
  PROVE  UploadInv'
<1>0. /\ cycle' = cycle /\ idx' = idx /\ batch' = batch /\ store' = store /\ archives' = archives
      /\ pc' \notin {"rotate", "collect"}
      /\ store \in Seq(Recs) /\ archives \in Seq(Seq(Recs))
  BY DEF Export, Push, UploadInv, DaemonTypes
<1>1. bundle' \in Seq(Recs) /\ (pc' = "push" => bundle' = store')
  BY DEF Export, Push, Exported, UploadInv, DaemonTypes
<1>2. portal' = portal \/ portal' = portal \cup Range(store)
  BY DEF Export, Push, UploadInv
<1>3. PrefixesIn'
  <2>1. ASSUME portal' = portal \cup Range(store) PROVE PrefixesIn'
    <3>1. PrefixIn(store, portal')
      BY <1>0, <2>1, PrefixUploaded DEF UploadInv, PrefixesIn
    <3>2. ASSUME NEW i \in 1..Len(archives) PROVE PrefixIn(archives[i], portal')
      <4>1. archives[i] \in Seq(Recs)
        BY <1>0, ElementOfSeq
      <4>2. Range(archives[i]) \cap Range(store) = {} /\ PrefixIn(archives[i], portal)
        BY DEF UploadInv, Apart, PrefixesIn
      <4> QED BY <2>1, <4>1, <4>2, PrefixUploaded
    <3> QED BY <1>0, <3>1, <3>2 DEF PrefixesIn
  <2>2. ASSUME portal' = portal PROVE PrefixesIn'
    BY <1>0, <2>2 DEF UploadInv, PrefixesIn
  <2> QED BY <1>2, <2>1, <2>2
<1>4. Known' = Known
  BY <1>0, <1>2 DEF Known
<1>5. Dated' /\ Apart' /\ BeforeRotation' /\ NotCollected' /\ NotAppended'
  BY <1>0, <1>4 DEF UploadInv, Dated, Apart, BeforeRotation, NotCollected, NotAppended
<1>6. DaemonTypes'
  BY <1>0, <1>1 DEF UploadInv, DaemonTypes
<1> QED BY <1>1, <1>3, <1>5, <1>6 DEF UploadInv

(* Every step. *)
LEMMA UploadStep == UploadInv /\ [Next]_vars => UploadInv'
<1> SUFFICES ASSUME UploadInv, [Next]_vars PROVE UploadInv'
  OBVIOUS
<1>1. CASE \/ UNCHANGED vars \/ Start \/ BuildRefused \/ RunOnceDone \/ TickerFires
           \/ TakeDone \/ Signal \/ Die
  <2>1. /\ UNCHANGED << cycle, idx, batch, store, archives, bundle, portal >>
        /\ pc' = pc \/ pc' \notin {"rotate", "collect", "push"}
    BY <1>1 DEF vars, data, Start, BuildRefused, RunOnceDone, TickerFires, TakeDone, Signal, Die, Exit
  <2> QED BY <2>1, DataKept
<1>2. CASE BuildOk \/ TakeTick
  <2>1. BeginCycle /\ UNCHANGED << store, archives, bundle, portal >>
    BY <1>2 DEF BuildOk, TakeTick
  <2> QED BY <2>1, BeginKeeps
<1> QED BY <1>1, <1>2, RotateKeeps, CollectKeeps, AppendKeeps, AppendFailsKeeps, UploadKeeps
        DEF Next

(* Nothing is anywhere to begin with. *)
LEMMA UploadInit == Init => UploadInv
<1> SUFFICES ASSUME Init PROVE UploadInv
  OBVIOUS
<1>1. /\ pc = "down" /\ cycle = 0 /\ idx = 1 /\ batch = << >> /\ store = << >> /\ archives = << >>
      /\ bundle = << >> /\ portal = {}
  BY DEF Init
<1>2. Len(<< >>) = 0 /\ Range(<< >>) = {}
  BY ShortRanges
<1>3. Known = {}
  BY <1>1, <1>2 DEF Known
<1>4. DaemonTypes
  BY <1>1 DEF DaemonTypes
<1>5. Dated /\ BeforeRotation /\ NotCollected /\ NotAppended
  BY <1>1, <1>3 DEF Dated, BeforeRotation, NotCollected, NotAppended
<1>6. Apart /\ PrefixesIn
  BY <1>1, <1>2 DEF Apart, PrefixesIn, PrefixIn
<1> QED BY <1>1, <1>4, <1>5, <1>6 DEF UploadInv

(***************************************************************************)
(* Uploads that fail, or arrive while their answer is lost, and processes  *)
(* that die anywhere, for any collectors and however many cycles: of each  *)
(* segment, the current chain and the archived ones, the portal has a      *)
(* prefix.                                                                 *)
(***************************************************************************)
THEOREM PortalAlwaysHasPrefixes == Spec => []PortalHasPrefixes
<1>1. UploadInv => PortalHasPrefixes
  <2> SUFFICES ASSUME UploadInv, NEW i \in 1..Len(Segments) PROVE PrefixIn(Segments[i], portal)
    BY DEF PortalHasPrefixes, PrefixIn
  <2>1. archives \in Seq(Seq(Recs)) /\ store \in Seq(Recs)
    BY DEF UploadInv, DaemonTypes
  <2>2. /\ Len(Segments) = Len(archives) + 1 /\ Len(archives) \in Nat
        /\ Segments[Len(archives) + 1] = store
        /\ \A k \in 1..Len(archives) : Segments[k] = archives[k]
    BY <2>1, AppendProperties, LenProperties DEF Segments
  <2>3. i \in 1..Len(archives) \/ i = Len(archives) + 1
    BY <2>2
  <2> QED BY <2>2, <2>3 DEF UploadInv, PrefixesIn
<1> QED BY <1>1, UploadInit, UploadStep, PTL DEF Spec

(* A chain is the beginning of itself, and of itself with a record more. *)
LEMMA PrefixFacts ==
  ASSUME NEW S, NEW s \in Seq(S)
  PROVE  IsPrefix(s, s) /\ \A x \in S : IsPrefix(s, Append(s, x))
<1>1. Len(s) \in Nat
  BY LenProperties
<1>2. IsPrefix(s, s)
  BY <1>1 DEF IsPrefix
<1>3. ASSUME NEW x \in S PROVE IsPrefix(s, Append(s, x))
  <2> DEFINE a == Append(s, x)
             n == Len(s)
  <2>1. a \in Seq(S) /\ Len(a) = n + 1 /\ \A i \in 1..n : a[i] = s[i]
    BY AppendProperties
  <2>2. \A i \in 1..n : s[i] \in S
    BY ElementOfSeq
  <2> HIDE DEF a, n
  <2>3. \A i \in 1..n : a[i] \in S
    BY <2>1, <2>2
  <2>4. /\ SubSeq(s, 1, n) \in Seq(S) /\ SubSeq(a, 1, n) \in Seq(S)
        /\ Len(SubSeq(s, 1, n)) = n /\ Len(SubSeq(a, 1, n)) = n
        /\ \A i \in 1..n : SubSeq(s, 1, n)[i] = s[i] /\ SubSeq(a, 1, n)[i] = a[i]
    BY <1>1, <2>2, <2>3, SubSeqProperties DEF n
  <2>5. SubSeq(s, 1, n) = SubSeq(a, 1, n)
    BY <2>1, <2>4, SeqEqual
  <2>6. n <= Len(a)
    BY <1>1, <2>1 DEF n
  <2> QED BY <2>5, <2>6 DEF IsPrefix, a, n
<1> QED BY <1>2, <1>3

(***************************************************************************)
(* The append-only history of one store, for any collectors and however    *)
(* many cycles, failures and restarts: a step extends the current chain,   *)
(* or sets it aside as it is, and touches no archived segment.             *)
(***************************************************************************)
THEOREM HistoryAlwaysGrows == Spec => HistoryGrows
<1> DEFINE Grows ==
      \A i \in 1..Len(Segments) :
        /\ i <= Len(Segments')
        /\ IsPrefix(Segments[i], Segments'[i])
        /\ i < Len(Segments) => Segments'[i] = Segments[i]
<1>1. ASSUME UploadInv, [Next]_vars PROVE Grows
  <2>0. /\ archives \in Seq(Seq(Recs)) /\ store \in Seq(Recs)
        /\ archives' \in Seq(Seq(Recs)) /\ store' \in Seq(Recs)
    BY <1>1, UploadStep DEF UploadInv, DaemonTypes
  <2> DEFINE n == Len(archives)
  <2>1. /\ Segments \in Seq(Seq(Recs)) /\ Len(Segments) = n + 1 /\ n \in Nat /\ Segments[n + 1] = store
        /\ \A i \in 1..n : Segments[i] = archives[i] /\ archives[i] \in Seq(Recs)
    BY <2>0, AppendProperties, LenProperties, ElementOfSeq DEF Segments
  <2>2. /\ Len(Segments') = Len(archives') + 1 /\ Len(archives') \in Nat
        /\ Segments'[Len(archives') + 1] = store'
        /\ \A i \in 1..Len(archives') : Segments'[i] = archives'[i]
    BY <2>0, AppendProperties, LenProperties DEF Segments
  <2>3. \A i \in 1..Len(Segments) : i \in 1..n \/ i = n + 1
    BY <2>1
  <2>4. \A i \in 1..n : IsPrefix(archives[i], archives[i])
    BY <2>1, PrefixFacts
  <2> HIDE DEF n
  <2>5. ASSUME archives' = archives, IsPrefix(store, store') PROVE Grows
    <3>1. /\ Len(Segments') = n + 1 /\ Segments'[n + 1] = store'
          /\ \A i \in 1..n : Segments'[i] = archives[i]
      BY <2>2, <2>5 DEF n
    <3> SUFFICES ASSUME NEW i \in 1..Len(Segments)
                 PROVE  /\ i <= Len(Segments')
                        /\ IsPrefix(Segments[i], Segments'[i])
                        /\ i < Len(Segments) => Segments'[i] = Segments[i]
      OBVIOUS
    <3>2. CASE i \in 1..n
      <4>1. Segments'[i] = Segments[i] /\ IsPrefix(Segments[i], Segments'[i])
        BY <2>1, <2>4, <3>1, <3>2
      <4>2. i <= Len(Segments')
        BY <2>1, <3>1, <3>2
      <4> QED BY <4>1, <4>2
    <3>3. CASE i = n + 1
      <4>1. IsPrefix(Segments[i], Segments'[i])
        BY <2>1, <2>5, <3>1, <3>3
      <4>2. i <= Len(Segments') /\ ~ (i < Len(Segments))
        BY <2>1, <3>1, <3>3
      <4> QED BY <4>1, <4>2
    <3> QED BY <2>3, <3>2, <3>3
  <2>6. ASSUME archives' = Append(archives, store) PROVE Grows
    <3>1. /\ Len(archives') = n + 1 /\ archives'[n + 1] = store
          /\ \A i \in 1..n : archives'[i] = archives[i]
      BY <2>0, <2>6, AppendProperties DEF n
    <3>2. IsPrefix(store, store)
      BY <2>0, PrefixFacts
    <3>3. \A i \in 1..n : i \in 1..Len(archives')
      BY <2>1, <3>1
    <3>4. n + 1 \in 1..Len(archives')
      BY <2>1, <3>1
    <3>5. /\ Segments'[n + 1] = store
          /\ \A i \in 1..n : Segments'[i] = archives[i]
      BY <2>2, <3>1, <3>3, <3>4
    <3>6. \A i \in 1..Len(Segments) : Segments'[i] = Segments[i]
      BY <2>1, <2>3, <3>5
    <3>7. \A i \in 1..Len(Segments) : IsPrefix(Segments[i], Segments[i])
      BY <2>1, <2>3, <2>4, <3>2
    <3>8. \A i \in 1..Len(Segments) : i <= Len(Segments')
      BY <2>1, <2>2, <3>1
    <3> QED BY <3>6, <3>7, <3>8
  <2> HIDE DEF Grows
  <2>7. CASE UNCHANGED << store, archives >>
    BY <2>0, <2>5, <2>7, PrefixFacts
  <2>8. CASE AppendBatch \/ AppendFails
    <3>1. /\ archives' = archives /\ batch # << >> /\ batch \in Seq(Recs)
          /\ store' = store \/ store' = Append(store, Head(batch))
      BY <1>1, <2>8 DEF AppendBatch, AppendFails, UploadInv, DaemonTypes
    <3>2. Head(batch) \in Recs
      BY <3>1, HeadTailProperties
    <3> QED BY <2>0, <2>5, <3>1, <3>2, PrefixFacts
  <2>9. CASE RotateStore \/ RotateFails
    BY <2>6, <2>7, <2>9 DEF RotateStore, RotateFails, Archived
  <2> QED BY <1>1, <2>7, <2>8, <2>9 DEF Next, vars, data, Start, BuildOk, BuildRefused, Collect, RunOnceDone,
             Export, Push, TickerFires, TakeTick, TakeDone, Signal, Die
<1>2. UploadInv /\ [Next]_vars => [Grows]_vars
  BY <1>1
<1> QED BY <1>2, UploadInit, UploadStep, PTL DEF Spec, HistoryGrows
-----------------------------------------------------------------------------
(* A set of natural numbers that is not empty has a least member. *)
LEMMA LeastNat ==
  ASSUME NEW T, T \subseteq Nat, T # {}
  PROVE  \E m \in T : \A k \in T : m <= k
<1> DEFINE R == OpToRel(<, Nat)
<1>1. IsWellFoundedOn(R, Nat)
  BY NatLessThanWellFounded
<1>2. \E m \in T : \A k \in T : ~(<< k, m >> \in R)
  <2> HIDE DEF R
  <2> QED BY <1>1, WFMin
<1>3. PICK m \in T : \A k \in T : ~(<< k, m >> \in R)
  BY <1>2
<1>4. ASSUME NEW k \in T PROVE m <= k
  <2>1. k \in Nat /\ m \in Nat
    OBVIOUS
  <2>2. ~(<< k, m >> \in R)
    BY <1>3
  <2>3. ~(k < m)
    BY <2>1, <2>2 DEF OpToRel
  <2> QED BY <2>1, <2>3
<1> QED BY <1>4

(* f joins the first n sequences of t, one by one: FlattenSeq's recursion. *)
Joins(t, n, f) == f = [i \in 1..n |-> IF i = 1 THEN t[i] ELSE f[i-1] \o t[i]]

(* What a joining is at each place. *)
LEMMA JoinsAt ==
  ASSUME NEW t, NEW n \in Nat, NEW f
  PROVE  Joins(t, n, f) <=> /\ f = [i \in 1..n |-> f[i]]
                            /\ \A i \in 1..n : f[i] = IF i = 1 THEN t[i] ELSE f[i-1] \o t[i]
  BY DEF Joins

(* There is a joining of any number of sequences. *)
LEMMA JoinsExist ==
  ASSUME NEW t, NEW n \in Nat
  PROVE  \E f : Joins(t, n, f)
<1> DEFINE T == {m \in Nat : ~ \E f : Joins(t, m, f)}
<1>1. SUFFICES ASSUME T # {} PROVE FALSE
  OBVIOUS
<1>2. PICK m \in T : \A k \in T : m <= k
  <2>1. T \subseteq Nat
    OBVIOUS
  <2> QED BY <1>1, <2>1, LeastNat
<1>3. CASE m = 0
  <2>1. Joins(t, 0, [i \in 1..0 |-> t[i]])
    BY DEF Joins
  <2> QED BY <1>3, <2>1
<1>4. CASE m # 0
  <2>1. m - 1 \in Nat /\ ~(m <= m - 1) /\ m \in Nat
    BY <1>4
  <2>2. m - 1 \notin T
    BY <1>2, <2>1
  <2>3. PICK f : Joins(t, m - 1, f)
    BY <2>1, <2>2
  <2> DEFINE g == [i \in 1..m |-> IF i = m THEN (IF m = 1 THEN t[m] ELSE f[m-1] \o t[m]) ELSE f[i]]
  <2>4. \A i \in 1..m-1 : f[i] = IF i = 1 THEN t[i] ELSE f[i-1] \o t[i]
    BY <2>1, <2>3, JoinsAt
  <2>5. ASSUME NEW i \in 1..m PROVE g[i] = IF i = 1 THEN t[i] ELSE g[i-1] \o t[i]
    <3>1. CASE i = 1
      <4>1. CASE m = 1
        BY <3>1, <4>1
      <4>2. CASE m # 1
        <5>1. g[i] = f[i] /\ i \in 1..m-1
          BY <2>1, <3>1, <4>2
        <5> QED BY <2>4, <3>1, <5>1
      <4> QED BY <4>1, <4>2
    <3>2. CASE i # 1
      <4>1. i - 1 \in 1..m-1 /\ i - 1 # m /\ i - 1 \in 1..m
        BY <2>1, <3>2
      <4>2. g[i-1] = f[i-1]
        BY <4>1
      <4>3. CASE i = m
        BY <2>1, <3>2, <4>2, <4>3
      <4>4. CASE i # m
        <5>1. g[i] = f[i] /\ i \in 1..m-1
          BY <2>1, <4>4
        <5> QED BY <2>4, <3>2, <4>2, <5>1
      <4> QED BY <4>3, <4>4
    <3> QED BY <3>1, <3>2
  <2>6. g = [i \in 1..m |-> g[i]]
    OBVIOUS
  <2> HIDE DEF g
  <2>7. Joins(t, m, g)
    BY <2>1, <2>5, <2>6, JoinsAt
  <2> QED BY <2>7
<1> QED BY <1>3, <1>4

(* Joinings of the same sequences agree, and are sequences. *)
LEMMA JoinsAgree ==
  ASSUME NEW S, NEW t, NEW u, NEW n \in Nat, NEW m \in Nat, n <= m,
         NEW f, NEW g, Joins(t, n, f), Joins(u, m, g),
         \A i \in 1..n : t[i] = u[i] /\ t[i] \in Seq(S)
  PROVE  \A i \in 1..n : f[i] = g[i] /\ f[i] \in Seq(S)
<1> DEFINE T == {i \in 1..n : ~(f[i] = g[i] /\ f[i] \in Seq(S))}
<1>1. SUFFICES ASSUME T # {} PROVE FALSE
  OBVIOUS
<1>2. PICK k \in T : \A j \in T : k <= j
  <2>1. T \subseteq Nat
    OBVIOUS
  <2> QED BY <1>1, <2>1, LeastNat
<1>3. k \in 1..n /\ k \in 1..m /\ t[k] = u[k] /\ t[k] \in Seq(S)
  OBVIOUS
<1>4. /\ f[k] = IF k = 1 THEN t[k] ELSE f[k-1] \o t[k]
      /\ g[k] = IF k = 1 THEN u[k] ELSE g[k-1] \o u[k]
  BY <1>3, JoinsAt
<1>5. CASE k = 1
  BY <1>3, <1>4, <1>5
<1>6. CASE k # 1
  <2>1. k - 1 \in 1..n /\ ~(k <= k - 1)
    BY <1>3, <1>6
  <2>2. k - 1 \notin T
    BY <1>2, <2>1
  <2>3. f[k-1] = g[k-1] /\ f[k-1] \in Seq(S)
    BY <2>1, <2>2
  <2>4. f[k-1] \o t[k] \in Seq(S)
    BY <1>3, <2>3, ConcatProperties
  <2> QED BY <1>3, <1>4, <1>6, <2>3, <2>4
<1> QED BY <1>5, <1>6

(* FlattenSeq is what a joining of all ends with. *)
LEMMA FlattenIsJoin ==
  ASSUME NEW S, NEW t \in Seq(S), Len(t) # 0
  PROVE  \E f : /\ Joins(t, Len(t), f) /\ FlattenSeq(t) = f[Len(t)]
               /\ f[Len(t)] = IF Len(t) = 1 THEN t[Len(t)] ELSE f[Len(t) - 1] \o t[Len(t)]
<1> DEFINE n == Len(t)
           F == CHOOSE f : f = [i \in 1..n |-> IF i = 1 THEN t[i] ELSE f[i-1] \o t[i]]
<1>1. n \in Nat
  BY LenProperties
<1>2. \E f : f = [i \in 1..n |-> IF i = 1 THEN t[i] ELSE f[i-1] \o t[i]]
  BY <1>1, JoinsExist DEF Joins
<1>3. F = [i \in 1..n |-> IF i = 1 THEN t[i] ELSE F[i-1] \o t[i]]
  BY <1>2
<1>4. FlattenSeq(t) = F[n]
  BY DEF FlattenSeq
<1> HIDE DEF F
<1>5. Joins(t, n, F)
  BY <1>3 DEF Joins
<1>6. n \in 1..n
  BY <1>1
<1> HIDE DEF n
<1>7. F[n] = IF n = 1 THEN t[n] ELSE F[n-1] \o t[n]
  BY <1>3, <1>6
<1> QED BY <1>4, <1>5, <1>7 DEF n

(* Flattening one sequence more appends it. *)
LEMMA FlattenAppend ==
  ASSUME NEW S, NEW t \in Seq(Seq(S)), NEW x \in Seq(S), FlattenSeq(t) \in Seq(S)
  PROVE  FlattenSeq(Append(t, x)) = FlattenSeq(t) \o x /\ FlattenSeq(Append(t, x)) \in Seq(S)
<1> DEFINE u == Append(t, x)
           n == Len(t)
<1>1. n \in Nat
  BY LenProperties
<1>2. u \in Seq(Seq(S)) /\ Len(u) = n + 1
  BY AppendProperties
<1>3. (\A i \in 1..n : u[i] = t[i]) /\ u[n + 1] = x
  BY AppendProperties
<1>4. \A i \in 1..n : t[i] \in Seq(S)
  BY ElementOfSeq
<1> HIDE DEF u
<1>5. Len(u) # 0
  BY <1>1, <1>2
<1>6. PICK g : /\ Joins(u, Len(u), g) /\ FlattenSeq(u) = g[Len(u)]
               /\ g[Len(u)] = IF Len(u) = 1 THEN u[Len(u)] ELSE g[Len(u) - 1] \o u[Len(u)]
  BY <1>2, <1>5, FlattenIsJoin
<1> DEFINE l == Len(u)
<1>7. l = n + 1 /\ l \in Nat
  BY <1>1, <1>2
<1>8. Joins(u, l, g) /\ FlattenSeq(u) = g[l]
  BY <1>6
<1>9. g[l] = IF l = 1 THEN u[l] ELSE g[l-1] \o u[l]
  BY <1>6
<1> HIDE DEF l
<1>10. CASE n = 0
  <2>1. t = << >>
    BY <1>10, EmptySeq
  <2>2. FlattenSeq(t) = << >>
    BY <2>1 DEF FlattenSeq
  <2>3. FlattenSeq(u) = x
    BY <1>3, <1>7, <1>8, <1>9, <1>10
  <2>4. << >> \o x = x
    BY ConcatEmptySeq
  <2> QED BY <2>2, <2>3, <2>4 DEF u
<1>11. CASE n # 0
  <2>1. PICK f : Joins(t, n, f) /\ FlattenSeq(t) = f[n]
    BY <1>11, FlattenIsJoin
  <2>2. n <= l /\ n \in 1..n
    BY <1>1, <1>7, <1>11
  <2>3. \A i \in 1..n : t[i] = u[i] /\ t[i] \in Seq(S)
    BY <1>3, <1>4
  <2>4. \A i \in 1..n : f[i] = g[i] /\ f[i] \in Seq(S)
    BY <1>1, <1>7, <1>8, <2>1, <2>2, <2>3, JoinsAgree
  <2>5. l # 1 /\ l - 1 = n
    BY <1>1, <1>7, <1>11
  <2>6. FlattenSeq(u) = FlattenSeq(t) \o x
    BY <1>3, <1>7, <1>8, <1>9, <2>1, <2>2, <2>4, <2>5
  <2>7. FlattenSeq(t) \o x \in Seq(S)
    BY ConcatProperties
  <2> QED BY <2>6, <2>7 DEF u
<1> QED BY <1>10, <1>11
-----------------------------------------------------------------------------
(***************************************************************************)
(* What the cycle has to show for itself so far: one answer of each        *)
(* collector it has come to, and a store that ends with the records of     *)
(* these answers, those apart that are still in the batch.                 *)
(***************************************************************************)
Wants == [col : Range(Collectors), n : Nat, err : BOOLEAN]

Asked ==
  /\ want \in Seq(Wants)
  /\ Len(want) = idx - 1 /\ idx - 1 <= Len(Collectors)
  /\ \A i \in 1..Len(want) : want[i].col = Collectors[i]

Recorded ==
  /\ CycleRecords \in Seq(Recs)
  /\ \E old, done \in Seq(Recs) :
       /\ store = old \o done
       /\ done \o batch = CycleRecords
       /\ \A i \in 1..Len(old) : old[i].cycle = cycle => old[i].outcome = "rotation"

ReportInv ==
  /\ pc = "rotate" => want = << >> /\ idx = 1
  /\ pc \in {"collect", "export", "push", "wait"} => Asked /\ Recorded
  /\ pc \in {"export", "push", "wait"} => batch = << >> /\ idx > Len(Collectors)
  /\ pc \in {"push", "wait"} => bundle = store

(* The records of an answer are what Collect appends for it. *)
LEMMA ReportedFacts ==
  ASSUME UploadInv, NEW w \in Wants
  PROVE  Reported(w) = RecordsOf(w.col, w.n, w.err) /\ Reported(w) \in Seq(Recs)
<1>1. w.col \in Range(Collectors) /\ w.n \in Nat /\ w.err \in BOOLEAN
  BY DEF Wants
<1>2. Reported(w) = RecordsOf(w.col, w.n, w.err)
  BY DEF Reported, RecordsOf
<1>3. RecordsOf(w.col, w.n, w.err) \in Seq(Recs)
  BY <1>1, RecordsOfFacts
<1> QED BY <1>2, <1>3

(* One answer more. *)
LEMMA AnswerAdded ==
  ASSUME UploadInv, want \in Seq(Wants), NEW w \in Wants, want' = Append(want, w),
         cycle' = cycle, CycleRecords \in Seq(Recs)
  PROVE  CycleRecords' = CycleRecords \o Reported(w) /\ CycleRecords' \in Seq(Recs)
<1> DEFINE n == Len(want)
           P == [i \in 1..n |-> Reported(want[i])]
           Q == [i \in 1..n + 1 |-> Reported(want'[i])]
<1>1. n \in Nat /\ \A i \in 1..n : want[i] \in Wants
  BY LenProperties, ElementOfSeq
<1>2. /\ want' \in Seq(Wants) /\ Len(want') = n + 1 /\ want'[n + 1] = w
      /\ \A i \in 1..n : want'[i] = want[i]
  BY AppendProperties
<1>3. \A i \in 1..n : Reported(want[i]) \in Seq(Recs)
  BY <1>1, ReportedFacts
<1>4. Reported(w) \in Seq(Recs)
  BY ReportedFacts
<1>5. CycleRecords = FlattenSeq(P)
  BY DEF CycleRecords
<1>6. CycleRecords' = FlattenSeq(Q)
  BY <1>2 DEF CycleRecords, Reported, Rec
<1> HIDE DEF n
<1>7. P \in Seq(Seq(Recs)) /\ Len(P) = n /\ \A i \in 1..n : P[i] = Reported(want[i])
  BY <1>1, <1>3
<1>8. \A i \in 1..n + 1 : i \in 1..n \/ i = n + 1
  BY <1>1
<1>9. \A i \in 1..n + 1 : want'[i] \in Wants
  BY <1>2, ElementOfSeq
<1>10. \A i \in 1..n + 1 : Reported(want'[i]) \in Seq(Recs)
  BY <1>9, ReportedFacts
<1>11. Q \in Seq(Seq(Recs)) /\ Len(Q) = n + 1 /\ \A i \in 1..n + 1 : Q[i] = Reported(want'[i])
  <2>1. Q \in [1..n + 1 -> Seq(Recs)] /\ \A i \in 1..n + 1 : Q[i] = Reported(want'[i])
    BY <1>10
  <2> HIDE DEF Q
  <2>2. Q \in Seq(Seq(Recs)) /\ Len(Q) = n + 1
    BY <1>1, <2>1
  <2> QED BY <2>1, <2>2
<1>12. n + 1 \in 1..n + 1 /\ \A i \in 1..n : i \in 1..n + 1
  BY <1>1
<1> HIDE DEF P, Q
<1>13. Q = Append(P, Reported(w))
  <2> DEFINE A == Append(P, Reported(w))
  <2>1. A \in Seq(Seq(Recs)) /\ Len(A) = n + 1
    BY <1>4, <1>7, AppendProperties
  <2>2. (\A i \in 1..n : A[i] = P[i]) /\ A[n + 1] = Reported(w)
    BY <1>4, <1>7, AppendProperties
  <2> HIDE DEF A
  <2>3. \A i \in 1..n : A[i] = Q[i]
    BY <1>2, <1>7, <1>11, <1>12, <2>2
  <2>4. A[n + 1] = Q[n + 1]
    BY <1>2, <1>11, <1>12, <2>2
  <2>5. \A i \in 1..n + 1 : Q[i] = A[i]
    BY <1>8, <2>3, <2>4
  <2>6. Q = A
    BY <1>11, <2>1, <2>5, SeqEqual
  <2> QED BY <2>6 DEF A
<1>14. FlattenSeq(P) \in Seq(Recs)
  BY <1>5
<1> QED BY <1>4, <1>5, <1>6, <1>7, <1>13, <1>14, FlattenAppend

(* A cycle that starts collecting has recorded nothing. *)
LEMMA RotateReports ==
  ASSUME UploadInv, ReportInv, RotateStore
  PROVE  ReportInv'
<1>1. /\ pc = "rotate" /\ pc' = "collect" /\ want' = << >> /\ idx' = 1 /\ batch' = << >>
      /\ cycle' = cycle
  BY DEF RotateStore, ReportInv, UploadInv, BeforeRotation
<1>2. UploadInv'
  BY RotateKeeps
<1>3. store' \in Seq(Recs)
  BY <1>2 DEF UploadInv, DaemonTypes
<1>4. << >> \in Seq(Wants) /\ Len(<< >>) = 0 /\ << >> \in Seq(Recs)
  BY EmptySeq
<1>5. Len(Collectors) \in Nat
  BY CollectorsAssumption, LenProperties
<1>6. Asked'
  BY <1>1, <1>4, <1>5 DEF Asked
<1>7. CycleRecords' = << >>
  <2> DEFINE P == [i \in 1..Len(want') |-> Reported(want'[i])]
  <2>1. CycleRecords' = FlattenSeq(P)
    BY <1>1 DEF CycleRecords, Reported, Rec
  <2>2. P = << >>
    BY <1>1, <1>4
  <2> HIDE DEF P
  <2>3. Len(P) = 0
    BY <1>4, <2>2
  <2>4. FlattenSeq(P) = P
    BY <2>3 DEF FlattenSeq
  <2> QED BY <2>1, <2>2, <2>4
<1>8. \A i \in 1..Len(store') : store'[i].cycle = cycle => store'[i].outcome = "rotation"
  <2>1. CASE store' = store
    <3>1. \A r \in Range(store) : r.cycle < cycle /\ r.cycle \in Nat /\ cycle \in Nat
      BY <1>1 DEF UploadInv, DaemonTypes, Dated, BeforeRotation, Known
    <3>2. \A i \in 1..Len(store) : store[i] \in Range(store)
      BY RangeFacts DEF UploadInv, DaemonTypes
    <3>3. \A i \in 1..Len(store) : store[i].cycle # cycle
      BY <3>1, <3>2
    <3> QED BY <2>1, <3>3
  <2>2. CASE store' = << Rec("evidenced", "rotation", 0) >>
    <3> DEFINE r == Rec("evidenced", "rotation", 0)
    <3>1. r.outcome = "rotation"
      BY DEF Rec
    <3> HIDE DEF r
    <3>2. store' = << r >>
      BY <2>2 DEF r
    <3>3. Len(store') = 1 /\ store'[1] = r
      BY <3>2, ShortRanges
    <3> QED BY <3>1, <3>3
  <2> QED BY <2>1, <2>2 DEF RotateStore
<1>9. Recorded'
  <2>1. store' = store' \o << >> /\ << >> \o << >> = << >>
    BY <1>3, <1>4, ConcatEmptySeq
  <2> QED BY <1>1, <1>3, <1>4, <1>7, <1>8, <2>1 DEF Recorded
<1> QED BY <1>1, <1>6, <1>9 DEF ReportInv

(* The next collector's answer is the batch that is still to be recorded. *)
LEMMA CollectReports ==
  ASSUME UploadInv, ReportInv, Collect
  PROVE  ReportInv'
<1>1. /\ pc = "collect" /\ pc' = pc /\ batch = << >> /\ idx <= Len(Collectors) /\ idx' = idx + 1
      /\ cycle' = cycle /\ store' = store /\ idx \in Nat \ {0} /\ store \in Seq(Recs)
      /\ Collectors \in Seq(STRING) /\ Len(Collectors) \in Nat /\ MaxBatch \in Nat
      /\ Asked /\ Recorded
  BY DaemonBounds, CollectorsAssumption, LenProperties DEF Collect, UploadInv, DaemonTypes, ReportInv
<1>2. PICK n \in 0..MaxBatch, err \in BOOLEAN :
        /\ batch' = RecordsOf(Collectors[idx], n, err)
        /\ want' = Append(want, [col |-> Collectors[idx], n |-> n, err |-> err])
  BY DEF Collect
<1> DEFINE w == [col |-> Collectors[idx], n |-> n, err |-> err]
<1>3. w \in Wants /\ w.col = Collectors[idx] /\ w.n = n /\ w.err = err
  <2>1. Collectors[idx] \in Range(Collectors)
    BY <1>1 DEF Range
  <2>2. n \in Nat
    BY <1>1
  <2> QED BY <2>1, <2>2 DEF Wants
<1>4. want' = Append(want, w)
  BY <1>2
<1> HIDE DEF w
<1>5. want \in Seq(Wants) /\ Len(want) = idx - 1 /\ CycleRecords \in Seq(Recs)
  BY <1>1 DEF Asked, Recorded
<1>6. CycleRecords' = CycleRecords \o Reported(w) /\ CycleRecords' \in Seq(Recs)
  BY <1>1, <1>3, <1>4, <1>5, AnswerAdded
<1>7. batch' = Reported(w)
  BY <1>2, <1>3, ReportedFacts
<1>8. Recorded'
  <2>1. PICK old \in Seq(Recs), done \in Seq(Recs) :
          /\ store = old \o done
          /\ done \o batch = CycleRecords
          /\ \A i \in 1..Len(old) : old[i].cycle = cycle => old[i].outcome = "rotation"
    BY <1>1 DEF Recorded
  <2>2. done = CycleRecords
    BY <1>1, <2>1, ConcatEmptySeq
  <2> QED BY <1>1, <1>6, <1>7, <2>1, <2>2 DEF Recorded
<1>9. Asked'
  <2>1. /\ want' \in Seq(Wants) /\ Len(want') = idx /\ want'[idx] = w
        /\ \A i \in 1..idx - 1 : want'[i] = want[i]
    <3>1. want' \in Seq(Wants) /\ Len(want') = Len(want) + 1 /\ want'[Len(want) + 1] = w
      BY <1>3, <1>4, <1>5, AppendProperties
    <3>2. \A i \in 1..Len(want) : want'[i] = want[i]
      BY <1>3, <1>4, <1>5, AppendProperties
    <3>3. Len(want) + 1 = idx
      BY <1>1, <1>5
    <3> QED BY <1>5, <3>1, <3>2, <3>3
  <2>2. \A i \in 1..idx : i \in 1..idx - 1 \/ i = idx
    BY <1>1
  <2>3. \A i \in 1..idx : want'[i].col = Collectors[i]
    BY <1>1, <1>3, <1>5, <2>1, <2>2 DEF Asked
  <2>4. Len(want') = idx' - 1 /\ idx' - 1 <= Len(Collectors)
    BY <1>1, <2>1
  <2> QED BY <2>1, <2>3, <2>4 DEF Asked
<1> QED BY <1>1, <1>8, <1>9 DEF ReportInv

(* A record goes from the batch to the end of the store. *)
LEMMA AppendReports ==
  ASSUME UploadInv, ReportInv, AppendBatch
  PROVE  ReportInv'
<1>1. /\ pc = "collect" /\ pc' = pc /\ cycle' = cycle /\ idx' = idx /\ want' = want
      /\ batch # << >> /\ batch \in Seq(Recs) /\ store' = Append(store, Head(batch))
      /\ batch' = Tail(batch) /\ Asked /\ Recorded
  BY DEF AppendBatch, UploadInv, DaemonTypes, ReportInv
<1>2. Asked' /\ CycleRecords' = CycleRecords
  BY <1>1 DEF Asked, CycleRecords, Reported, Rec
<1>3. PICK old \in Seq(Recs), done \in Seq(Recs) :
        /\ store = old \o done
        /\ done \o batch = CycleRecords
        /\ \A i \in 1..Len(old) : old[i].cycle = cycle => old[i].outcome = "rotation"
  BY <1>1 DEF Recorded
<1> DEFINE h == Head(batch)
           t == Tail(batch)
           one == << h >>
<1>4. h \in Recs /\ t \in Seq(Recs)
  BY <1>1, HeadTailProperties
<1>5. one \in Seq(Recs)
  BY <1>4
<1>6. batch = one \o t
  <2>1. Len(batch) \in Nat \ {0}
    BY <1>1, EmptySeq
  <2>2. 1 \in 1..Len(batch) /\ Len(batch) \in 1..Len(batch) /\ Len(batch) \in Nat
    BY <2>1
  <2>3. SubSeq(batch, 1, Len(batch)) = << batch[1] >> \o SubSeq(batch, 2, Len(batch))
    BY <1>1, <2>2, SubSeqRecursiveFirst
  <2>4. SubSeq(batch, 1, Len(batch)) = batch
    BY <1>1, SubSeqFull
  <2>5. t = SubSeq(batch, 2, Len(batch)) /\ h = batch[1]
    BY <1>1, TailIsSubSeq
  <2> QED BY <2>3, <2>4, <2>5
<1>7. /\ Append(store, h) = store \o one
  BY <1>4, AppendIsConcat DEF UploadInv, DaemonTypes
<1> HIDE DEF h, t, one
<1>8. store' = store \o one /\ batch' = t
  BY <1>1, <1>7 DEF h, t
<1>9. done \o one \in Seq(Recs)
  BY <1>3, <1>5, ConcatProperties
<1>10. store' = old \o (done \o one)
  <2>1. (old \o done) \o one = old \o (done \o one)
    BY <1>5, ConcatAssociative
  <2>2. store = old \o done
    BY <1>3
  <2> QED BY <1>8, <2>1, <2>2
<1>11. (done \o one) \o batch' = CycleRecords
  <2>1. (done \o one) \o t = done \o (one \o t)
    BY <1>4, <1>5, ConcatAssociative
  <2> QED BY <1>3, <1>6, <1>8, <2>1
<1>12. Recorded'
  BY <1>1, <1>2, <1>3, <1>9, <1>10, <1>11 DEF Recorded
<1> QED BY <1>1, <1>2, <1>12 DEF ReportInv

(* Every step. *)
LEMMA ReportStep == UploadInv /\ ReportInv /\ [Next]_vars => ReportInv'
<1> SUFFICES ASSUME UploadInv, ReportInv, [Next]_vars PROVE ReportInv'
  OBVIOUS
<1>1. CASE UNCHANGED vars \/ TickerFires \/ Signal
  <2>1. /\ UNCHANGED data
        /\ pc' = pc \/ pc' = "stopped"
    BY <1>1 DEF vars, data, TickerFires, Signal
  <2> QED BY <2>1 DEF ReportInv, Asked, Recorded, CycleRecords, Reported, Rec, data
<1>2. CASE Start \/ BuildRefused \/ TakeDone \/ RotateFails \/ AppendFails \/ Die
  <2>1. pc' \in {"build", "stopped", "down"}
    BY <1>2 DEF Start, BuildRefused, TakeDone, RotateFails, AppendFails, Die, Exit
  <2> QED BY <2>1 DEF ReportInv
<1>3. CASE BuildOk \/ TakeTick
  <2>1. pc' = "rotate" /\ want' = << >> /\ idx' = 1
    BY <1>3 DEF BuildOk, TakeTick, BeginCycle
  <2> QED BY <2>1 DEF ReportInv
<1>4. CASE RunOnceDone \/ Export \/ Push
  <2>1. /\ cycle' = cycle /\ idx' = idx /\ batch' = batch /\ store' = store /\ want' = want
        /\ pc \in {"collect", "export", "push"} /\ pc' \in {"export", "push", "wait"}
        /\ pc = "collect" => batch = << >> /\ idx > Len(Collectors)
    BY <1>4 DEF RunOnceDone, Export, Push, data
  <2>2. pc' \in {"push", "wait"} => bundle' = store
    BY <1>4 DEF RunOnceDone, Export, Push, Exported, ReportInv
  <2> QED BY <2>1, <2>2 DEF ReportInv, Asked, Recorded, CycleRecords, Reported, Rec
<1> QED BY <1>1, <1>2, <1>3, <1>4, RotateReports, CollectReports, AppendReports DEF Next

(***************************************************************************)
(* "A failing collector is recorded as evidence and never stops the run",  *)
(* for any collectors, answers and failures before: when the loop waits,   *)
(* the newest bundle is the whole store, and it ends with the records of   *)
(* each collector's answer, in registry order, and nothing between.        *)
(***************************************************************************)
THEOREM BundleAlwaysReportsCycle == Spec => []BundleReportsCycle
<1>1. UploadInv /\ ReportInv => BundleReportsCycle
  <2> SUFFICES ASSUME UploadInv, ReportInv, pc = "wait" PROVE BundleReportsCycle
    BY DEF BundleReportsCycle
  <2>1. /\ bundle = store /\ batch = << >> /\ idx > Len(Collectors) /\ Asked /\ Recorded
        /\ idx \in Nat \ {0} /\ Collectors \in Seq(STRING) /\ Len(Collectors) \in Nat
    BY CollectorsAssumption, LenProperties DEF ReportInv, UploadInv, DaemonTypes
  <2>2. Len(want) = Len(Collectors) /\ \A i \in 1..Len(want) : want[i].col = Collectors[i]
    BY <2>1 DEF Asked
  <2>3. [i \in 1..Len(want) |-> want[i].col] = Collectors
    <3>1. Collectors = [i \in 1..Len(Collectors) |-> Collectors[i]]
      BY <2>1
    <3> QED BY <2>2, <3>1
  <2>4. PICK old \in Seq(Recs), done \in Seq(Recs) :
          /\ store = old \o done
          /\ done \o batch = CycleRecords
          /\ \A i \in 1..Len(old) : old[i].cycle = cycle => old[i].outcome = "rotation"
    BY <2>1 DEF Recorded
  <2>5. done = CycleRecords
    BY <2>1, <2>4, ConcatEmptySeq
  <2> DEFINE n == Len(old)
             m == Len(done)
  <2>6. n \in Nat /\ m \in Nat
    BY LenProperties
  <2>7. /\ store \in Seq(Recs) /\ Len(store) = n + m
        /\ \A i \in 1..n + m : store[i] = IF i <= n THEN old[i] ELSE done[i - n]
    BY <2>4, ConcatProperties
  <2>8. n \in 0..Len(bundle)
    BY <2>1, <2>6, <2>7
  <2>9. \A i \in 1..n : bundle[i] = old[i]
    BY <2>1, <2>6, <2>7
  <2>10. SubSeq(bundle, n + 1, Len(bundle)) = done
    <3> DEFINE s == SubSeq(bundle, n + 1, n + m)
    <3> HIDE DEF n, m
    <3>1. \A i \in n + 1..n + m : bundle[i] \in Recs
      BY <2>1, <2>6, <2>7, ElementOfSeq
    <3>2. /\ s \in Seq(Recs)
          /\ Len(s) = IF n + 1 <= n + m THEN (n + m) - (n + 1) + 1 ELSE 0
          /\ \A i \in 1..(n + m) - (n + 1) + 1 : s[i] = bundle[n + 1 + i - 1]
      BY <2>6, <3>1, SubSeqProperties
    <3>3. Len(s) = m
      BY <2>6, <3>2
    <3>4. ASSUME NEW i \in 1..m PROVE s[i] = done[i]
      <4>1. /\ i \in 1..(n + m) - (n + 1) + 1 /\ n + 1 + i - 1 = n + i
            /\ n + i \in 1..n + m /\ ~(n + i <= n) /\ n + i - n = i
        BY <2>6
      <4>2. s[i] = bundle[n + i]
        BY <3>2, <4>1
      <4>3. bundle[n + i] = done[i]
        <5> DEFINE j == n + i
        <5>1. j \in 1..n + m /\ ~(j <= n) /\ j - n = i
          BY <2>6
        <5> HIDE DEF j
        <5>2. store[j] = done[j - n]
          BY <2>7, <5>1
        <5>3. bundle[j] = done[i]
          BY <2>1, <5>1, <5>2
        <5> QED BY <5>3 DEF j
      <4> QED BY <4>2, <4>3
    <3> HIDE DEF s
    <3>5. s = done
      BY <3>2, <3>3, <3>4, SeqEqual DEF m
    <3> QED BY <2>1, <2>7, <3>5 DEF s
  <2> QED BY <2>1, <2>3, <2>4, <2>5, <2>8, <2>9, <2>10 DEF BundleReportsCycle
<1>2. Init => ReportInv
  BY DEF Init, ReportInv
<1> QED BY <1>1, <1>2, UploadInit, UploadStep, ReportStep, PTL DEF Spec
=============================================================================
