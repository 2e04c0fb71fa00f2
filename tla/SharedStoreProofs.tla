------------------------- MODULE SharedStoreProofs -------------------------
(***************************************************************************)
(* Proofs about SharedStore for any set of processes and every bound: what *)
(* a store keeps for processes that do not know of one another.            *)
(***************************************************************************)
EXTENDS SharedStore, SequenceTheorems, TLAPS

Recs == [id : Nat, prev : Nat, at : Int, from : Nat, n : Nat, big : BOOLEAN]
Mems == [fd : Nat, head : Nat, count : Nat, firstAt : Int]
States == {"down", "refused", "create", "idle", "reopen", "genesis"}

(* The files alone, with the clock that names archives. *)
FilesOK ==
  /\ inodes \in Seq(Seq(Recs))
  /\ path \in 0..Len(inodes)
  /\ arch \in [Times -> 0..Len(inodes)]
  /\ now \in Times
  /\ nextId \in Nat

(* The processes. *)
ProcsOK ==
  /\ pc \in [Procs -> States]
  /\ mem \in [Procs -> Mems]
  /\ rot \in [Procs -> [from : Nat, n : Nat]]
  /\ stale \in [Procs -> BOOLEAN]

GhostsOK ==
  /\ acked \subseteq Recs
  /\ clash \in BOOLEAN /\ replaced \in BOOLEAN /\ long \in BOOLEAN

(* Whoever may write has an open file. *)
HandlesOpen ==
  \A p \in Procs : pc[p] \in {"idle", "genesis"} => mem[p].fd \in 1..Len(inodes)

TypeInv == FilesOK /\ ProcsOK /\ GhostsOK /\ HandlesOpen
-----------------------------------------------------------------------------
(* An element appended to a sequence comes last; the others stay. *)
LEMMA AppendFacts ==
  ASSUME NEW S, NEW s \in Seq(S), NEW e \in S
  PROVE  /\ Append(s, e) \in Seq(S)
         /\ Len(Append(s, e)) = Len(s) + 1
         /\ Append(s, e)[Len(s) + 1] = e
         /\ \A i \in 1..Len(s) : Append(s, e)[i] = s[i]
         /\ Len(s) \in Nat
  OBVIOUS

(* Records made by a process are records. *)
LEMMA RecordType ==
  ASSUME TypeInv, NEW prev \in Nat, NEW from \in Nat, NEW n \in Nat, NEW big \in BOOLEAN
  PROVE  Record(prev, from, n, big) \in Recs
  BY SharedStoreAssumption DEF Record, Recs, TypeInv, FilesOK, Times

(* What a path names, or nothing, is a sequence of records. *)
LEMMA ContentType ==
  ASSUME FilesOK
  PROVE  Content(path) \in Seq(Recs)
<1>1. CASE path = 0
  BY <1>1 DEF Content
<1>2. CASE path # 0
  <2>1. path \in 1..Len(inodes)
    BY <1>2 DEF FilesOK
  <2> QED BY <1>2, <2>1 DEF Content, FilesOK
<1> QED BY <1>1, <1>2

(* What a process remembers of the records it has read. *)
LEMMA ResumedType ==
  ASSUME NEW recs \in Seq(Recs)
  PROVE  Resumed(recs) \in Mems /\ Resumed(recs).fd = 0
<1>1. Len(recs) \in Nat /\ (recs # << >> => Len(recs) # 0)
  BY EmptySeq
<1>2. recs # << >> => recs[Len(recs)] \in Recs /\ recs[1] \in Recs
  BY <1>1
<1>3. LastId(recs) \in Nat
  BY <1>2 DEF LastId, Recs
<1>4. (IF recs = << >> THEN NoTime ELSE recs[1].at) \in Int
  BY <1>2 DEF NoTime, Recs
<1> QED BY <1>1, <1>3, <1>4 DEF Resumed, Mems

(* The object after an append, field by field. *)
LEMMA AfterAppendFacts ==
  ASSUME NEW m \in Mems, NEW r \in Recs
  PROVE  /\ AfterAppend(m, r) =
              [fd |-> m.fd, head |-> r.id, count |-> m.count + 1,
               firstAt |-> IF m.count = 0 THEN r.at ELSE m.firstAt]
         /\ AfterAppend(m, r) \in Mems
<1> DEFINE first == IF m.count = 0 THEN r.at ELSE m.firstAt
           m1 == [m EXCEPT !.head = r.id]
           m2 == [m1 EXCEPT !.count = m.count + 1]
           m3 == [m2 EXCEPT !.firstAt = first]
<1>1. first \in Int /\ r.id \in Nat /\ m.count + 1 \in Nat
  BY DEF Mems, Recs
<1>2. AfterAppend(m, r) = m3
  BY DEF AfterAppend
<1> HIDE DEF first
<1>3. m1 = [fd |-> m.fd, head |-> r.id, count |-> m.count, firstAt |-> m.firstAt]
  BY DEF Mems
<1> HIDE DEF m1
<1>4. m2 = [fd |-> m.fd, head |-> r.id, count |-> m.count + 1, firstAt |-> m.firstAt]
  BY <1>3
<1> HIDE DEF m2
<1>5. m3 = [fd |-> m.fd, head |-> r.id, count |-> m.count + 1, firstAt |-> first]
  BY <1>4
<1>6. m3 \in Mems
  BY <1>1, <1>5 DEF Mems
<1> QED BY <1>2, <1>5, <1>6 DEF first

(* Opening the path leaves every file as it is and adds at most an empty one. *)
LEMMA OpenPathFacts ==
  ASSUME FilesOK, OpenPath
  PROVE  /\ inodes' \in Seq(Seq(Recs))
         /\ path' \in 1..Len(inodes')
         /\ Len(inodes) \in Nat /\ Len(inodes') \in Nat /\ Len(inodes') >= Len(inodes)
         /\ \A i \in 1..Len(inodes) : inodes'[i] = inodes[i]
         /\ \A i \in 1..Len(inodes') : i \in 1..Len(inodes) \/ i = path'
         /\ path # 0 => path' = path /\ inodes' = inodes
         /\ path = 0 => path' = Len(inodes) + 1
         /\ inodes'[path'] = Content(path)
<1>1. inodes \in Seq(Seq(Recs)) /\ path \in 0..Len(inodes) /\ Len(inodes) \in Nat
  BY DEF FilesOK
<1>2. CASE path = 0
  <2>1. << >> \in Seq(Recs)
    OBVIOUS
  <2>2. inodes' = Append(inodes, << >>) /\ path' = Len(inodes) + 1
    BY <1>2 DEF OpenPath
  <2>3. /\ inodes' \in Seq(Seq(Recs)) /\ Len(inodes') = Len(inodes) + 1
        /\ inodes'[path'] = << >>
        /\ \A i \in 1..Len(inodes) : inodes'[i] = inodes[i]
    BY <1>1, <2>1, <2>2, AppendFacts
  <2>4. Content(path) = << >>
    BY <1>2 DEF Content
  <2> QED BY <1>1, <1>2, <2>2, <2>3, <2>4
<1>3. CASE path # 0
  BY <1>1, <1>3 DEF OpenPath, Content
<1> QED BY <1>2, <1>3

(* A write adds one record to the writer's file and leaves the others. *)
LEMMA WriteFacts ==
  ASSUME TypeInv, NEW p \in Procs, pc[p] \in {"idle", "genesis"}, NEW r \in Recs, Write(p, r)
  PROVE  /\ mem[p].fd \in 1..Len(inodes)
         /\ inodes' \in Seq(Seq(Recs))
         /\ Len(inodes') = Len(inodes) /\ Len(inodes) \in Nat
         /\ inodes'[mem[p].fd] = Append(inodes[mem[p].fd], r)
         /\ \A i \in 1..Len(inodes) : inodes[i] \in Seq(Recs)
         /\ \A i \in 1..Len(inodes) : i # mem[p].fd => inodes'[i] = inodes[i]
<1> DEFINE fd == mem[p].fd
<1>1. fd \in 1..Len(inodes) /\ inodes \in Seq(Seq(Recs))
  BY DEF TypeInv, FilesOK, HandlesOpen
<1>2. inodes' = [inodes EXCEPT ![fd] = Append(inodes[fd], r)]
  BY DEF Write
<1> HIDE DEF fd
<1>3. Append(inodes[fd], r) \in Seq(Recs)
  BY <1>1
<1>4. /\ inodes' \in Seq(Seq(Recs)) /\ Len(inodes') = Len(inodes)
      /\ inodes'[fd] = Append(inodes[fd], r)
      /\ \A i \in 1..Len(inodes) : i # fd => inodes'[i] = inodes[i]
  BY <1>1, <1>2, <1>3
<1> QED BY <1>1, <1>4 DEF fd
-----------------------------------------------------------------------------
(***************************************************************************)
(* Type correctness and open handles.                                      *)
(***************************************************************************)
LEMMA TypeInit == Init => TypeInv
<1> SUFFICES ASSUME Init PROVE TypeInv
  OBVIOUS
<1>1. inodes \in Seq(Seq(Recs)) /\ Len(inodes) = 0
  BY EmptySeq DEF Init
<1>2. now \in Times
  BY SharedStoreAssumption DEF Init, Times
<1>3. FilesOK
  BY <1>1, <1>2 DEF Init, FilesOK
<1>4. ProcsOK
  BY DEF Init, ProcsOK, States, Mems, Closed, NoRotation, NoTime
<1>5. GhostsOK /\ HandlesOpen
  BY DEF Init, GhostsOK, HandlesOpen
<1> QED BY <1>3, <1>4, <1>5 DEF TypeInv

(* Wrote marks who is behind. *)
LEMMA WroteType ==
  ASSUME ProcsOK, GhostsOK, NEW p \in Procs, Wrote(p)
  PROVE  stale' \in [Procs -> BOOLEAN] /\ clash' \in BOOLEAN
  BY DEF ProcsOK, GhostsOK, Wrote

(* A write keeps the types and leaves every handle open. *)
LEMMA WriteType ==
  ASSUME TypeInv, NEW p \in Procs, pc[p] \in {"idle", "genesis"}, NEW r \in Recs,
         Write(p, r), acked' \subseteq Recs
  PROVE  TypeInv'
<1>1. inodes' \in Seq(Seq(Recs)) /\ Len(inodes') = Len(inodes)
  BY WriteFacts
<1>2. FilesOK'
  BY <1>1 DEF Write, TypeInv, FilesOK, Times
<1>3. AfterAppend(mem[p], r) \in Mems /\ AfterAppend(mem[p], r).fd = mem[p].fd
  BY AfterAppendFacts DEF Mems, TypeInv, ProcsOK
<1>4. mem' \in [Procs -> Mems] /\ \A q \in Procs : mem'[q].fd = mem[q].fd
  BY <1>3 DEF Write, TypeInv, ProcsOK
<1>5. /\ pc' \in [Procs -> States]
      /\ pc'[p] = "idle" /\ \A q \in Procs \ {p} : pc'[q] = pc[q]
  BY DEF Write, TypeInv, ProcsOK, States
<1>6. rot' \in [Procs -> [from : Nat, n : Nat]]
  BY DEF Write, TypeInv, ProcsOK, NoRotation
<1>7. ProcsOK'
  BY <1>4, <1>5, <1>6, WroteType DEF Write, ProcsOK, TypeInv
<1>8. GhostsOK'
  BY WroteType DEF Write, GhostsOK, TypeInv, Recs
<1>9. HandlesOpen'
  BY <1>1, <1>4, <1>5 DEF HandlesOpen, TypeInv
<1> QED BY <1>2, <1>7, <1>8, <1>9 DEF TypeInv

(* Every step keeps the types. *)
LEMMA TypeStep == TypeInv /\ [Next]_vars => TypeInv'
<1> SUFFICES ASSUME TypeInv, [Next]_vars PROVE TypeInv'
  OBVIOUS
<1>1. CASE UNCHANGED vars
  BY <1>1 DEF vars, TypeInv, FilesOK, ProcsOK, GhostsOK, HandlesOpen, Times
<1>2. CASE Tick
  <2>1. now' \in Times
    BY <1>2, SharedStoreAssumption DEF Tick, Times, TypeInv, FilesOK
  <2> QED
    BY <1>2, <2>1 DEF Tick, files, ghosts, TypeInv, FilesOK, ProcsOK, GhostsOK, HandlesOpen, Times
<1>3. ASSUME NEW p \in Procs, OpenRead(p) PROVE TypeInv'
  <2> DEFINE recs == Content(path)
  <2>1. Resumed(recs) \in Mems
    BY ContentType, ResumedType DEF TypeInv
  <2> HIDE DEF recs
  <2>2. FilesOK' /\ GhostsOK'
    BY <1>3 DEF OpenRead, files, TypeInv, FilesOK, GhostsOK, Times
  <2>3. /\ mem' \in [Procs -> Mems] /\ pc' \in [Procs -> States]
        /\ pc'[p] \in {"create", "refused"}
        /\ \A q \in Procs \ {p} : pc'[q] = pc[q] /\ mem'[q] = mem[q]
    BY <1>3, <2>1 DEF OpenRead, TypeInv, ProcsOK, States, recs
  <2>4. ProcsOK'
    BY <1>3, <2>3 DEF OpenRead, TypeInv, ProcsOK
  <2>5. HandlesOpen'
    BY <1>3, <2>3 DEF OpenRead, files, TypeInv, HandlesOpen
  <2> QED BY <2>2, <2>4, <2>5 DEF TypeInv
<1>4. ASSUME NEW p \in Procs, OpenCreate(p) PROVE TypeInv'
  <2>1. OpenPath /\ UNCHANGED << arch, now, nextId, rot, ghosts >>
    BY <1>4 DEF OpenCreate
  <2>2. FilesOK'
    BY <2>1, OpenPathFacts DEF TypeInv, FilesOK, Times
  <2>3. /\ mem' \in [Procs -> Mems] /\ pc' \in [Procs -> States] /\ mem'[p].fd = path'
        /\ \A q \in Procs \ {p} : pc'[q] = pc[q] /\ mem'[q] = mem[q]
    <3>1. path' \in Nat
      BY <2>1, OpenPathFacts DEF TypeInv
    <3> QED BY <1>4, <3>1 DEF OpenCreate, TypeInv, ProcsOK, States, Mems
  <2>4. ProcsOK' /\ GhostsOK'
    BY <2>1, <2>3 DEF ghosts, TypeInv, ProcsOK, GhostsOK
  <2>5. HandlesOpen'
    <3>1. path' \in 1..Len(inodes') /\ Len(inodes') >= Len(inodes)
          /\ Len(inodes) \in Nat /\ Len(inodes') \in Nat
      BY <2>1, OpenPathFacts DEF TypeInv
    <3> QED BY <2>3, <3>1 DEF TypeInv, HandlesOpen
  <2> QED BY <2>2, <2>4, <2>5 DEF TypeInv
<1>5. ASSUME NEW p \in Procs, AppendRecord(p) PROVE TypeInv'
  <2>1. PICK big \in {FALSE, LongRecords} :
          /\ Write(p, Record(mem[p].head, 0, 0, big))
          /\ acked' = acked \cup {Record(mem[p].head, 0, 0, big)}
    BY <1>5 DEF AppendRecord
  <2>2. Record(mem[p].head, 0, 0, big) \in Recs
    BY RecordType, SharedStoreAssumption DEF TypeInv, ProcsOK, Mems
  <2>3. acked' \subseteq Recs
    BY <2>1, <2>2 DEF TypeInv, GhostsOK
  <2>4. pc[p] = "idle"
    BY <1>5 DEF AppendRecord
  <2> QED BY <2>1, <2>2, <2>3, <2>4, WriteType
<1>6. ASSUME NEW p \in Procs, RotateRename(p) PROVE TypeInv'
  <2>1. FilesOK'
    BY <1>6 DEF RotateRename, TypeInv, FilesOK, Times
  <2>2. rot' \in [Procs -> [from : Nat, n : Nat]]
    BY <1>6 DEF RotateRename, TypeInv, ProcsOK, Mems
  <2>3. ProcsOK'
    BY <1>6, <2>2, WroteType DEF RotateRename, TypeInv, ProcsOK, States
  <2>4. GhostsOK'
    BY <1>6, WroteType DEF RotateRename, TypeInv, GhostsOK
  <2>5. HandlesOpen'
    BY <1>6 DEF RotateRename, TypeInv, ProcsOK, HandlesOpen
  <2> QED BY <2>1, <2>3, <2>4, <2>5 DEF TypeInv
<1>7. ASSUME NEW p \in Procs, Gone(p) PROVE TypeInv'
  <2>1. FilesOK' /\ GhostsOK'
    BY <1>7 DEF Gone, files, TypeInv, FilesOK, GhostsOK, Times
  <2>2. Closed \in Mems /\ NoRotation \in [from : Nat, n : Nat]
    BY DEF Closed, Mems, NoTime, NoRotation
  <2>3. ProcsOK'
    BY <1>7, <2>2 DEF Gone, TypeInv, ProcsOK, States
  <2>4. HandlesOpen'
    BY <1>7 DEF Gone, files, TypeInv, ProcsOK, HandlesOpen
  <2> QED BY <2>1, <2>3, <2>4 DEF TypeInv
<1>8. ASSUME NEW p \in Procs, RotateReopen(p) PROVE TypeInv'
  <2>1. OpenPath /\ UNCHANGED << arch, now, nextId, rot, ghosts >>
    BY <1>8 DEF RotateReopen
  <2>2. FilesOK'
    BY <2>1, OpenPathFacts DEF TypeInv, FilesOK, Times
  <2>3. /\ mem' \in [Procs -> Mems] /\ pc' \in [Procs -> States] /\ mem'[p].fd = path'
        /\ \A q \in Procs \ {p} : pc'[q] = pc[q] /\ mem'[q] = mem[q]
    <3>1. path' \in Nat
      BY <2>1, OpenPathFacts DEF TypeInv
    <3>2. NewChain(mem[p], path') \in Mems /\ NewChain(mem[p], path').fd = path'
      BY <3>1 DEF NewChain, Closed, Mems, NoTime
    <3> QED BY <1>8, <3>2 DEF RotateReopen, TypeInv, ProcsOK, States
  <2>4. ProcsOK' /\ GhostsOK'
    BY <2>1, <2>3 DEF ghosts, TypeInv, ProcsOK, GhostsOK
  <2>5. HandlesOpen'
    <3>1. path' \in 1..Len(inodes') /\ Len(inodes') >= Len(inodes)
          /\ Len(inodes) \in Nat /\ Len(inodes') \in Nat
      BY <2>1, OpenPathFacts DEF TypeInv
    <3> QED BY <2>3, <3>1 DEF TypeInv, HandlesOpen
  <2> QED BY <2>2, <2>4, <2>5 DEF TypeInv
<1>9. ASSUME NEW p \in Procs, RotateGenesis(p) PROVE TypeInv'
  <2> DEFINE r == Record(mem[p].head, rot[p].from, rot[p].n, FALSE)
  <2>1. pc[p] = "genesis" /\ Write(p, r) /\ acked' = acked
    BY <1>9 DEF RotateGenesis
  <2>2. r \in Recs
    BY RecordType DEF TypeInv, ProcsOK, Mems
  <2>3. acked' \subseteq Recs
    BY <2>1 DEF TypeInv, GhostsOK
  <2> HIDE DEF r
  <2> QED BY <2>1, <2>2, <2>3, WriteType
<1> QED
  BY <1>1, <1>2, <1>3, <1>4, <1>5, <1>6, <1>7, <1>8, <1>9
  DEF Next, Step, RotateFails, Leave
-----------------------------------------------------------------------------
(***************************************************************************)
(* Nothing acknowledged is lost.  Records are written to some file, files  *)
(* only grow, and while no archive is replaced every file keeps a name.    *)
(***************************************************************************)
AckedWritten ==
  \A r \in acked : \E i \in 1..Len(inodes) : \E k \in 1..Len(inodes[i]) : inodes[i][k] = r

AllNamed ==
  ~replaced => \A i \in 1..Len(inodes) : i = path \/ \E t \in Times : arch[t] = i

KeptInv == AckedWritten /\ AllNamed

(* The files of a step's first state are prefixes of those of its second. *)
FilesGrow ==
  \A i \in 1..Len(inodes) :
    /\ i \in 1..Len(inodes')
    /\ \A k \in 1..Len(inodes[i]) :
         k \in 1..Len(inodes'[i]) /\ inodes'[i][k] = inodes[i][k]

(* A record that was in a file still is. *)
LEMMA GrowKeeps ==
  ASSUME AckedWritten, FilesGrow
  PROVE  \A r \in acked : \E i \in 1..Len(inodes') : \E k \in 1..Len(inodes'[i]) : inodes'[i][k] = r
  BY DEF AckedWritten, FilesGrow

(* Opening the path keeps records and names: the new file is the path's. *)
LEMMA OpenKeeps ==
  ASSUME FilesOK, KeptInv, OpenPath, UNCHANGED << arch, acked, replaced >>
  PROVE  KeptInv'
<1>1. FilesGrow
  BY OpenPathFacts DEF FilesGrow
<1>2. AckedWritten'
  BY <1>1, GrowKeeps DEF KeptInv, AckedWritten
<1>3. AllNamed'
  BY OpenPathFacts DEF KeptInv, AllNamed, Times
<1> QED BY <1>2, <1>3 DEF KeptInv

(* A write keeps them, and puts its own record into a file. *)
LEMMA WriteKeeps ==
  ASSUME TypeInv, KeptInv, NEW p \in Procs, pc[p] \in {"idle", "genesis"}, NEW r \in Recs,
         Write(p, r), acked' \subseteq acked \cup {r}
  PROVE  KeptInv'
<1> DEFINE fd == mem[p].fd
<1>1. /\ fd \in 1..Len(inodes) /\ Len(inodes') = Len(inodes)
      /\ inodes[fd] \in Seq(Recs)
      /\ inodes'[fd] = Append(inodes[fd], r)
      /\ \A i \in 1..Len(inodes) : i # fd => inodes'[i] = inodes[i]
  BY WriteFacts
<1> HIDE DEF fd
<1>2. /\ Len(inodes'[fd]) = Len(inodes[fd]) + 1 /\ Len(inodes[fd]) \in Nat
      /\ inodes'[fd][Len(inodes[fd]) + 1] = r
      /\ \A k \in 1..Len(inodes[fd]) : inodes'[fd][k] = inodes[fd][k]
  BY <1>1, AppendFacts
<1>3. FilesGrow
  BY <1>1, <1>2 DEF FilesGrow
<1>4. \A x \in acked : \E i \in 1..Len(inodes') : \E k \in 1..Len(inodes'[i]) : inodes'[i][k] = x
  BY <1>3, GrowKeeps DEF KeptInv
<1>5. \E i \in 1..Len(inodes') : \E k \in 1..Len(inodes'[i]) : inodes'[i][k] = r
  BY <1>1, <1>2
<1>6. AckedWritten'
  BY <1>4, <1>5 DEF AckedWritten
<1>7. AllNamed'
  BY <1>1 DEF Write, KeptInv, AllNamed, Times
<1> QED BY <1>6, <1>7 DEF KeptInv

(* Every step keeps them; a rename moves the path's name to an archive. *)
LEMMA KeptStep == TypeInv /\ KeptInv /\ [Next]_vars => KeptInv'
<1> SUFFICES ASSUME TypeInv, KeptInv, [Next]_vars PROVE KeptInv'
  OBVIOUS
<1>1. ASSUME UNCHANGED << files, acked, replaced >> PROVE KeptInv'
  BY <1>1 DEF files, KeptInv, AckedWritten, AllNamed, Times
<1>2. ASSUME NEW p \in Procs, OpenCreate(p) \/ RotateReopen(p) PROVE KeptInv'
  <2>1. OpenPath /\ UNCHANGED << arch, acked, replaced >>
    BY <1>2 DEF OpenCreate, RotateReopen, ghosts
  <2> QED BY <2>1, OpenKeeps DEF TypeInv
<1>3. ASSUME NEW p \in Procs, AppendRecord(p) PROVE KeptInv'
  <2>1. PICK big \in {FALSE, LongRecords} :
          /\ Write(p, Record(mem[p].head, 0, 0, big))
          /\ acked' = acked \cup {Record(mem[p].head, 0, 0, big)}
    BY <1>3 DEF AppendRecord
  <2>2. Record(mem[p].head, 0, 0, big) \in Recs
    BY RecordType, SharedStoreAssumption DEF TypeInv, ProcsOK, Mems
  <2>3. pc[p] = "idle"
    BY <1>3 DEF AppendRecord
  <2> QED BY <2>1, <2>2, <2>3, WriteKeeps
<1>4. ASSUME NEW p \in Procs, RotateRename(p) PROVE KeptInv'
  <2>1. /\ inodes' = inodes /\ acked' = acked /\ path # 0
        /\ replaced' = (replaced \/ arch[now] # 0)
        /\ arch' = [arch EXCEPT ![now] = path] /\ path' = 0
    BY <1>4 DEF RotateRename
  <2>2. AckedWritten'
    BY <2>1 DEF KeptInv, AckedWritten
  <2>3. ASSUME ~replaced', NEW i \in 1..Len(inodes)
        PROVE  \E t \in Times : arch'[t] = i
    <3>1. ~replaced /\ arch[now] = 0
      BY <2>1, <2>3
    <3>2. CASE i = path
      BY <2>1, <3>2 DEF TypeInv, FilesOK
    <3>3. CASE i # path
      <4>1. PICK t \in Times : arch[t] = i
        BY <3>1, <3>3 DEF KeptInv, AllNamed
      <4>2. t # now
        BY <3>1, <4>1
      <4> QED BY <2>1, <4>1, <4>2 DEF TypeInv, FilesOK
    <3> QED BY <3>2, <3>3
  <2>4. AllNamed'
    BY <2>1, <2>3 DEF AllNamed, Times
  <2> QED BY <2>2, <2>4 DEF KeptInv
<1>5. ASSUME NEW p \in Procs, RotateGenesis(p) PROVE KeptInv'
  <2> DEFINE r == Record(mem[p].head, rot[p].from, rot[p].n, FALSE)
  <2>1. pc[p] = "genesis" /\ Write(p, r) /\ acked' = acked
    BY <1>5 DEF RotateGenesis
  <2>2. r \in Recs
    BY RecordType DEF TypeInv, ProcsOK, Mems
  <2> HIDE DEF r
  <2> QED BY <2>1, <2>2, WriteKeeps
<1>6. CASE UNCHANGED vars
  BY <1>1, <1>6 DEF vars, files
<1>7. CASE Tick
  BY <1>1, <1>7 DEF Tick, ghosts
<1>8. ASSUME NEW p \in Procs, OpenRead(p) PROVE KeptInv'
  BY <1>1, <1>8 DEF OpenRead
<1>9. ASSUME NEW p \in Procs, Gone(p) PROVE KeptInv'
  BY <1>1, <1>9 DEF Gone
<1> QED
  BY <1>2, <1>3, <1>4, <1>5, <1>6, <1>7, <1>8, <1>9
  DEF Next, Step, RotateFails, Leave

(***************************************************************************)
(* Whatever the processes do under each other's feet, a record Append      *)
(* returned nil for stays in the store or in an archive, unless two        *)
(* rotations fell into one second: for any set of processes.               *)
(***************************************************************************)
THEOREM AckedStaysOnDisk == Spec => []AckedOnDisk
<1>1. Init => TypeInv /\ KeptInv
  <2>1. Init => KeptInv
    BY EmptySeq DEF Init, KeptInv, AckedWritten, AllNamed
  <2> QED BY <2>1, TypeInit
<1>2. (TypeInv /\ KeptInv) /\ [Next]_vars => (TypeInv /\ KeptInv)'
  BY TypeStep, KeptStep
<1>3. TypeInv /\ KeptInv => AckedOnDisk
  BY DEF KeptInv, AckedWritten, AllNamed, AckedOnDisk, Named
<1> QED BY <1>1, <1>2, <1>3, PTL DEF Spec
-----------------------------------------------------------------------------
(***************************************************************************)
(* What a process that nobody overtook remembers is what is on disk: also  *)
(* within OpenFileStore and MaybeRotate, between two of their calls.       *)
(***************************************************************************)
AgreesInv ==
  \A p \in Procs : ~stale[p] =>
    /\ pc[p] = "create" => mem[p] = Resumed(Content(path))
    /\ pc[p] = "reopen" => Content(path) = << >>
    /\ pc[p] = "genesis" => Content(path) = << >>
    /\ pc[p] \in {"idle", "genesis"} =>
         path # 0 /\ mem[p] = [Resumed(Content(path)) EXCEPT !.fd = path]

(* An append changes what opening the file would find as it changes memory. *)
LEMMA ResumedAppend ==
  ASSUME NEW recs \in Seq(Recs), NEW r \in Recs, NEW fd \in Nat
  PROVE  AfterAppend([Resumed(recs) EXCEPT !.fd = fd], r)
           = [Resumed(Append(recs, r)) EXCEPT !.fd = fd]
<1> DEFINE m == [Resumed(recs) EXCEPT !.fd = fd]
           longer == Append(recs, r)
           at == IF recs = << >> THEN NoTime ELSE recs[1].at
<1>1. /\ longer \in Seq(Recs) /\ longer # << >> /\ Len(longer) = Len(recs) + 1
      /\ longer[Len(recs) + 1] = r /\ Len(recs) \in Nat
      /\ \A i \in 1..Len(recs) : longer[i] = recs[i]
      /\ recs = << >> <=> Len(recs) = 0
  BY AppendProperties, EmptySeq, LenProperties
<1>2. m = [fd |-> fd, head |-> LastId(recs), count |-> Len(recs), firstAt |-> at]
  BY DEF Resumed
<1>3. m \in Mems
  BY <1>2, ResumedType DEF Resumed, Mems
<1>4. AfterAppend(m, r) =
        [fd |-> fd, head |-> r.id, count |-> Len(recs) + 1,
         firstAt |-> IF Len(recs) = 0 THEN r.at ELSE at]
  <2> HIDE DEF m, at
  <2> QED BY <1>2, <1>3, AfterAppendFacts
<1> HIDE DEF longer
<1>5. LastId(longer) = r.id
  BY <1>1 DEF LastId
<1>6. longer[1].at = IF Len(recs) = 0 THEN r.at ELSE at
  BY <1>1
<1>7. [Resumed(longer) EXCEPT !.fd = fd] =
        [fd |-> fd, head |-> r.id, count |-> Len(recs) + 1, firstAt |-> longer[1].at]
  BY <1>1, <1>5 DEF Resumed
<1> QED BY <1>4, <1>6, <1>7 DEF m, longer

(* A process that nobody overtook writes at the end of the path's file. *)
LEMMA WritesAtPath ==
  ASSUME TypeInv, AgreesInv, NEW p \in Procs, pc[p] \in {"idle", "genesis"}, NEW r \in Recs,
         Write(p, r), ~stale[p]
  PROVE  /\ path \in 1..Len(inodes) /\ path' = path
         /\ Content(path) \in Seq(Recs) /\ Content(path) = inodes[path]
         /\ mem[p] = [Resumed(Content(path)) EXCEPT !.fd = path]
         /\ inodes'[path] = Append(Content(path), r)
         /\ Content(path)' = Append(Content(path), r)
         /\ \A i \in 1..Len(inodes) : i # path => inodes'[i] = inodes[i]
         /\ Len(inodes') = Len(inodes)
<1>1. path # 0 /\ mem[p] = [Resumed(Content(path)) EXCEPT !.fd = path]
  BY DEF AgreesInv
<1>2. mem[p].fd = path
  BY <1>1 DEF Resumed
<1>3. path \in 1..Len(inodes) /\ path' = path
  BY <1>1 DEF Write, TypeInv, FilesOK
<1>4. Content(path) = inodes[path] /\ Content(path)' = inodes'[path]
  BY <1>1, <1>3 DEF Content
<1> QED BY <1>1, <1>2, <1>3, <1>4, WriteFacts, ContentType DEF TypeInv

(* After p's write the others are behind, and p's memory has kept up. *)
LEMMA WriteAgrees ==
  ASSUME TypeInv, AgreesInv, NEW p \in Procs, pc[p] \in {"idle", "genesis"}, NEW r \in Recs,
         Write(p, r)
  PROVE  AgreesInv'
<1>1. ASSUME NEW q \in Procs, q # p PROVE stale'[q] \/ pc'[q] = "down"
  BY <1>1 DEF Write, Wrote, TypeInv, ProcsOK
<1>2. pc'[p] = "idle" /\ stale'[p] = stale[p] /\ mem'[p] = AfterAppend(mem[p], r)
  BY DEF Write, Wrote, TypeInv, ProcsOK
<1>3. ASSUME ~stale[p]
      PROVE  path' # 0 /\ mem'[p] = [Resumed(Content(path)') EXCEPT !.fd = path']
  <2>1. /\ path \in Nat /\ path # 0 /\ path' = path /\ Content(path) \in Seq(Recs)
        /\ mem[p] = [Resumed(Content(path)) EXCEPT !.fd = path]
        /\ Content(path)' = Append(Content(path), r)
    <3>1. path \in 1..Len(inodes) /\ Len(inodes) \in Nat
      BY <1>3, WritesAtPath, WriteFacts
    <3> QED BY <1>3, <3>1, WritesAtPath
  <2> DEFINE recs == Content(path)
             after == Content(path)'
  <2>2. /\ path \in Nat /\ recs \in Seq(Recs) /\ after = Append(recs, r)
        /\ mem[p] = [Resumed(recs) EXCEPT !.fd = path]
    BY <2>1
  <2> HIDE DEF recs, after
  <2>3. mem'[p] = [Resumed(after) EXCEPT !.fd = path]
    BY <1>2, <2>2, ResumedAppend
  <2> QED BY <2>1, <2>3 DEF after
<1>4. ASSUME NEW q \in Procs, ~stale'[q]
      PROVE  /\ pc'[q] = "create" => mem'[q] = Resumed(Content(path)')
             /\ pc'[q] = "reopen" => Content(path)' = << >>
             /\ pc'[q] = "genesis" => Content(path)' = << >>
             /\ pc'[q] \in {"idle", "genesis"} =>
                  path' # 0 /\ mem'[q] = [Resumed(Content(path)') EXCEPT !.fd = path']
  <2>1. CASE q = p
    BY <1>2, <1>3, <1>4, <2>1
  <2>2. CASE q # p
    BY <1>1, <1>4, <2>2
  <2> QED BY <2>1, <2>2
<1> QED BY <1>4 DEF AgreesInv, Content, Resumed

(* Opening the path changes nothing for whoever was up to date. *)
LEMMA OpenContent ==
  ASSUME TypeInv, OpenPath
  PROVE  Content(path)' = Content(path) /\ path' # 0 /\ (path # 0 => path' = path)
  BY OpenPathFacts DEF TypeInv, Content

(* Every step keeps memory and disk in agreement. *)
LEMMA AgreesStep == TypeInv /\ AgreesInv /\ [Next]_vars => AgreesInv'
<1> SUFFICES ASSUME TypeInv, AgreesInv, [Next]_vars PROVE AgreesInv'
  OBVIOUS
<1> DEFINE C == Content(path)
           D == Content(path)'
           Ok(q) == /\ pc'[q] = "create" => mem'[q] = Resumed(D)
                    /\ pc'[q] = "reopen" => D = << >>
                    /\ pc'[q] = "genesis" => D = << >>
                    /\ pc'[q] \in {"idle", "genesis"} =>
                         path' # 0 /\ mem'[q] = [Resumed(D) EXCEPT !.fd = path']
<1>a. (\A q \in Procs : ~stale'[q] => Ok(q)) => AgreesInv'
  BY DEF AgreesInv, Resumed, LastId
<1>b. \A q \in Procs : ~stale[q] =>
        /\ pc[q] = "create" => mem[q] = Resumed(C)
        /\ pc[q] \in {"reopen", "genesis"} => C = << >>
        /\ pc[q] \in {"idle", "genesis"} =>
             path # 0 /\ mem[q] = [Resumed(C) EXCEPT !.fd = path]
  BY DEF AgreesInv
<1>1. CASE UNCHANGED vars \/ Tick
  BY <1>1 DEF vars, Tick, files, ghosts, AgreesInv, Content, Resumed
<1>2. ASSUME NEW p \in Procs, OpenRead(p) PROVE AgreesInv'
  <2>1. D = C /\ path' = path
    BY <1>2 DEF OpenRead, files, Content
  <2>2. \/ pc'[p] = "create" /\ mem'[p] = Resumed(C)
        \/ pc'[p] = "refused"
    BY <1>2 DEF OpenRead, TypeInv, ProcsOK
  <2>3. \A q \in Procs \ {p} : pc'[q] = pc[q] /\ mem'[q] = mem[q] /\ stale'[q] = stale[q]
    BY <1>2 DEF OpenRead, TypeInv, ProcsOK
  <2>4. \A q \in Procs : ~stale'[q] => Ok(q)
    <3> HIDE DEF C, D
    <3> QED BY <2>1, <2>2, <2>3, <1>b
  <2> QED BY <1>a, <2>4
<1>3. ASSUME NEW p \in Procs, OpenCreate(p) PROVE AgreesInv'
  <2>1. D = C /\ path' # 0 /\ (path # 0 => path' = path)
    BY <1>3, OpenContent DEF OpenCreate
  <2>2. /\ pc[p] = "create" /\ pc'[p] = "idle" /\ mem'[p] = [mem[p] EXCEPT !.fd = path']
        /\ \A q \in Procs \ {p} : pc'[q] = pc[q] /\ mem'[q] = mem[q]
        /\ stale' = stale
    BY <1>3 DEF OpenCreate, ghosts, TypeInv, ProcsOK
  <2>3. \A q \in Procs : ~stale'[q] => Ok(q)
    <3> HIDE DEF C, D
    <3> QED BY <2>1, <2>2, <1>b
  <2> QED BY <1>a, <2>3
<1>4. ASSUME NEW p \in Procs, AppendRecord(p) PROVE AgreesInv'
  <2>1. PICK big \in {FALSE, LongRecords} : Write(p, Record(mem[p].head, 0, 0, big))
    BY <1>4 DEF AppendRecord
  <2>2. Record(mem[p].head, 0, 0, big) \in Recs
    BY RecordType, SharedStoreAssumption DEF TypeInv, ProcsOK, Mems
  <2>3. pc[p] = "idle"
    BY <1>4 DEF AppendRecord
  <2> QED BY <2>1, <2>2, <2>3, WriteAgrees
<1>5. ASSUME NEW p \in Procs, RotateRename(p) PROVE AgreesInv'
  <2>1. D = << >>
    BY <1>5 DEF RotateRename, Content
  <2>2. /\ pc'[p] = "reopen"
        /\ \A q \in Procs \ {p} : stale'[q] \/ pc'[q] = "down"
    BY <1>5 DEF RotateRename, Wrote, TypeInv, ProcsOK
  <2>3. \A q \in Procs : ~stale'[q] => Ok(q)
    <3> HIDE DEF D
    <3> QED BY <2>1, <2>2
  <2> QED BY <1>a, <2>3
<1>6. ASSUME NEW p \in Procs, RotateReopen(p) PROVE AgreesInv'
  <2>1. D = C /\ path' # 0 /\ (path # 0 => path' = path)
    BY <1>6, OpenContent DEF RotateReopen
  <2>2. /\ pc[p] = "reopen" /\ pc'[p] = "genesis"
        /\ mem'[p] = [Closed EXCEPT !.fd = path']
        /\ \A q \in Procs \ {p} : pc'[q] = pc[q] /\ mem'[q] = mem[q]
        /\ stale' = stale
    BY <1>6 DEF RotateReopen, NewChain, ghosts, TypeInv, ProcsOK
  <2>3. Resumed(<< >>) = Closed
    BY EmptySeq DEF Resumed, Closed, LastId
  <2>4. \A q \in Procs : ~stale'[q] => Ok(q)
    <3> HIDE DEF C, D
    <3> QED BY <2>1, <2>2, <2>3, <1>b
  <2> QED BY <1>a, <2>4
<1>7. ASSUME NEW p \in Procs, RotateGenesis(p) PROVE AgreesInv'
  <2> DEFINE r == Record(mem[p].head, rot[p].from, rot[p].n, FALSE)
  <2>1. pc[p] = "genesis" /\ Write(p, r)
    BY <1>7 DEF RotateGenesis
  <2>2. r \in Recs
    BY RecordType DEF TypeInv, ProcsOK, Mems
  <2> HIDE DEF r
  <2> QED BY <2>1, <2>2, WriteAgrees
<1>8. ASSUME NEW p \in Procs, Gone(p) PROVE AgreesInv'
  <2>1. D = C /\ path' = path
    BY <1>8 DEF Gone, files, Content
  <2>2. pc'[p] = "down"
        /\ \A q \in Procs \ {p} : pc'[q] = pc[q] /\ mem'[q] = mem[q] /\ stale'[q] = stale[q]
    BY <1>8 DEF Gone, TypeInv, ProcsOK
  <2>3. \A q \in Procs : ~stale'[q] => Ok(q)
    <3> HIDE DEF C, D
    <3> QED BY <2>1, <2>2, <1>b
  <2> QED BY <1>a, <2>3
<1> QED
  BY <1>1, <1>2, <1>3, <1>4, <1>5, <1>6, <1>7, <1>8
  DEF Next, Step, RotateFails, Leave

(***************************************************************************)
(* Until another process writes, a FileStore's head, count and age are     *)
(* those of the file its path names, and it appends to that file.          *)
(***************************************************************************)
THEOREM MemoryAlwaysAgrees == Spec => []MemoryAgrees
<1>1. Init => TypeInv /\ AgreesInv
  <2>1. Init => AgreesInv
    BY DEF Init, AgreesInv
  <2> QED BY <2>1, TypeInit
<1>2. (TypeInv /\ AgreesInv) /\ [Next]_vars => (TypeInv /\ AgreesInv)'
  BY TypeStep, AgreesStep
<1>3. TypeInv /\ AgreesInv => MemoryAgrees
  BY DEF AgreesInv, MemoryAgrees, Content
<1> QED BY <1>1, <1>2, <1>3, PTL DEF Spec
-----------------------------------------------------------------------------
(***************************************************************************)
(* The chain.  As long as whoever writes has seen what was written, every  *)
(* file verifies, and the rotation records, written and yet to be written, *)
(* name the end of an archive.                                             *)
(***************************************************************************)
Archived(names, fs, h, n) ==
  \E t \in Times : /\ names[t] # 0
                   /\ LastId(fs[names[t]]) = h
                   /\ Len(fs[names[t]]) = n

AllLinked == \A i \in 1..Len(inodes) : Linked(inodes[i])

Rotations ==
  \A i \in 1..Len(inodes) : \A k \in 1..Len(inodes[i]) :
    inodes[i][k].from # 0 =>
      k = 1 /\ (replaced \/ Archived(arch, inodes, inodes[i][k].from, inodes[i][k].n))

PendingRotations ==
  \A p \in Procs : pc[p] \in {"reopen", "genesis"} /\ ~stale[p] =>
    replaced \/ Archived(arch, inodes, rot[p].from, rot[p].n)

(* The path does not name an archive. *)
PathApart == path # 0 => \A t \in Times : arch[t] # path

ChainInv == PathApart /\ (~clash => AllLinked /\ Rotations /\ PendingRotations)

(* Appending a record that links to the last one keeps a file linked. *)
LEMMA LinkedAppend ==
  ASSUME NEW recs \in Seq(Recs), NEW r \in Recs, Linked(recs), r.prev = LastId(recs)
  PROVE  Linked(Append(recs, r)) /\ LastId(Append(recs, r)) = r.id
<1> DEFINE longer == Append(recs, r)
<1>1. /\ longer # << >> /\ Len(longer) = Len(recs) + 1
      /\ longer[Len(recs) + 1] = r /\ Len(recs) \in Nat
      /\ \A i \in 1..Len(recs) : longer[i] = recs[i]
      /\ recs = << >> <=> Len(recs) = 0
  BY AppendProperties, EmptySeq, LenProperties
<1> HIDE DEF longer
<1>2. ASSUME NEW i \in 1..Len(longer)
      PROVE  longer[i].prev = IF i = 1 THEN 0 ELSE longer[i - 1].id
  <2>1. CASE i = Len(recs) + 1
    <3>1. CASE recs = << >>
      BY <1>1, <2>1, <3>1 DEF LastId
    <3>2. CASE recs # << >>
      <4>1. Len(recs) \in 1..Len(recs) /\ i # 1 /\ i - 1 = Len(recs)
        BY <1>1, <2>1, <3>2
      <4> QED BY <1>1, <2>1, <3>2, <4>1 DEF LastId
    <3> QED BY <3>1, <3>2
  <2>2. CASE i # Len(recs) + 1
    <3>1. i \in 1..Len(recs) /\ (i # 1 => i - 1 \in 1..Len(recs))
      BY <1>1, <1>2, <2>2
    <3> QED BY <1>1, <3>1 DEF Linked
  <2> QED BY <2>1, <2>2
<1>3. Linked(longer) /\ LastId(longer) = r.id
  BY <1>1, <1>2 DEF Linked, LastId
<1> QED BY <1>3 DEF longer

(* Opening the path adds an empty file at most: nothing to link or name. *)
LEMMA OpenChain ==
  ASSUME TypeInv, ChainInv, OpenPath, UNCHANGED << arch, rot, clash, replaced, stale >>,
         NEW p \in Procs, \A q \in Procs \ {p} : pc'[q] = pc[q],
         pc'[p] \in {"reopen", "genesis"} => pc[p] \in {"reopen", "genesis"}
  PROVE  ChainInv'
<1>1. /\ path' \in 1..Len(inodes') /\ Len(inodes) \in Nat
      /\ \A i \in 1..Len(inodes) : inodes'[i] = inodes[i]
      /\ \A i \in 1..Len(inodes') : i \in 1..Len(inodes) \/ (i = path' /\ path = 0)
      /\ path # 0 => path' = path
      /\ path = 0 => path' = Len(inodes) + 1 /\ inodes'[path'] = << >>
  BY OpenPathFacts DEF TypeInv, Content
<1>2. arch' = arch /\ \A t \in Times : arch[t] \in 0..Len(inodes)
  BY DEF TypeInv, FilesOK
<1>3. \A h, n : Archived(arch, inodes, h, n) => Archived(arch', inodes', h, n)
  BY <1>1, <1>2 DEF Archived, LastId, Times
<1>4. PathApart'
  BY <1>1, <1>2 DEF ChainInv, PathApart, Times
<1>5. ASSUME ~clash' PROVE AllLinked' /\ Rotations' /\ PendingRotations'
  <2>1. AllLinked /\ Rotations /\ PendingRotations
    BY <1>5 DEF ChainInv
  <2>2. AllLinked'
    BY <1>1, <2>1, EmptySeq DEF AllLinked, Linked
  <2>3. Rotations'
    BY <1>1, <1>3, <2>1, EmptySeq DEF Rotations
  <2>4. PendingRotations'
    BY <1>3, <2>1 DEF PendingRotations
  <2> QED BY <2>2, <2>3, <2>4
<1> QED BY <1>4, <1>5 DEF ChainInv

(* A write: unless the writer was behind, it continues the path's chain. *)
LEMMA WriteChain ==
  ASSUME TypeInv, AgreesInv, ChainInv, NEW p \in Procs, pc[p] \in {"idle", "genesis"},
         NEW r \in Recs, Write(p, r), r.prev = mem[p].head,
         r.from = 0 \/ (pc[p] = "genesis" /\ r.from = rot[p].from /\ r.n = rot[p].n)
  PROVE  ChainInv'
<1>1. path' = path /\ arch' = arch /\ replaced' = replaced
  BY DEF Write
<1>2. PathApart'
  BY <1>1 DEF ChainInv, PathApart, Times
<1>3. ASSUME ~clash' PROVE AllLinked' /\ Rotations' /\ PendingRotations'
  <2>1. ~clash /\ ~stale[p]
    BY <1>3 DEF Write, Wrote, TypeInv, ProcsOK, GhostsOK
  <2>2. AllLinked /\ Rotations /\ PendingRotations
    BY <2>1 DEF ChainInv
  <2>3. /\ path \in 1..Len(inodes) /\ inodes[path] \in Seq(Recs)
        /\ Content(path) = inodes[path]
        /\ mem[p] = [Resumed(inodes[path]) EXCEPT !.fd = path]
        /\ inodes'[path] = Append(inodes[path], r)
        /\ \A i \in 1..Len(inodes) : i # path => inodes'[i] = inodes[i]
        /\ Len(inodes') = Len(inodes)
    BY <2>1, WritesAtPath
  <2>4. r.prev = LastId(inodes[path])
    BY <2>3 DEF Resumed
  <2>5. Linked(inodes'[path])
    BY <2>2, <2>3, <2>4, LinkedAppend DEF AllLinked
  <2>6. AllLinked'
    <3>1. \A i \in 1..Len(inodes') : Linked(inodes'[i])
      BY <2>2, <2>3, <2>5 DEF AllLinked
    <3> QED BY <3>1 DEF AllLinked, Linked
  <2>7. \A h, n : Archived(arch, inodes, h, n) => Archived(arch', inodes', h, n)
    <3>1. \A t \in Times : arch[t] \in 0..Len(inodes) /\ arch[t] # path
      BY <2>3 DEF ChainInv, PathApart, TypeInv, FilesOK
    <3> QED BY <1>1, <2>3, <3>1 DEF Archived, LastId, Times
  <2>8. Rotations'
    <3>1. ASSUME NEW i \in 1..Len(inodes'), NEW k \in 1..Len(inodes'[i]), inodes'[i][k].from # 0
          PROVE  k = 1 /\ (replaced' \/ Archived(arch', inodes', inodes'[i][k].from, inodes'[i][k].n))
      <4>1. CASE i # path
        BY <1>1, <2>2, <2>3, <2>7, <3>1, <4>1 DEF Rotations
      <4>2. CASE i = path
        <5>1. /\ Len(inodes'[i]) = Len(inodes[path]) + 1 /\ Len(inodes[path]) \in Nat
              /\ inodes'[i][Len(inodes[path]) + 1] = r
              /\ \A j \in 1..Len(inodes[path]) : inodes'[i][j] = inodes[path][j]
          BY <2>3, <4>2, AppendFacts
        <5>2. CASE k \in 1..Len(inodes[path])
          BY <1>1, <2>2, <2>3, <2>7, <3>1, <4>2, <5>1, <5>2 DEF Rotations
        <5>3. CASE k \notin 1..Len(inodes[path])
          <6>1. k = Len(inodes[path]) + 1 /\ inodes'[i][k] = r
            BY <5>1, <5>3
          <6>2. pc[p] = "genesis" /\ r.from = rot[p].from /\ r.n = rot[p].n
            BY <3>1, <6>1
          <6>3. Len(inodes[path]) = 0
            BY <2>1, <2>3, <6>2, EmptySeq DEF AgreesInv
          <6>4. replaced \/ Archived(arch, inodes, r.from, r.n)
            BY <2>1, <2>2, <6>2 DEF PendingRotations
          <6> QED BY <1>1, <2>7, <6>1, <6>3, <6>4
        <5> QED BY <5>2, <5>3
      <4> QED BY <4>1, <4>2
    <3> QED BY <3>1 DEF Rotations, Archived, LastId, Times
  <2>9. PendingRotations'
    <3>1. \A q \in Procs : pc'[q] \in {"reopen", "genesis"} => q # p /\ stale'[q]
      BY DEF Write, Wrote, TypeInv, ProcsOK
    <3> QED BY <3>1 DEF PendingRotations
  <2> QED BY <2>6, <2>8, <2>9
<1> QED BY <1>2, <1>3 DEF ChainInv

(* A rename gives the chain of a process that is up to date to an archive. *)
LEMMA RenameChain ==
  ASSUME TypeInv, AgreesInv, ChainInv, NEW p \in Procs, RotateRename(p)
  PROVE  ChainInv'
<1>1. /\ pc[p] = "idle" /\ path # 0 /\ path' = 0 /\ inodes' = inodes
      /\ replaced' = (replaced \/ arch[now] # 0)
      /\ arch' = [arch EXCEPT ![now] = path]
      /\ pc' = [pc EXCEPT ![p] = "reopen"]
      /\ rot' = [rot EXCEPT ![p] = [from |-> mem[p].head, n |-> mem[p].count]]
      /\ Wrote(p)
  BY DEF RotateRename, Due
<1>2. PathApart'
  BY <1>1 DEF PathApart
<1>3. ASSUME ~clash' PROVE AllLinked' /\ Rotations' /\ PendingRotations'
  <2>1. ~clash /\ ~stale[p]
    BY <1>1, <1>3 DEF Wrote, TypeInv, ProcsOK, GhostsOK
  <2>2. AllLinked /\ Rotations
    BY <2>1 DEF ChainInv
  <2>3. AllLinked'
    BY <1>1, <2>2 DEF AllLinked, Linked
  <2>4. ASSUME NEW h, NEW n, replaced \/ Archived(arch, inodes, h, n) PROVE replaced' \/ Archived(arch', inodes', h, n)
    <3>1. CASE replaced \/ arch[now] # 0
      BY <1>1, <3>1
    <3>2. CASE ~replaced /\ arch[now] = 0
      <4>1. PICK t \in Times : /\ arch[t] # 0
                               /\ LastId(inodes[arch[t]]) = h
                               /\ Len(inodes[arch[t]]) = n
        BY <2>4, <3>2 DEF Archived
      <4>2. arch'[t] = arch[t]
        BY <1>1, <3>2, <4>1 DEF TypeInv, FilesOK
      <4> QED BY <1>1, <4>1, <4>2 DEF Archived, LastId, Times
    <3> QED BY <3>1, <3>2
  <2>5. Rotations'
    <3>1. \A i \in 1..Len(inodes) : \A k \in 1..Len(inodes[i]) :
            inodes[i][k].from # 0 =>
              k = 1 /\ (replaced' \/ Archived(arch', inodes', inodes[i][k].from, inodes[i][k].n))
      BY <2>2, <2>4 DEF Rotations
    <3>2. \A i \in 1..Len(inodes') : \A k \in 1..Len(inodes'[i]) :
            inodes'[i][k].from # 0 =>
              k = 1 /\ (replaced' \/ Archived(arch', inodes', inodes'[i][k].from, inodes'[i][k].n))
      BY <1>1, <3>1
    <3> QED BY <3>2 DEF Rotations, Archived, LastId, Times
  <2>6. Archived(arch', inodes', mem[p].head, mem[p].count)
    <3>1. mem'[p] = mem[p] /\ mem[p] = [Resumed(inodes[path]) EXCEPT !.fd = path]
      BY <1>1, <2>1 DEF AgreesInv, Content, RotateRename
    <3>2. mem[p].head = LastId(inodes[path]) /\ mem[p].count = Len(inodes[path])
      BY <3>1 DEF Resumed
    <3>3. now \in Times /\ arch'[now] = path
      BY <1>1 DEF TypeInv, FilesOK
    <3> QED BY <1>1, <3>1, <3>2, <3>3 DEF Archived, LastId, Times
  <2>7. PendingRotations'
    <3>1. rot'[p].from = mem[p].head /\ rot'[p].n = mem[p].count /\ mem' = mem
      BY <1>1 DEF TypeInv, ProcsOK, RotateRename
    <3>2. \A q \in Procs \ {p} : pc'[q] \in {"reopen", "genesis"} => stale'[q]
      BY <1>1 DEF Wrote, TypeInv, ProcsOK
    <3> QED BY <2>6, <3>1, <3>2 DEF PendingRotations, Archived, LastId, Times
  <2> QED BY <2>3, <2>5, <2>7
<1> QED BY <1>2, <1>3 DEF ChainInv

(* Every step keeps the chain one, while all writers have seen it. *)
LEMMA ChainStep == TypeInv /\ AgreesInv /\ ChainInv /\ [Next]_vars => ChainInv'
<1> SUFFICES ASSUME TypeInv, AgreesInv, ChainInv, [Next]_vars PROVE ChainInv'
  OBVIOUS
<1>1. ASSUME UNCHANGED << files, clash, replaced >>,
             \A q \in Procs : pc'[q] \in {"reopen", "genesis"} =>
               pc'[q] = pc[q] /\ stale'[q] = stale[q] /\ rot'[q] = rot[q]
      PROVE  ChainInv'
  <2>1. inodes' = inodes /\ path' = path /\ arch' = arch
    BY <1>1 DEF files
  <2>2. PathApart'
    BY <2>1 DEF ChainInv, PathApart, Times
  <2>3. ASSUME AllLinked, Rotations, PendingRotations
        PROVE  AllLinked' /\ Rotations' /\ PendingRotations'
    <3>1. AllLinked'
      BY <2>1, <2>3 DEF AllLinked, Linked
    <3>2. Rotations'
      BY <1>1, <2>1, <2>3 DEF Rotations, Archived, LastId, Times
    <3>3. PendingRotations'
      BY <1>1, <2>1, <2>3 DEF PendingRotations, Archived, LastId, Times
    <3> QED BY <3>1, <3>2, <3>3
  <2> QED BY <1>1, <2>2, <2>3 DEF ChainInv
<1>2. CASE UNCHANGED vars \/ Tick
  BY <1>1, <1>2 DEF vars, Tick, files, ghosts
<1>3. ASSUME NEW p \in Procs, OpenRead(p) PROVE ChainInv'
  <2>1. \A q \in Procs : pc'[q] \in {"reopen", "genesis"} =>
          pc'[q] = pc[q] /\ stale'[q] = stale[q] /\ rot'[q] = rot[q]
    BY <1>3 DEF OpenRead, TypeInv, ProcsOK
  <2> QED BY <1>1, <1>3, <2>1 DEF OpenRead
<1>4. ASSUME NEW p \in Procs, OpenCreate(p) \/ RotateReopen(p) PROVE ChainInv'
  <2>1. OpenPath /\ UNCHANGED << arch, rot, clash, replaced, stale >>
    BY <1>4 DEF OpenCreate, RotateReopen, ghosts
  <2>2. /\ \A q \in Procs \ {p} : pc'[q] = pc[q]
        /\ pc'[p] \in {"reopen", "genesis"} => pc[p] \in {"reopen", "genesis"}
    BY <1>4 DEF OpenCreate, RotateReopen, TypeInv, ProcsOK
  <2> QED BY <2>1, <2>2, OpenChain
<1>5. ASSUME NEW p \in Procs, AppendRecord(p) PROVE ChainInv'
  <2>1. PICK big \in {FALSE, LongRecords} : Write(p, Record(mem[p].head, 0, 0, big))
    BY <1>5 DEF AppendRecord
  <2> DEFINE r == Record(mem[p].head, 0, 0, big)
  <2>2. r \in Recs
    BY RecordType, SharedStoreAssumption DEF TypeInv, ProcsOK, Mems
  <2>3. pc[p] = "idle" /\ r.prev = mem[p].head /\ r.from = 0
    BY <1>5 DEF AppendRecord, Record
  <2> HIDE DEF r
  <2> QED BY <2>1, <2>2, <2>3, WriteChain DEF r
<1>6. ASSUME NEW p \in Procs, RotateGenesis(p) PROVE ChainInv'
  <2> DEFINE r == Record(mem[p].head, rot[p].from, rot[p].n, FALSE)
  <2>1. pc[p] = "genesis" /\ Write(p, r)
    BY <1>6 DEF RotateGenesis
  <2>2. r \in Recs
    BY RecordType DEF TypeInv, ProcsOK, Mems
  <2>3. r.prev = mem[p].head /\ r.from = rot[p].from /\ r.n = rot[p].n
    BY DEF Record
  <2> HIDE DEF r
  <2> QED BY <2>1, <2>2, <2>3, WriteChain
<1>7. ASSUME NEW p \in Procs, Gone(p) PROVE ChainInv'
  <2>1. \A q \in Procs : pc'[q] \in {"reopen", "genesis"} =>
          pc'[q] = pc[q] /\ stale'[q] = stale[q] /\ rot'[q] = rot[q]
    BY <1>7 DEF Gone, TypeInv, ProcsOK
  <2> QED BY <1>1, <1>7, <2>1 DEF Gone
<1> QED
  BY <1>2, <1>3, <1>4, <1>5, <1>6, <1>7, RenameChain
  DEF Next, Step, RotateFails, Leave

(***************************************************************************)
(* Any number of processes may take turns on one store, and read beside    *)
(* one that writes: until one writes without having seen what another      *)
(* wrote, the store and every archive verify.                              *)
(***************************************************************************)
THEOREM TurnsKeepOneChain == Spec => []OneChain
<1>1. Init => TypeInv /\ AgreesInv /\ ChainInv
  <2>1. Init => AgreesInv /\ ChainInv
    BY EmptySeq DEF Init, AgreesInv, ChainInv, PathApart, AllLinked, Rotations, PendingRotations
  <2> QED BY <2>1, TypeInit
<1>2. (TypeInv /\ AgreesInv /\ ChainInv) /\ [Next]_vars => (TypeInv /\ AgreesInv /\ ChainInv)'
  BY TypeStep, AgreesStep, ChainStep
<1>3. TypeInv /\ AgreesInv /\ ChainInv => OneChain
  <2> SUFFICES ASSUME ChainInv PROVE OneChain
    OBVIOUS
  <2> QED BY DEF ChainInv, AllLinked, Rotations, Archived, OneChain
<1> QED BY <1>1, <1>2, <1>3, PTL DEF Spec
-----------------------------------------------------------------------------
(***************************************************************************)
(* A store is refused for a reason: short records are all readable, and    *)
(* chains that nobody broke verify.                                        *)
(***************************************************************************)
ReadableInv ==
  /\ ~long => \A i \in 1..Len(inodes) : Readable(inodes[i])
  /\ RefusedForCause

(* A short record leaves a readable file readable. *)
LEMMA ReadableAppend ==
  ASSUME NEW recs \in Seq(Recs), NEW r \in Recs, Readable(recs), ~r.big
  PROVE  Readable(Append(recs, r))
<1> DEFINE longer == Append(recs, r)
<1>1. /\ Len(longer) = Len(recs) + 1 /\ longer[Len(recs) + 1] = r /\ Len(recs) \in Nat
      /\ \A i \in 1..Len(recs) : longer[i] = recs[i]
  BY AppendFacts
<1> HIDE DEF longer
<1>2. Readable(longer)
  BY <1>1 DEF Readable
<1> QED BY <1>2 DEF longer

(* A write refuses nobody, and a file without long records stays so. *)
LEMMA WriteReadable ==
  ASSUME TypeInv, ReadableInv, NEW p \in Procs, pc[p] \in {"idle", "genesis"}, NEW r \in Recs,
         Write(p, r)
  PROVE  ReadableInv'
<1> DEFINE fd == mem[p].fd
<1>1. /\ fd \in 1..Len(inodes) /\ Len(inodes') = Len(inodes) /\ inodes[fd] \in Seq(Recs)
      /\ inodes'[fd] = Append(inodes[fd], r)
      /\ \A i \in 1..Len(inodes) : i # fd => inodes'[i] = inodes[i]
  BY WriteFacts
<1> HIDE DEF fd
<1>2. ASSUME ~long' PROVE \A i \in 1..Len(inodes') : Readable(inodes'[i])
  <2>1. ~long /\ ~r.big
    BY <1>2 DEF Write
  <2>2. Readable(inodes'[fd])
    BY <1>1, <2>1, ReadableAppend DEF ReadableInv
  <2> QED BY <1>1, <2>1, <2>2 DEF ReadableInv
<1>3. RefusedForCause'
  BY DEF Write, Wrote, ReadableInv, RefusedForCause, TypeInv, ProcsOK
<1> QED BY <1>2, <1>3 DEF ReadableInv, Readable

(* Every step keeps the store readable, without such a write. *)
LEMMA ReadableStep == TypeInv /\ ChainInv /\ ReadableInv /\ [Next]_vars => ReadableInv'
<1> SUFFICES ASSUME TypeInv, ChainInv, ReadableInv, [Next]_vars PROVE ReadableInv'
  OBVIOUS
<1>1. ASSUME inodes' = inodes, long' = long, clash => clash',
             \A q \in Procs : pc'[q] = "refused" => pc[q] = "refused" \/ clash \/ long
      PROVE  ReadableInv'
  BY <1>1 DEF ReadableInv, RefusedForCause, Readable
<1>2. CASE UNCHANGED vars \/ Tick
  BY <1>1, <1>2 DEF vars, Tick, files, ghosts
<1>3. ASSUME NEW p \in Procs, OpenRead(p) PROVE ReadableInv'
  <2> DEFINE C == Content(path)
  <2>1. ASSUME ~clash, ~long PROVE Readable(C) /\ Linked(C)
    <3>1. CASE path = 0
      BY <3>1, EmptySeq DEF Content, Readable, Linked
    <3>2. CASE path # 0
      <4>1. path \in 1..Len(inodes) /\ C = inodes[path]
        BY <3>2 DEF TypeInv, FilesOK, Content
      <4> QED BY <2>1, <4>1 DEF ReadableInv, ChainInv, AllLinked
    <3> QED BY <3>1, <3>2
  <2> HIDE DEF C
  <2>2. \A q \in Procs : pc'[q] = "refused" => pc[q] = "refused" \/ clash \/ long
    BY <1>3, <2>1 DEF OpenRead, C, TypeInv, ProcsOK
  <2> QED BY <1>1, <1>3, <2>2 DEF OpenRead, files
<1>4. ASSUME NEW p \in Procs, OpenCreate(p) \/ RotateReopen(p) PROVE ReadableInv'
  <2>1. /\ OpenPath /\ clash' = clash /\ long' = long
        /\ \A q \in Procs : pc'[q] = "refused" => pc[q] = "refused"
    BY <1>4 DEF OpenCreate, RotateReopen, ghosts, TypeInv, ProcsOK
  <2>2. ~long => \A i \in 1..Len(inodes') : Readable(inodes'[i])
    <3>1. /\ \A i \in 1..Len(inodes) : inodes'[i] = inodes[i]
          /\ \A i \in 1..Len(inodes') :
               i \in 1..Len(inodes) \/ (i = path' /\ path = 0)
          /\ path = 0 => inodes'[path'] = << >>
      BY <2>1, OpenPathFacts DEF TypeInv, Content
    <3>2. Readable(<< >>)
      BY EmptySeq DEF Readable
    <3> QED BY <3>1, <3>2 DEF ReadableInv
  <2> QED BY <2>1, <2>2 DEF ReadableInv, RefusedForCause, Readable
<1>5. ASSUME NEW p \in Procs, AppendRecord(p) PROVE ReadableInv'
  <2>1. PICK big \in {FALSE, LongRecords} : Write(p, Record(mem[p].head, 0, 0, big))
    BY <1>5 DEF AppendRecord
  <2>2. Record(mem[p].head, 0, 0, big) \in Recs
    BY RecordType, SharedStoreAssumption DEF TypeInv, ProcsOK, Mems
  <2>3. pc[p] = "idle"
    BY <1>5 DEF AppendRecord
  <2> QED BY <2>1, <2>2, <2>3, WriteReadable
<1>6. ASSUME NEW p \in Procs, RotateRename(p) PROVE ReadableInv'
  BY <1>1, <1>6 DEF RotateRename, Wrote, TypeInv, ProcsOK
<1>7. ASSUME NEW p \in Procs, RotateGenesis(p) PROVE ReadableInv'
  <2> DEFINE r == Record(mem[p].head, rot[p].from, rot[p].n, FALSE)
  <2>1. pc[p] = "genesis" /\ Write(p, r)
    BY <1>7 DEF RotateGenesis
  <2>2. r \in Recs
    BY RecordType DEF TypeInv, ProcsOK, Mems
  <2> HIDE DEF r
  <2> QED BY <2>1, <2>2, WriteReadable
<1>8. ASSUME NEW p \in Procs, Gone(p) PROVE ReadableInv'
  BY <1>1, <1>8 DEF Gone, files, TypeInv, ProcsOK
<1> QED
  BY <1>2, <1>3, <1>4, <1>5, <1>6, <1>7, <1>8
  DEF Next, Step, RotateFails, Leave

(***************************************************************************)
(* OpenFileStore refuses a file its own agents wrote only after one wrote  *)
(* over another's back, or wrote a record too long to be read.             *)
(***************************************************************************)
THEOREM RefusedOnlyForCause == Spec => []RefusedForCause
<1>1. Init => TypeInv /\ AgreesInv /\ ChainInv /\ ReadableInv
  <2>1. Init => AgreesInv /\ ChainInv
    BY EmptySeq DEF Init, AgreesInv, ChainInv, PathApart, AllLinked, Rotations, PendingRotations
  <2>2. Init => ReadableInv
    BY EmptySeq DEF Init, ReadableInv, RefusedForCause
  <2> QED BY <2>1, <2>2, TypeInit
<1>2. (TypeInv /\ AgreesInv /\ ChainInv /\ ReadableInv) /\ [Next]_vars
        => (TypeInv /\ AgreesInv /\ ChainInv /\ ReadableInv)'
  BY TypeStep, AgreesStep, ChainStep, ReadableStep
<1>3. ReadableInv => RefusedForCause
  BY DEF ReadableInv
<1> QED BY <1>1, <1>2, <1>3, PTL DEF Spec
=============================================================================
