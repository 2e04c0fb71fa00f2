--------------------------- MODULE FileStoreProofs ---------------------------
(***************************************************************************)
(* Proofs about FileStore for every bound: type correctness, and for the   *)
(* shells that exit on a store error the integrity of the chain, what is   *)
(* kept of it, what a rotation archives and links, and that it all         *)
(* implements the log of EvidenceLog.                                      *)
(***************************************************************************)
EXTENDS FileStoreRefinement, SequenceTheorems, TLAPS

(* Facts about the chain, which ChainAuditProofs proves for its module too. *)

(* Sealing a record yields a record. *)
LEMMA HashType ==
  ASSUME NEW r \in Records
  PROVE  computeHash(r) \in Hashes
<1>1. AtomOf(r) \in Atoms
  BY DEF Records, AtomOf, Atoms, Hashes
<1>2. << AtomOf(r) >> \in Seq(Atoms)
  BY <1>1
<1>3. r.prevHash \in Seq(Atoms) /\ r.head \in Seq(Atoms)
  BY DEF Records, Hashes
<1> QED
  BY <1>2, <1>3, ConcatProperties DEF computeHash, Hashes

(* Seal returns a record that is linked to lastHash and carries its hash. *)
LEMMA SealFacts ==
  ASSUME NEW r \in Records, NEW h \in Hashes
  PROVE  /\ Seal(r, h) \in Records
         /\ Seal(r, h).prevHash = h
         /\ Seal(r, h).hash = computeHash(Seal(r, h))
         /\ Seal(r, h).at = r.at
<1> DEFINE linked == [r EXCEPT !.prevHash = h]
<1>1. linked \in Records /\ linked.prevHash = h /\ linked.at = r.at
  BY DEF Records
<1>2. computeHash(linked) \in Hashes
  BY <1>1, HashType
<1>3. \A x : computeHash([linked EXCEPT !.hash = x]) = computeHash(linked)
  BY <1>1 DEF computeHash, AtomOf, Records
<1>4. Seal(r, h) = [linked EXCEPT !.hash = computeHash(linked)]
  BY DEF Seal
<1> HIDE DEF linked
<1>5. /\ [linked EXCEPT !.hash = computeHash(linked)] \in Records
      /\ [linked EXCEPT !.hash = computeHash(linked)].prevHash = linked.prevHash
      /\ [linked EXCEPT !.hash = computeHash(linked)].at = linked.at
      /\ [linked EXCEPT !.hash = computeHash(linked)].hash = computeHash(linked)
  BY <1>1, <1>2 DEF Records
<1> QED
  BY <1>1, <1>3, <1>4, <1>5

(* A chain that verifies still does when a linked record is appended. *)
LEMMA VerifyAppend ==
  ASSUME NEW s \in Seq(Records), NEW r \in Records, Verify(s),
         r.prevHash = HeadHash(s), r.hash = computeHash(r)
  PROVE  /\ Append(s, r) \in Seq(Records)
         /\ Verify(Append(s, r))
         /\ HeadHash(Append(s, r)) = r.hash
<1> DEFINE t == Append(s, r)
           n == Len(s)
<1>1. /\ t \in Seq(Records) /\ t # << >> /\ Len(t) = n + 1 /\ t[n + 1] = r
      /\ \A i \in 1..n : t[i] = s[i]
  BY AppendProperties
<1>2. n \in Nat
  BY LenProperties
<1>3. HeadHash(t) = r.hash
  <2> HIDE DEF t
  <2> QED BY <1>1 DEF HeadHash
<1>4. ASSUME NEW i \in 1..(n + 1)
      PROVE  t[i].prevHash = PrevOf(t, i) /\ t[i].hash = computeHash(t[i])
  <2> HIDE DEF t
  <2>1. CASE i = n + 1
    <3>1. CASE n = 0
      <4>1. s = << >>
        BY <3>1, EmptySeq
      <4> QED BY <1>1, <2>1, <3>1, <4>1 DEF PrevOf, HeadHash
    <3>2. CASE n # 0
      <4>1. s # << >> /\ n \in 1..n /\ i # 1 /\ i - 1 = n
        BY <1>2, <2>1, <3>2, EmptySeq
      <4> QED BY <1>1, <2>1, <4>1 DEF PrevOf, HeadHash
    <3> QED BY <3>1, <3>2
  <2>2. CASE i # n + 1
    <3>1. i \in 1..n /\ (i # 1 => i - 1 \in 1..n)
      BY <1>2, <2>2
    <3>2. s[i].prevHash = PrevOf(s, i) /\ s[i].hash = computeHash(s[i])
      BY <3>1 DEF Verify
    <3> QED BY <1>1, <3>1, <3>2 DEF PrevOf
  <2> QED BY <2>1, <2>2
<1> QED
  BY <1>1, <1>3, <1>4 DEF Verify

(* So does every prefix of it. *)
LEMMA VerifyPrefix ==
  ASSUME NEW s \in Seq(Records), NEW n \in Nat, n <= Len(s)
  PROVE  /\ SubSeq(s, 1, n) \in Seq(Records)
         /\ Len(SubSeq(s, 1, n)) = n
         /\ \A i \in 1..n : SubSeq(s, 1, n)[i] = s[i]
         /\ Verify(s) => Verify(SubSeq(s, 1, n))
<1> DEFINE t == SubSeq(s, 1, n)
<1>0. Len(s) \in Nat
  BY LenProperties
<1>1. /\ t \in Seq(Records) /\ Len(t) = n
      /\ \A i \in 1..n : t[i] = s[i]
  BY <1>0
<1> HIDE DEF t
<1>2. ASSUME Verify(s), NEW i \in 1..n
      PROVE  t[i].prevHash = PrevOf(t, i) /\ t[i].hash = computeHash(t[i])
  <2>1. i \in 1..Len(s) /\ (i # 1 => i - 1 \in 1..n)
    BY <1>0
  <2>2. s[i].prevHash = PrevOf(s, i) /\ s[i].hash = computeHash(s[i])
    BY <1>2, <2>1 DEF Verify
  <2> QED BY <1>1, <2>1, <2>2 DEF PrevOf
<1>3. Verify(s) => Verify(t)
  BY <1>1, <1>2 DEF Verify
<1> QED
  BY <1>1, <1>3 DEF t

(* The head of a chain is a hash. *)
LEMMA HeadHashType ==
  ASSUME NEW s \in Seq(Records)
  PROVE  HeadHash(s) \in Hashes
<1>1. NoHash \in Hashes
  BY DEF NoHash, Hashes
<1>2. s # << >> => s[Len(s)] \in Records
  BY ElementOfSeq, EmptySeq, LenProperties
<1> QED
  BY <1>1, <1>2 DEF HeadHash, Records

(* The records the store hands to Seal are records. *)
LEMMA UnsealedType ==
  ASSUME NEW id \in Nat, NEW at \in Nat, NEW head \in Hashes, NEW n \in Nat
  PROVE  /\ Observed(id, at) \in Records
         /\ Rotation(id, at, head, n) \in Records
         /\ Rotation(id, at, head, n).at = at
<1>1. NoHash \in Hashes
  BY DEF NoHash, Hashes
<1> QED
  BY <1>1 DEF Observed, Rotation, Records, Kinds
-----------------------------------------------------------------------------
(* Between two calls and within one, a file is well formed. *)
Shape(f) ==
  /\ f \in Files
  /\ f.synced <= Len(f.recs)
  /\ f.tail = "bare" => f.recs # << >>

TypeInv == TypeOK /\ Shape(file) /\ \A t \in Times : Shape(archives[t])

(***************************************************************************)
(* The chain in memory stands at the end of the file whenever an append    *)
(* may follow.  A failed call breaks this, and only opening the store      *)
(* again repairs it.                                                       *)
(***************************************************************************)
HandleAgrees ==
  /\ pc # "idle" => opened /\ ~failed
  /\ (opened /\ ~failed /\ pc \in {"idle", "sync"} /\ file.tail = "nl")
       => lastHash = HeadHash(file.recs)
  /\ pc = "reopen" => file.recs = << >>
  /\ pc = "genesis" => file.recs = << >> /\ lastHash = NoHash

(* The inductive invariant behind ChainIntact. *)
ChainInv == TypeInv /\ ChainIntact /\ HandleAgrees
-----------------------------------------------------------------------------
Outcomes == {"full", "none", "torn", "bare"}

(* Write keeps a file well formed, and its chain intact when r is linked. *)
LEMMA WriteFacts ==
  ASSUME NEW f, Shape(f), NEW r \in Records, NEW out \in Outcomes
  PROVE  /\ Shape(Write(f, r, out))
         /\ (/\ Verify(f.recs)
             /\ r.hash = computeHash(r)
             /\ f.tail = "nl" => r.prevHash = HeadHash(f.recs))
            => /\ Verify(Write(f, r, out).recs)
               /\ (out = "full" /\ Write(f, r, out).tail = "nl")
                    => HeadHash(Write(f, r, out).recs) = r.hash
<1>0. /\ f \in Files /\ f.recs \in Seq(Records) /\ f.synced \in Nat
      /\ f.synced <= Len(f.recs) /\ (f.tail = "bare" => f.recs # << >>)
      /\ f.tail \in {"nl", "bare", "torn"}
  BY DEF Shape, Files
<1>1. Len(f.recs) \in Nat
  BY <1>0, LenProperties
<1>2. CASE out = "none" \/ f.tail = "torn"
  <2>1. Write(f, r, out) = f
    BY <1>2 DEF Write
  <2>2. CASE out = "none"
    BY <2>1, <2>2
  <2>3. CASE f.tail = "torn"
    BY <2>1, <2>3
  <2> QED BY <1>2, <2>2, <2>3
<1>3. CASE out # "none" /\ f.tail = "nl"
  <2> DEFINE recs == IF out = "torn" THEN f.recs ELSE Append(f.recs, r)
             tail == IF out = "full" THEN "nl" ELSE out
  <2>1. Write(f, r, out) = [f EXCEPT !.recs = recs, !.tail = tail]
    BY <1>3 DEF Write
  <2>2. /\ Append(f.recs, r) \in Seq(Records) /\ Append(f.recs, r) # << >>
        /\ Len(Append(f.recs, r)) = Len(f.recs) + 1
    BY <1>0, AppendProperties
  <2>3. /\ recs \in Seq(Records) /\ Len(recs) >= Len(f.recs)
        /\ tail \in {"nl", "bare", "torn"}
        /\ tail = "bare" => recs # << >>
    BY <1>0, <1>1, <2>2, <1>3 DEF Outcomes
  <2>4. /\ Write(f, r, out) \in Files
        /\ Write(f, r, out).recs = recs
        /\ Write(f, r, out).tail = tail
        /\ Write(f, r, out).synced = f.synced
    <3> HIDE DEF recs, tail
    <3> QED BY <1>0, <2>1, <2>3 DEF Files
  <2>5. Shape(Write(f, r, out))
    <3>1. Len(recs) \in Nat
      BY <2>3, LenProperties
    <3>2. f.synced <= Len(recs)
      <4> HIDE DEF recs
      <4> QED BY <1>0, <1>1, <2>3, <3>1
    <3> HIDE DEF recs, tail
    <3> QED BY <2>3, <2>4, <3>2 DEF Shape
  <2>6. ASSUME Verify(f.recs), r.hash = computeHash(r), r.prevHash = HeadHash(f.recs)
        PROVE  Verify(recs) /\ (out = "full" => HeadHash(recs) = r.hash)
    BY <1>0, <2>6, VerifyAppend
  <2> HIDE DEF recs, tail
  <2> QED BY <1>3, <2>4, <2>5, <2>6
<1>4. CASE out # "none" /\ f.tail = "bare"
  <2> DEFINE n == Len(f.recs) - 1
             recs == SubSeq(f.recs, 1, n)
  <2>1. n \in Nat /\ n <= Len(f.recs)
    BY <1>0, <1>1, <1>4, EmptySeq
  <2>2. /\ recs \in Seq(Records) /\ Len(recs) = n
        /\ Verify(f.recs) => Verify(recs)
    BY <1>0, <2>1, VerifyPrefix
  <2>3. Write(f, r, out) =
          [f EXCEPT !.recs = recs, !.tail = "torn", !.synced = Min2(@, n)]
    BY <1>4 DEF Write
  <2>4. Min2(f.synced, n) \in Nat /\ Min2(f.synced, n) <= n
    BY <1>0, <2>1 DEF Min2
  <2> HIDE DEF recs, n
  <2>5. /\ Write(f, r, out) \in Files
        /\ Write(f, r, out).recs = recs
        /\ Write(f, r, out).tail = "torn"
        /\ Write(f, r, out).synced = Min2(f.synced, n)
    BY <1>0, <2>2, <2>3, <2>4 DEF Files
  <2> QED BY <2>2, <2>4, <2>5 DEF Shape
<1> QED
  BY <1>0, <1>2, <1>3, <1>4

(* What power loss leaves is a well-formed prefix with the synced lines. *)
LEMMA CutFacts ==
  ASSUME NEW f, Shape(f), NEW g \in Cuts(f)
  PROVE  /\ Shape(g)
         /\ g.synced = f.synced
         /\ \E n \in f.synced..Len(f.recs) : g.recs = SubSeq(f.recs, 1, n)
         /\ Verify(f.recs) => Verify(g.recs)
<1>0. /\ f \in Files /\ f.recs \in Seq(Records) /\ f.synced \in Nat
      /\ f.synced <= Len(f.recs)
  BY DEF Shape, Files
<1>1. Len(f.recs) \in Nat
  BY <1>0, LenProperties
<1>2. CASE g = f
  <2>1. SubSeq(f.recs, 1, Len(f.recs)) = f.recs
    BY <1>0, <1>1
  <2> QED BY <1>0, <1>1, <1>2, <2>1
<1>3. CASE g # f
  <2>1. PICK n \in f.synced..Len(f.recs), tail \in {"nl", "torn", "bare"} :
          g = CutTo(f, n, tail) /\ (tail = "bare" => n > f.synced)
    BY <1>3, <1>0, <1>1 DEF Cuts
  <2>2. n \in Nat /\ n <= Len(f.recs) /\ f.synced <= n
    BY <1>0, <1>1
  <2> DEFINE recs == SubSeq(f.recs, 1, n)
  <2>3. /\ recs \in Seq(Records) /\ Len(recs) = n
        /\ Verify(f.recs) => Verify(recs)
    BY <1>0, <2>2, VerifyPrefix
  <2>4. g = [f EXCEPT !.recs = recs, !.tail = tail]
    BY <2>1 DEF CutTo
  <2>5. tail = "bare" => recs # << >>
    BY <1>0, <2>1, <2>2, <2>3, EmptySeq
  <2>6. g \in Files /\ g.recs = recs /\ g.tail = tail /\ g.synced = f.synced
    <3> HIDE DEF recs
    <3> QED BY <1>0, <2>3, <2>4 DEF Files
  <2>7. Shape(g)
    <3> HIDE DEF recs
    <3> QED BY <2>2, <2>3, <2>5, <2>6 DEF Shape
  <2> QED BY <2>1, <2>3, <2>6, <2>7
<1> QED
  BY <1>2, <1>3
-----------------------------------------------------------------------------
(* The bounded clock shows naturals. *)
LEMMA TimesAreNat == Times \subseteq Nat
  BY BoundsAssumption DEF Times

(* A file that does not exist, or exists and is empty, is well formed. *)
LEMMA NoFileShape ==
  /\ Shape(NoFile)
  /\ Verify(NoFile.recs)
  /\ HeadHash(NoFile.recs) = NoHash
  /\ NoFile.recs = << >>
<1>1. << >> \in Seq(Records) /\ Len(<< >>) = 0
  OBVIOUS
<1> QED
  BY <1>1 DEF Shape, NoFile, Files, Verify, HeadHash

(* Only what Shape and Verify look at. *)
LEMMA ExistsKeepsShape ==
  ASSUME NEW f, Shape(f)
  PROVE  /\ Shape([f EXCEPT !.exists = TRUE])
         /\ [f EXCEPT !.exists = TRUE].recs = f.recs
         /\ [f EXCEPT !.exists = TRUE].tail = f.tail
BY DEF Shape, Files

(* One append, of an observation or of a rotation record. *)
LEMMA AppendKeepsTypes ==
  ASSUME TypeInv, NEW r \in Records, AppendLocked(r)
  PROVE  TypeInv'
<1> DEFINE q == Seal(r, lastHash)
<1>1. q \in Records
  BY SealFacts DEF TypeInv, TypeOK
<1>2. q.hash \in Hashes
  BY <1>1 DEF Records
<1>3. PICK out \in Outcomes : file' = Write(file, q, out)
  BY TearsAssumption DEF AppendLocked, Outcomes
<1>4. Shape(file')
  BY <1>1, <1>3, WriteFacts DEF TypeInv
<1>5. /\ lastHash' = q.hash /\ pend' = q /\ nextId' = nextId + 1
      /\ pc' \in {"idle", "sync"} /\ failed' \in BOOLEAN
      /\ UNCHANGED << archives, renamed, opened, fd, count, firstAt, rot, now, acked, lost >>
  BY DEF AppendLocked, ChainAfter, Fail, TypeInv, TypeOK
<1>6. TypeOK'
  <2> HIDE DEF q
  <2> QED BY <1>1, <1>2, <1>4, <1>5 DEF TypeInv, TypeOK, Shape
<1>7. \A t \in Times : Shape(archives'[t])
  BY <1>5 DEF TypeInv
<1> QED
  BY <1>4, <1>6, <1>7 DEF TypeInv

(* Initially the store is well typed. *)
LEMMA InitTypes == Init => TypeInv
<1> SUFFICES ASSUME Init PROVE TypeInv
  OBVIOUS
<1>1. NoHash \in Hashes
  BY DEF NoHash, Hashes
<1>2. Shape(NoFile) /\ NoFile \in Files
  BY NoFileShape DEF Shape
<1>3. NoRecord \in Records
  BY <1>1, UnsealedType DEF NoRecord
<1>4. 0 \in Times
  BY BoundsAssumption DEF Times
<1>5. TypeOK
  BY <1>1, <1>2, <1>3, <1>4 DEF Init, TypeOK
<1> QED
  BY <1>2, <1>5 DEF Init, TypeInv

(* Every step keeps it so. *)
LEMMA NextTypes == TypeInv /\ [Next]_vars => TypeInv'
<1> SUFFICES ASSUME TypeInv, [Next]_vars PROVE TypeInv'
  OBVIOUS
<1>0. /\ Shape(file) /\ \A t \in Times : Shape(archives[t])
      /\ file.recs \in Seq(Records) /\ Len(file.recs) \in Nat
      /\ NoHash \in Hashes /\ Times \subseteq Nat
  BY LenProperties, TimesAreNat DEF TypeInv, Shape, Files, NoHash, Hashes
<1>1. CASE UNCHANGED vars
  BY <1>1 DEF vars, TypeInv, TypeOK
<1>2. CASE Open
  <2>1. Shape(file')
    BY <1>0, <1>2, ExistsKeepsShape DEF Open
  <2>2. HeadHash(file.recs) \in Hashes
    BY <1>0, HeadHashType
  <2>3. AgeStart(file.recs) \in Nat \cup {NoTime}
    <3>1. file.recs # << >> => file.recs[1] \in Records
      BY <1>0, ElementOfSeq, EmptySeq
    <3> QED BY <3>1 DEF AgeStart, Records
  <2> QED
    BY <1>0, <1>2, <2>1, <2>2, <2>3 DEF Open, TypeInv, TypeOK, Shape
<1>3. CASE OpenFails
  BY <1>3 DEF OpenFails, disk, memory, TypeInv, TypeOK
<1>4. CASE AppendRecord
  <2>1. Observed(nextId, now) \in Records
    BY <1>0, UnsealedType DEF TypeInv, TypeOK
  <2> QED BY <1>4, <2>1, AppendKeepsTypes DEF AppendRecord
<1>5. CASE SyncOk
  <2>1. Shape(file')
    <3>1. file' = [file EXCEPT !.synced = Len(file.recs)]
      BY <1>5 DEF SyncOk
    <3> QED BY <1>0, <3>1 DEF Shape, Files
  <2>2. pend.at \in Nat
    BY DEF TypeInv, TypeOK, Records
  <2>3. firstAt' \in Nat \cup {NoTime} /\ count' \in Nat /\ acked' \subseteq Records
    BY <1>5, <2>2 DEF SyncOk, TypeInv, TypeOK
  <2>4. /\ file' \in Files /\ renamed' \in Times \cup {NoTime} /\ pc' = "idle"
        /\ failed' \in BOOLEAN
        /\ UNCHANGED << archives, opened, fd, lastHash, pend, rot, now, nextId, lost >>
    BY <1>5, <2>1 DEF SyncOk, Shape
  <2>5. TypeOK'
    BY <2>3, <2>4 DEF TypeInv, TypeOK
  <2> QED
    BY <1>0, <2>1, <2>4, <2>5 DEF TypeInv
<1>6. CASE SyncFails
  BY <1>6 DEF SyncFails, Fail, disk, memory, TypeInv, TypeOK
<1>7. CASE RotateClose
  <2>1. rot' \in [at : Times, head : Hashes, n : Nat]
    BY <1>7 DEF RotateClose, TypeInv, TypeOK
  <2>2. pc' \in {"idle", "rename"} /\ failed' \in BOOLEAN /\ fd' \in BOOLEAN
    BY <1>7 DEF RotateClose, Fail, TypeInv, TypeOK
  <2>3. UNCHANGED << file, archives, renamed, opened, lastHash, count, firstAt, pend,
                     now, nextId, acked, lost >>
    BY <1>7 DEF RotateClose, disk
  <2>4. TypeOK'
    BY <2>1, <2>2, <2>3 DEF TypeInv, TypeOK
  <2> QED
    BY <1>0, <2>3, <2>4 DEF TypeInv
<1>8. CASE RotateRename
  <2>1. CASE /\ archives' = [archives EXCEPT ![rot.at] = file]
             /\ file' = NoFile
             /\ renamed' = rot.at
             /\ pc' = "reopen"
             /\ UNCHANGED failed
    <3>1. rot.at \in Times /\ file \in Files /\ NoFile \in Files /\ Shape(NoFile)
      BY NoFileShape DEF TypeInv, TypeOK, Shape
    <3>2. archives' \in [Times -> Files] /\ \A t \in Times : Shape(archives'[t])
      BY <1>0, <2>1, <3>1 DEF TypeInv, TypeOK
    <3> QED BY <1>8, <2>1, <3>1, <3>2 DEF RotateRename, memory, TypeInv, TypeOK
  <2>2. CASE Fail /\ UNCHANGED disk
    BY <1>8, <2>2 DEF RotateRename, Fail, disk, memory, TypeInv, TypeOK
  <2> QED BY <1>8, <2>1, <2>2 DEF RotateRename
<1>9. CASE RotateReopen
  <2>1. Shape(file')
    BY <1>0, <1>9, ExistsKeepsShape DEF RotateReopen
  <2>2. /\ pc' \in {"idle", "genesis"} /\ failed' \in BOOLEAN /\ fd' \in BOOLEAN
    BY <1>9 DEF RotateReopen, Fail, TypeInv, TypeOK
  <2>3. /\ lastHash' \in Hashes /\ count' \in Nat /\ firstAt' \in Nat \cup {NoTime}
    BY <1>0, <1>9 DEF RotateReopen, NewChain, TypeInv, TypeOK
  <2>4. UNCHANGED << archives, renamed, opened, pend, rot, now, nextId, acked, lost >>
    BY <1>9 DEF RotateReopen
  <2>5. TypeOK'
    BY <2>1, <2>2, <2>3, <2>4 DEF TypeInv, TypeOK, Shape
  <2> QED
    BY <1>0, <2>1, <2>4, <2>5 DEF TypeInv
<1>10. CASE RotateGenesis
  <2>1. Rotation(nextId, rot.at, rot.head, rot.n) \in Records
    BY <1>0, UnsealedType DEF TypeInv, TypeOK
  <2> QED BY <1>10, <2>1, AppendKeepsTypes DEF RotateGenesis
<1>11. CASE Close
  BY <1>0, <1>11 DEF Close, disk, TypeInv, TypeOK
<1>12. CASE Crash
  BY <1>0, <1>12 DEF Crash, ProcessGone, disk, TypeInv, TypeOK
<1>13. CASE PowerLoss
  <2>1. Shape(file') /\ archives' \in [Times -> Files] /\ \A t \in Times : Shape(archives'[t])
    <3>1. CASE /\ \E f \in Cuts(file) : file' = f
               /\ \E t \in Times : \E f \in Cuts(archives[t]) :
                    archives' = [archives EXCEPT ![t] = f]
      <4>1. Shape(file')
        BY <1>0, <3>1, CutFacts
      <4>2. PICK t \in Times : \E f \in Cuts(archives[t]) :
              archives' = [archives EXCEPT ![t] = f]
        BY <3>1
      <4>2a. PICK f \in Cuts(archives[t]) : archives' = [archives EXCEPT ![t] = f]
        BY <4>2
      <4>3. Shape(f) /\ f \in Files
        BY <1>0, CutFacts DEF Shape
      <4> QED BY <1>0, <4>1, <4>2a, <4>3 DEF TypeInv, TypeOK
    <3>2. CASE /\ renamed # NoTime
               /\ \E f \in Cuts(archives[renamed]) : file' = f
               /\ archives' = [archives EXCEPT ![renamed] = NoFile]
      <4>1. renamed \in Times
        BY <3>2 DEF TypeInv, TypeOK
      <4>2. Shape(file')
        BY <1>0, <3>2, <4>1, CutFacts
      <4>3. Shape(NoFile) /\ NoFile \in Files
        BY NoFileShape DEF Shape
      <4> QED BY <1>0, <3>2, <4>1, <4>2, <4>3 DEF TypeInv, TypeOK
    <3> QED BY <1>13, <3>1, <3>2 DEF PowerLoss
  <2> QED
    BY <1>0, <1>13, <2>1 DEF PowerLoss, ProcessGone, TypeInv, TypeOK, Shape
<1>14. CASE Tick
  BY <1>14, BoundsAssumption DEF Tick, Times, disk, memory, TypeInv, TypeOK
<1> QED
  BY <1>1, <1>2, <1>3, <1>4, <1>5, <1>6, <1>7, <1>8, <1>9, <1>10, <1>11, <1>12,
     <1>13, <1>14 DEF Next

(***************************************************************************)
(* Type correctness of the store, in every shell and for every kind of     *)
(* failure: counts stay naturals and files well formed although appends    *)
(* and rotations stop half way.                                            *)
(***************************************************************************)
THEOREM TypeCorrect == Spec => []TypeOK
<1>1. Spec => []TypeInv
  BY InitTypes, NextTypes, PTL DEF Spec
<1>2. TypeInv => TypeOK
  BY DEF TypeInv
<1> QED
  BY <1>1, <1>2, PTL
-----------------------------------------------------------------------------
(* Appending to a store whose chain agrees with its file. *)
LEMMA AppendKeepsChain ==
  ASSUME ChainInv, ~failed, NEW r \in Records, AppendLocked(r),
         opened, pc \in {"idle", "genesis"}
  PROVE  ChainIntact' /\ HandleAgrees'
<1> DEFINE q == Seal(r, lastHash)
<1>0. /\ Shape(file) /\ lastHash \in Hashes /\ ChainIntact /\ HandleAgrees
      /\ failed \in BOOLEAN /\ opened \in BOOLEAN
  BY DEF ChainInv, TypeInv, TypeOK
<1>1. q \in Records /\ q.prevHash = lastHash /\ q.hash = computeHash(q)
  BY <1>0, SealFacts
<1>2. file.tail = "nl" => lastHash = HeadHash(file.recs)
  BY <1>0 DEF HandleAgrees, HeadHash
<1>3. Verify(file.recs)
  BY <1>0 DEF ChainIntact
<1>4. /\ lastHash' = q.hash
      /\ UNCHANGED << archives, opened >>
  BY DEF AppendLocked, ChainAfter
<1>5. \E out \in Outcomes : /\ file' = Write(file, q, out)
                            /\ \/ out = "full" /\ pc' = "sync" /\ failed' = failed
                               \/ pc' = "idle" /\ failed' = TRUE
  BY TearsAssumption DEF AppendLocked, Outcomes, Fail
<1>6. PICK out \in Outcomes : /\ file' = Write(file, q, out)
                              /\ \/ out = "full" /\ pc' = "sync" /\ failed' = failed
                                 \/ pc' = "idle" /\ failed' = TRUE
  BY <1>5
<1> HIDE DEF q
<1>7. /\ Verify(file'.recs)
      /\ (out = "full" /\ file'.tail = "nl") => HeadHash(file'.recs) = q.hash
  BY <1>0, <1>1, <1>2, <1>3, <1>6, WriteFacts
<1>8. ChainIntact'
  BY <1>0, <1>4, <1>7 DEF ChainIntact
<1>9. HandleAgrees'
  <2>1. CASE out = "full" /\ pc' = "sync" /\ failed' = failed
    BY <1>4, <1>7, <2>1 DEF HandleAgrees
  <2>2. CASE pc' = "idle" /\ failed' = TRUE
    BY <2>2 DEF HandleAgrees
  <2> QED BY <1>6, <2>1, <2>2
<1> QED
  BY <1>8, <1>9

(* Initially the file is empty and no store is open. *)
LEMMA InitChain == Init => ChainInv
<1> SUFFICES ASSUME Init PROVE ChainInv
  OBVIOUS
<1>1. TypeInv
  BY InitTypes
<1>2. ChainIntact
  BY NoFileShape DEF Init, ChainIntact
<1>3. HandleAgrees
  BY DEF Init, HandleAgrees
<1> QED
  BY <1>1, <1>2, <1>3 DEF ChainInv

(***************************************************************************)
(* In a shell that exits on a store error, every step keeps the chain in   *)
(* memory and the files in agreement.                                      *)
(***************************************************************************)
LEMMA NextChain ==
  ASSUME ~RetrySameStore
  PROVE  ChainInv /\ [Next]_vars => ChainInv'
<1> SUFFICES ASSUME ChainInv, [Next]_vars PROVE ChainInv'
  OBVIOUS
<1>0. /\ TypeInv /\ ChainIntact /\ HandleAgrees
      /\ Shape(file) /\ (\A t \in Times : Shape(archives[t]))
      /\ Verify(file.recs) /\ \A t \in Times : Verify(archives[t].recs)
  BY DEF ChainInv, TypeInv, ChainIntact
<1>t. TypeInv'
  BY <1>0, NextTypes
<1>1. CASE UNCHANGED vars
  <2>1. ChainIntact' /\ HandleAgrees'
    BY <1>0, <1>1 DEF vars, ChainIntact, HandleAgrees
  <2> QED BY <1>t, <2>1 DEF ChainInv
<1>2. CASE Open
  <2>1. file'.recs = file.recs /\ archives' = archives
    BY <1>0, <1>2, ExistsKeepsShape DEF Open
  <2>2. ChainIntact'
    BY <1>0, <2>1 DEF ChainIntact
  <2>3. pc = "idle" /\ pc' = "idle"
    BY <1>0, <1>2 DEF Open, HandleAgrees
  <2>4. HandleAgrees'
    BY <1>2, <2>1, <2>3 DEF Open, HandleAgrees
  <2> QED BY <1>t, <2>2, <2>4 DEF ChainInv
<1>3. CASE OpenFails
  <2>1. ChainIntact' /\ HandleAgrees'
    BY <1>0, <1>3 DEF OpenFails, disk, memory, ChainIntact, HandleAgrees
  <2> QED BY <1>t, <2>1 DEF ChainInv
<1>4. CASE AppendRecord
  <2>1. Observed(nextId, now) \in Records
    BY <1>0, UnsealedType, TimesAreNat DEF TypeInv, TypeOK, NoHash, Hashes
  <2>2. ~failed /\ opened /\ pc = "idle" /\ AppendLocked(Observed(nextId, now))
    BY <1>4 DEF AppendRecord, MayCall
  <2>3. ChainIntact' /\ HandleAgrees'
    BY <2>1, <2>2, AppendKeepsChain
  <2> QED BY <1>t, <2>3 DEF ChainInv
<1>5. CASE SyncOk
  <2>1. file'.recs = file.recs /\ file'.tail = file.tail /\ archives' = archives
    BY <1>0, <1>5 DEF SyncOk, Shape, Files
  <2>2. ChainIntact'
    BY <1>0, <2>1 DEF ChainIntact
  <2>3. HandleAgrees'
    BY <1>0, <1>5, <2>1 DEF SyncOk, HandleAgrees
  <2> QED BY <1>t, <2>2, <2>3 DEF ChainInv
<1>6. CASE SyncFails
  <2>1. ChainIntact' /\ HandleAgrees'
    BY <1>0, <1>6 DEF SyncFails, Fail, disk, memory, ChainIntact, HandleAgrees
  <2> QED BY <1>t, <2>1 DEF ChainInv
<1>7. CASE RotateClose
  <2>1. ChainIntact'
    BY <1>0, <1>7 DEF RotateClose, disk, ChainIntact
  <2>2. opened' = opened /\ opened /\ ~failed
    BY <1>7 DEF RotateClose, MayCall
  <2>3. (pc' = "rename" /\ failed' = failed) \/ (pc' = "idle" /\ failed' = TRUE)
    BY <1>7 DEF RotateClose, Fail
  <2>4. HandleAgrees'
    BY <2>2, <2>3 DEF HandleAgrees
  <2> QED BY <1>t, <2>1, <2>4 DEF ChainInv
<1>8. CASE RotateRename
  <2>1. CASE /\ archives' = [archives EXCEPT ![rot.at] = file]
             /\ file' = NoFile
             /\ pc' = "reopen"
             /\ UNCHANGED failed
    <3>1. ChainIntact'
      <4>1. \A t \in Times : archives'[t] = archives[t] \/ archives'[t] = file
        BY <2>1 DEF ChainInv, TypeInv, TypeOK
      <4> QED BY <1>0, <2>1, <4>1, NoFileShape DEF ChainIntact
    <3>2. HandleAgrees'
      BY <1>0, <1>8, <2>1, NoFileShape DEF RotateRename, memory, HandleAgrees
    <3> QED BY <1>t, <3>1, <3>2 DEF ChainInv
  <2>2. CASE Fail /\ UNCHANGED disk
    <3>1. ChainIntact' /\ HandleAgrees'
      BY <1>0, <1>8, <2>2 DEF RotateRename, Fail, disk, memory, ChainIntact, HandleAgrees
    <3> QED BY <1>t, <3>1 DEF ChainInv
  <2> QED BY <1>8, <2>1, <2>2 DEF RotateRename
<1>9. CASE RotateReopen
  <2>1. file'.recs = file.recs /\ archives' = archives /\ opened' = opened
    BY <1>0, <1>9, ExistsKeepsShape DEF RotateReopen
  <2>2. ChainIntact'
    BY <1>0, <2>1 DEF ChainIntact
  <2>3. \/ pc' = "genesis" /\ failed' = failed /\ lastHash' = NoHash
        \/ pc' = "idle" /\ failed' = TRUE
    BY <1>9 DEF RotateReopen, NewChain, Fail
  <2>4. file.recs = << >> /\ opened /\ ~failed
    BY <1>0, <1>9 DEF RotateReopen, HandleAgrees
  <2>5. HandleAgrees'
    BY <2>1, <2>3, <2>4 DEF HandleAgrees
  <2> QED BY <1>t, <2>2, <2>5 DEF ChainInv
<1>10. CASE RotateGenesis
  <2>1. Rotation(nextId, rot.at, rot.head, rot.n) \in Records
    BY <1>0, UnsealedType, TimesAreNat DEF TypeInv, TypeOK
  <2>2. ~failed /\ opened /\ pc = "genesis"
    BY <1>0, <1>10 DEF RotateGenesis, HandleAgrees
  <2>3. ChainIntact' /\ HandleAgrees'
    BY <1>10, <2>1, <2>2, AppendKeepsChain DEF RotateGenesis
  <2> QED BY <1>t, <2>3 DEF ChainInv
<1>11. CASE Close
  <2>1. ChainIntact' /\ HandleAgrees'
    BY <1>0, <1>11 DEF Close, disk, ChainIntact, HandleAgrees
  <2> QED BY <1>t, <2>1 DEF ChainInv
<1>12. CASE Crash
  <2>1. ChainIntact' /\ HandleAgrees'
    BY <1>0, <1>12 DEF Crash, ProcessGone, disk, ChainIntact, HandleAgrees
  <2> QED BY <1>t, <2>1 DEF ChainInv
<1>13. CASE PowerLoss
  <2>1. HandleAgrees'
    BY <1>13 DEF PowerLoss, ProcessGone, HandleAgrees
  <2>2. CASE /\ \E f \in Cuts(file) : file' = f
             /\ \E t \in Times : \E f \in Cuts(archives[t]) :
                  archives' = [archives EXCEPT ![t] = f]
    <3>1. Verify(file'.recs)
      BY <1>0, <2>2, CutFacts
    <3>2. PICK t \in Times : \E f \in Cuts(archives[t]) :
            archives' = [archives EXCEPT ![t] = f]
      BY <2>2
    <3>3. PICK f \in Cuts(archives[t]) : archives' = [archives EXCEPT ![t] = f]
      BY <3>2
    <3>4. Verify(f.recs)
      BY <1>0, CutFacts
    <3>5. \A u \in Times : archives'[u] = archives[u] \/ archives'[u] = f
      BY <1>0, <3>3 DEF TypeInv, TypeOK
    <3> QED BY <1>0, <1>t, <2>1, <3>1, <3>4, <3>5 DEF ChainInv, ChainIntact
  <2>3. CASE /\ renamed # NoTime
             /\ \E f \in Cuts(archives[renamed]) : file' = f
             /\ archives' = [archives EXCEPT ![renamed] = NoFile]
    <3>1. renamed \in Times
      BY <1>0, <2>3 DEF TypeInv, TypeOK
    <3>2. Verify(file'.recs)
      BY <1>0, <2>3, <3>1, CutFacts
    <3>3. \A u \in Times : archives'[u] = archives[u] \/ archives'[u] = NoFile
      BY <1>0, <2>3 DEF TypeInv, TypeOK
    <3> QED BY <1>0, <1>t, <2>1, <3>2, <3>3, NoFileShape DEF ChainInv, ChainIntact
  <2> QED BY <1>13, <2>2, <2>3 DEF PowerLoss
<1>14. CASE Tick
  <2>1. ChainIntact' /\ HandleAgrees'
    BY <1>0, <1>14 DEF Tick, disk, memory, ChainIntact, HandleAgrees
  <2> QED BY <1>t, <2>1 DEF ChainInv
<1> QED
  BY <1>1, <1>2, <1>3, <1>4, <1>5, <1>6, <1>7, <1>8, <1>9, <1>10, <1>11, <1>12,
     <1>13, <1>14 DEF Next

(***************************************************************************)
(* The daemon and the CLI never break the chain: for every number of       *)
(* records, rotation age and pattern of failed or partial writes, crashes  *)
(* and power losses, evidence.Verify accepts the store and all archives.   *)
(***************************************************************************)
THEOREM ChainAlwaysIntact ==
  ASSUME ~RetrySameStore
  PROVE  Spec => []ChainIntact
<1>1. Init => ChainInv
  BY InitChain
<1>2. ChainInv /\ [Next]_vars => ChainInv'
  BY NextChain
<1>3. ChainInv => ChainIntact
  BY DEF ChainInv
<1> QED
  BY <1>1, <1>2, <1>3, PTL DEF Spec
-----------------------------------------------------------------------------
(***************************************************************************)
(* What the shells that exit on a store error keep: no acknowledged record *)
(* is lost and no archive is replaced, when a rotation age is at least a   *)
(* second and a line that is cut short does not decode.                    *)
(***************************************************************************)

(* An archive of second t, or of what a Sync has made durable of it. *)
Taken(t) == archives[t].exists \/ archives[t].synced > 0

(* No record of f is older than second t. *)
Since(f, t) == \A i \in 1..Len(f.recs) : f.recs[i].at >= t

(* The records that power loss cannot take away. *)
Durable(f) == {f.recs[i] : i \in 1..f.synced}

(* An object that may be called has a file whose lines are all complete. *)
Complete ==
  /\ pc # "idle" => opened /\ ~failed
  /\ opened /\ ~failed => file.tail = "nl"
  /\ file.tail # "bare" /\ \A t \in Times : archives[t].tail # "bare"
  /\ pc = "sync" => file.recs # << >> /\ file.recs[Len(file.recs)] = pend
  /\ pc = "genesis" => count = 0

(* What was acknowledged is durable; what a rename may still lose is not. *)
AckedDurable ==
  /\ renamed # NoTime => file.synced = 0
  /\ \A r \in acked : r \in Durable(file) \/ \E t \in Times : r \in Durable(archives[t])

(***************************************************************************)
(* Segments follow one another in time: whatever is in the store, or may   *)
(* come back to it from the last archive, is not older than any archive,   *)
(* and a rotation is younger than all of them.                             *)
(***************************************************************************)
After(t) ==
  /\ t <= now
  /\ Since(file, t)
  /\ (opened /\ ~failed /\ pc \in {"idle", "sync"} /\ count # 0) => firstAt >= t
  /\ pc = "sync" => pend.at >= t
  /\ pc = "rename" => rot.at > t
  /\ pc \in {"reopen", "genesis"} => rot.at >= t
  /\ (renamed # NoTime /\ renamed # t) => Since(archives[renamed], t)

InOrder == rot.at <= now /\ \A t \in Times : Taken(t) => After(t)

KeptInv == TypeInv /\ Complete /\ AckedDurable /\ InOrder
-----------------------------------------------------------------------------
(* A write to a file of complete lines keeps what is durable. *)
LEMMA WriteKeeps ==
  ASSUME NEW f, Shape(f), f.tail = "nl", NEW r \in Records,
         NEW out \in {"full", "none", "torn"}
  PROVE  /\ Write(f, r, out).synced = f.synced
         /\ Durable(Write(f, r, out)) = Durable(f)
         /\ Write(f, r, out).tail # "bare"
         /\ out = "full" => /\ Write(f, r, out).tail = "nl"
                            /\ Write(f, r, out).recs # << >>
                            /\ Write(f, r, out).recs[Len(Write(f, r, out).recs)] = r
         /\ \A t \in Nat : Since(f, t) /\ r.at >= t => Since(Write(f, r, out), t)
<1> DEFINE g == Write(f, r, out)
<1>1. /\ f \in Files /\ f.recs \in Seq(Records) /\ f.synced \in Nat /\ f.synced <= Len(f.recs)
      /\ Len(f.recs) \in Nat
  BY LenProperties DEF Shape, Files
<1>2. CASE out = "none" \/ out = "torn"
  <2>1. g.recs = f.recs /\ g.synced = f.synced /\ g.tail # "bare"
    BY <1>1, <1>2 DEF Write, Files
  <2> QED BY <1>2, <2>1 DEF Durable, Since
<1>3. CASE out = "full"
  <2> DEFINE recs == Append(f.recs, r)
  <2>1. /\ recs # << >> /\ Len(recs) = Len(f.recs) + 1 /\ recs[Len(f.recs) + 1] = r
        /\ \A i \in 1..Len(f.recs) : recs[i] = f.recs[i]
    BY <1>1, AppendProperties
  <2>2. g = [f EXCEPT !.recs = recs, !.tail = "nl"]
    BY <1>3 DEF Write
  <2> HIDE DEF recs
  <2>3. g.recs = recs /\ g.tail = "nl" /\ g.synced = f.synced
    BY <1>1, <2>2 DEF Files
  <2>4. Durable(g) = Durable(f)
    <3>1. \A i \in 1..f.synced : recs[i] = f.recs[i]
      BY <1>1, <2>1
    <3> HIDE DEF g
    <3> QED BY <2>3, <3>1 DEF Durable
  <2>5. \A t \in Nat : Since(f, t) /\ r.at >= t => Since(g, t)
    BY <1>1, <2>1, <2>3 DEF Since
  <2> HIDE DEF g
  <2>6. g.recs # << >> /\ g.recs[Len(g.recs)] = r
    BY <2>1, <2>3
  <2> QED BY <2>3, <2>4, <2>5, <2>6 DEF g
<1> QED BY <1>2, <1>3

(* So does power loss, whatever else it takes. *)
LEMMA CutKeeps ==
  ASSUME NEW f, Shape(f), f.tail # "bare", "bare" \notin Tears, NEW g \in Cuts(f)
  PROVE  /\ g.synced = f.synced /\ g.exists = f.exists /\ g.tail # "bare"
         /\ Durable(g) = Durable(f)
         /\ \A t \in Nat : Since(f, t) => Since(g, t)
<1>1. /\ f \in Files /\ f.recs \in Seq(Records) /\ f.synced \in Nat /\ f.synced <= Len(f.recs)
      /\ Len(f.recs) \in Nat
  BY LenProperties DEF Shape, Files
<1>2. CASE g = f
  BY <1>2
<1>3. CASE g # f
  <2>1. PICK n \in f.synced..Len(f.recs), tail \in {"nl", "torn"} : g = CutTo(f, n, tail)
    BY <1>1, <1>3 DEF Cuts
  <2>2. n \in Nat /\ n <= Len(f.recs) /\ f.synced <= n
    BY <1>1
  <2> DEFINE recs == SubSeq(f.recs, 1, n)
  <2>3. Len(recs) = n /\ \A i \in 1..n : recs[i] = f.recs[i]
    BY <1>1, <2>2, VerifyPrefix
  <2>4. g = [f EXCEPT !.recs = recs, !.tail = tail]
    BY <2>1 DEF CutTo
  <2> HIDE DEF recs
  <2>5. g.recs = recs /\ g.synced = f.synced /\ g.exists = f.exists /\ g.tail = tail
    BY <1>1, <2>4 DEF Files
  <2>6. Durable(g) = Durable(f)
    <3>1. \A i \in 1..f.synced : recs[i] = f.recs[i]
      BY <1>1, <2>2, <2>3
    <3> QED BY <2>5, <3>1 DEF Durable
  <2>7. \A t \in Nat : Since(f, t) => Since(g, t)
    BY <1>1, <2>2, <2>3, <2>5 DEF Since
  <2> QED BY <2>5, <2>6, <2>7
<1> QED BY <1>2, <1>3

(* One append, of an observation or of a rotation record. *)
LEMMA AppendKeeps ==
  ASSUME KeptInv, "bare" \notin Tears, opened, ~failed, pc \in {"idle", "genesis"},
         NEW r \in Records, AppendLocked(r), \A t \in Times : Taken(t) => r.at >= t
  PROVE  Complete' /\ AckedDurable' /\ InOrder'
<1> DEFINE q == Seal(r, lastHash)
<1>0. /\ Shape(file) /\ file.tail = "nl" /\ Times \subseteq Nat
      /\ Complete /\ AckedDurable /\ InOrder
  BY TimesAreNat DEF KeptInv, TypeInv, Complete
<1>1. q \in Records /\ q.at = r.at
  BY SealFacts DEF KeptInv, TypeInv, TypeOK
<1>2. /\ pend' = q
      /\ UNCHANGED << archives, renamed, opened, fd, count, firstAt, rot, now, acked >>
  BY DEF AppendLocked
<1>3. PICK out \in {"full", "none", "torn"} :
        /\ file' = Write(file, q, out)
        /\ \/ out = "full" /\ pc' = "sync" /\ failed' = failed
           \/ pc' = "idle" /\ failed' = TRUE
  BY TearsAssumption DEF AppendLocked, Fail
<1> HIDE DEF q
<1>4. /\ file'.synced = file.synced /\ Durable(file') = Durable(file) /\ file'.tail # "bare"
      /\ out = "full" => /\ file'.tail = "nl" /\ file'.recs # << >>
                         /\ file'.recs[Len(file'.recs)] = q
      /\ \A t \in Nat : Since(file, t) /\ q.at >= t => Since(file', t)
  BY <1>0, <1>1, <1>3, WriteKeeps
<1>5. Complete'
  BY <1>0, <1>2, <1>3, <1>4 DEF Complete
<1>6. AckedDurable'
  <2>1. \A r1 \in acked : \/ r1 \in Durable(file')
                         \/ \E t \in Times : r1 \in Durable(archives'[t])
    BY <1>0, <1>2, <1>4 DEF AckedDurable
  <2> QED BY <1>0, <1>2, <1>4, <2>1 DEF AckedDurable, Durable
<1>7. InOrder'
  <2> SUFFICES ASSUME NEW t \in Times, Taken(t) PROVE After(t)'
    BY <1>0, <1>2 DEF InOrder, Taken
  <2>1. After(t) /\ q.at >= t
    BY <1>0, <1>1 DEF InOrder
  <2>2. Since(file', t)
    BY <1>0, <1>4, <2>1 DEF After
  <2>3. count # 0 => pc = "idle"
    BY <1>0 DEF Complete
  <2>4. (renamed # NoTime /\ renamed # t) => Since(archives'[renamed'], t)
    BY <1>2, <2>1 DEF After
  <2> QED BY <1>2, <1>3, <2>1, <2>2, <2>3, <2>4 DEF After, Since
<1> QED BY <1>5, <1>6, <1>7

(* A call that fails, and a store that is closed, leave all of it alone. *)
LEMMA QuietKeeps ==
  ASSUME KeptInv, UNCHANGED << file, archives, renamed, acked, rot, now >>, pc' = "idle",
         failed' = TRUE \/ opened' = FALSE
  PROVE  Complete' /\ AckedDurable' /\ InOrder'
<1>0. Complete /\ AckedDurable /\ InOrder
  BY DEF KeptInv
<1>1. Complete'
  BY <1>0 DEF Complete
<1>2. AckedDurable'
  BY <1>0 DEF AckedDurable, Durable
<1>3. InOrder'
  BY <1>0 DEF InOrder, After, Taken, Since
<1> QED BY <1>1, <1>2, <1>3

(* Opening counts and dates the records it finds, and makes none durable. *)
LEMMA OpenKeeps ==
  ASSUME KeptInv, Open
  PROVE  Complete' /\ AckedDurable' /\ InOrder'
<1>0. /\ Shape(file) /\ Complete /\ AckedDurable /\ InOrder /\ pc = "idle"
      /\ file.recs \in Seq(Records) /\ Len(file.recs) \in Nat
      /\ file.tail \in {"nl", "bare", "torn"}
  BY LenProperties DEF KeptInv, TypeInv, Complete, Shape, Files, Open
<1>1. /\ file'.recs = file.recs /\ file'.tail = file.tail /\ file'.synced = file.synced
      /\ pc' = "idle" /\ count' = Len(file.recs) /\ firstAt' = AgeStart(file.recs)
      /\ UNCHANGED << archives, renamed, rot, now, acked >>
  BY <1>0 DEF Open, Shape, Files
<1>2. Complete'
  BY <1>0, <1>1 DEF Complete, Open, Readable
<1>3. AckedDurable'
  <2>1. Durable(file') = Durable(file)
    BY <1>1 DEF Durable
  <2>2. \A r \in acked : r \in Durable(file') \/ \E t \in Times : r \in Durable(archives'[t])
    BY <1>0, <1>1, <2>1 DEF AckedDurable
  <2> QED BY <1>0, <1>1, <2>2 DEF AckedDurable, Durable
<1>4. InOrder'
  <2> SUFFICES ASSUME NEW t \in Times, Taken(t) PROVE After(t)'
    BY <1>0, <1>1 DEF InOrder, Taken
  <2>1. After(t)
    BY <1>0 DEF InOrder
  <2>2. count' # 0 => firstAt' >= t
    BY <1>0, <1>1, <2>1, EmptySeq DEF After, Since, AgeStart
  <2> QED BY <1>1, <2>1, <2>2 DEF After, Since
<1> QED BY <1>2, <1>3, <1>4

(* A Sync makes the pending record durable before it is acknowledged, and
   commits the last rename. *)
LEMMA SyncKeeps ==
  ASSUME KeptInv, SyncOk
  PROVE  Complete' /\ AckedDurable' /\ InOrder'
<1>0. /\ Shape(file) /\ Complete /\ AckedDurable /\ InOrder /\ pc = "sync"
      /\ file.recs \in Seq(Records) /\ Len(file.recs) \in Nat
      /\ file.synced \in Nat /\ file.synced <= Len(file.recs)
  BY LenProperties DEF KeptInv, TypeInv, Shape, Files, SyncOk
<1>1. /\ file'.recs = file.recs /\ file'.tail = file.tail /\ file'.synced = Len(file.recs)
      /\ pc' = "idle" /\ renamed' = NoTime /\ acked' = acked \cup {pend}
      /\ firstAt' = (IF count = 0 THEN pend.at ELSE firstAt)
      /\ UNCHANGED << archives, opened, rot, now >>
  BY <1>0 DEF SyncOk, Shape, Files
<1>2. Complete'
  BY <1>0, <1>1 DEF Complete
<1>3. AckedDurable'
  <2>1. Durable(file) \subseteq Durable(file')
    BY <1>0, <1>1 DEF Durable
  <2>2. pend \in Durable(file')
    <3>1. Len(file.recs) \in 1..Len(file.recs) /\ file.recs[Len(file.recs)] = pend
      BY <1>0, EmptySeq DEF Complete
    <3> QED BY <1>1, <3>1 DEF Durable
  <2>3. \A r \in acked' : r \in Durable(file') \/ \E t \in Times : r \in Durable(archives'[t])
    BY <1>0, <1>1, <2>1, <2>2 DEF AckedDurable
  <2> QED BY <1>1, <2>3 DEF AckedDurable, Durable
<1>4. InOrder'
  <2> SUFFICES ASSUME NEW t \in Times, Taken(t) PROVE After(t)'
    BY <1>0, <1>1 DEF InOrder, Taken
  <2>1. After(t) /\ opened /\ ~failed
    BY <1>0 DEF InOrder, Complete
  <2>2. firstAt' >= t
    BY <1>0, <1>1, <2>1 DEF After
  <2> QED BY <1>1, <2>1, <2>2 DEF After, Since
<1> QED BY <1>2, <1>3, <1>4

(* A rotation starts a second or more after the oldest record it archives. *)
LEMMA CloseKeeps ==
  ASSUME KeptInv, ~RetrySameStore, RotateAfter # 0, RotateClose
  PROVE  Complete' /\ AckedDurable' /\ InOrder'
<1>0. Complete /\ AckedDurable /\ InOrder /\ opened /\ ~failed /\ pc = "idle" /\ Due
  BY DEF KeptInv, RotateClose, MayCall
<1>1. UNCHANGED << file, archives, renamed, opened, count, firstAt, now, acked >>
  BY DEF RotateClose, disk
<1>2. CASE Fail /\ UNCHANGED rot
  BY <1>1, <1>2, QuietKeeps DEF Fail
<1>3. CASE rot' = [at |-> now, head |-> lastHash, n |-> count] /\ pc' = "rename" /\ UNCHANGED failed
  <2>1. Complete'
    BY <1>0, <1>1, <1>3 DEF Complete
  <2>2. AckedDurable'
    BY <1>0, <1>1 DEF AckedDurable, Durable
  <2>3. InOrder'
    <3>1. rot'.at = now /\ now \in Nat
      BY <1>3, TimesAreNat DEF KeptInv, TypeInv, TypeOK
    <3> SUFFICES ASSUME NEW t \in Times, Taken(t) PROVE After(t)'
      BY <1>0, <1>1, <3>1 DEF InOrder, Taken
    <3>2. After(t) /\ firstAt >= t /\ t \in Nat
      BY <1>0, TimesAreNat DEF InOrder, After, Due
    <3>3. now > t
      BY <1>0, <3>1, <3>2, RotateAssumption DEF Due, KeptInv, TypeInv, TypeOK, NoTime
    <3> QED BY <1>1, <1>3, <3>1, <3>2, <3>3 DEF After, Since
  <2> QED BY <2>1, <2>2, <2>3
<1> QED BY <1>2, <1>3 DEF RotateClose

(* The rename finds no archive of its second. *)
LEMMA RenameFresh ==
  ASSUME KeptInv, pc = "rename"
  PROVE  rot.at \in Times /\ ~Taken(rot.at) /\ Durable(archives[rot.at]) = {}
<1>1. rot.at \in Times /\ rot.at \in Nat /\ archives[rot.at].synced \in Nat
  BY TimesAreNat DEF KeptInv, TypeInv, TypeOK, Shape, Files
<1>2. ~Taken(rot.at)
  <2> SUFFICES ASSUME Taken(rot.at) PROVE FALSE
    OBVIOUS
  <2>1. rot.at > rot.at
    BY <1>1 DEF KeptInv, InOrder, After
  <2> QED BY <1>1, <2>1
<1>3. archives[rot.at].synced = 0
  BY <1>1, <1>2 DEF Taken
<1> QED BY <1>1, <1>2, <1>3 DEF Durable

(* A rename moves what is durable to an archive of its own. *)
LEMMA RenameKeeps ==
  ASSUME KeptInv, RotateRename
  PROVE  Complete' /\ AckedDurable' /\ InOrder'
<1>0. Complete /\ AckedDurable /\ InOrder /\ opened /\ ~failed /\ pc = "rename"
  BY DEF KeptInv, RotateRename, Complete
<1>1. UNCHANGED << opened, count, firstAt, rot, now, acked >>
  BY DEF RotateRename, memory
<1>2. CASE Fail /\ UNCHANGED disk
  BY <1>1, <1>2, QuietKeeps DEF Fail, disk
<1>3. CASE /\ archives' = [archives EXCEPT ![rot.at] = file]
           /\ file' = NoFile /\ renamed' = rot.at /\ pc' = "reopen" /\ UNCHANGED failed
  <2>1. /\ rot.at \in Times /\ Durable(archives[rot.at]) = {}
        /\ archives'[rot.at] = file /\ \A t \in Times \ {rot.at} : archives'[t] = archives[t]
    BY <1>0, <1>3, RenameFresh DEF KeptInv, TypeInv, TypeOK
  <2>2. NoFile.recs = << >> /\ NoFile.tail = "nl" /\ NoFile.synced = 0
    BY DEF NoFile
  <2>3. Complete'
    BY <1>0, <1>1, <1>3, <2>1, <2>2 DEF Complete
  <2>4. AckedDurable'
    <3>1. \A r \in acked : \E t \in Times : r \in Durable(archives'[t])
      BY <1>0, <2>1 DEF AckedDurable
    <3> QED BY <1>1, <1>3, <2>2, <3>1 DEF AckedDurable, Durable
  <2>5. InOrder'
    <3>1. rot.at \in Nat /\ now \in Nat /\ rot.at <= now
      BY <1>0, <2>1, TimesAreNat DEF KeptInv, TypeInv, TypeOK, InOrder
    <3> SUFFICES ASSUME NEW t \in Times, Taken(t)' PROVE After(t)'
      BY <1>1, <3>1 DEF InOrder
    <3>2. Since(file', t)
      BY <1>3, <2>2 DEF Since
    <3>3. CASE t = rot.at
      BY <1>1, <1>3, <3>1, <3>2, <3>3 DEF After, Since
    <3>4. CASE t # rot.at
      <4>1. Taken(t)
        BY <2>1, <3>4 DEF Taken
      <4>2. After(t) /\ t \in Nat
        BY <1>0, <4>1, TimesAreNat DEF InOrder
      <4>3. rot.at > t /\ Since(archives'[rot.at], t) /\ t <= now
        BY <1>0, <2>1, <4>2 DEF After
      <4> QED BY <1>1, <1>3, <3>1, <3>2, <4>2, <4>3 DEF After, Since
    <3> QED BY <3>3, <3>4
  <2> QED BY <2>3, <2>4, <2>5
<1> QED BY <1>2, <1>3 DEF RotateRename

(* The new segment starts empty. *)
LEMMA ReopenKeeps ==
  ASSUME KeptInv, RotateReopen
  PROVE  Complete' /\ AckedDurable' /\ InOrder'
<1>0. /\ Shape(file) /\ Complete /\ AckedDurable /\ InOrder /\ opened /\ ~failed
      /\ pc = "reopen"
  BY DEF KeptInv, TypeInv, RotateReopen, Complete
<1>1. UNCHANGED << archives, renamed, opened, rot, now, acked >>
  BY DEF RotateReopen
<1>2. CASE Fail /\ UNCHANGED file
  BY <1>1, <1>2, QuietKeeps DEF Fail
<1>3. CASE /\ file' = [file EXCEPT !.exists = TRUE] /\ count' = NewChain.count
           /\ pc' = "genesis" /\ UNCHANGED failed
  <2>1. /\ file'.recs = file.recs /\ file'.tail = file.tail /\ file'.synced = file.synced
        /\ count' = 0
    BY <1>0, <1>3 DEF Shape, Files, NewChain
  <2>2. Complete'
    BY <1>0, <1>1, <1>3, <2>1 DEF Complete
  <2>3. AckedDurable'
    <3>1. Durable(file') = Durable(file)
      BY <2>1 DEF Durable
    <3>2. \A r \in acked : r \in Durable(file') \/ \E t \in Times : r \in Durable(archives'[t])
      BY <1>0, <1>1, <3>1 DEF AckedDurable
    <3> QED BY <1>0, <1>1, <2>1, <3>2 DEF AckedDurable, Durable
  <2>4. InOrder'
    <3> SUFFICES ASSUME NEW t \in Times, Taken(t) PROVE After(t)'
      BY <1>0, <1>1 DEF InOrder, Taken
    <3>1. After(t) /\ rot.at >= t
      BY <1>0 DEF InOrder, After
    <3> QED BY <1>1, <1>3, <2>1, <3>1 DEF After, Since
  <2> QED BY <2>2, <2>3, <2>4
<1> QED BY <1>2, <1>3 DEF RotateReopen

(* Power loss takes only what no Sync covered; an undone rename brings the
   archive back as the store. *)
LEMMA PowerLossKeeps ==
  ASSUME KeptInv, "bare" \notin Tears, PowerLoss
  PROVE  Complete' /\ AckedDurable' /\ InOrder'
<1>0. /\ Shape(file) /\ (\A t \in Times : Shape(archives[t]))
      /\ Complete /\ AckedDurable /\ InOrder
      /\ file.tail # "bare" /\ (\A t \in Times : archives[t].tail # "bare")
      /\ archives \in [Times -> Files] /\ Times \subseteq Nat
  BY TimesAreNat DEF KeptInv, TypeInv, TypeOK, Complete
<1>1. /\ renamed' = NoTime /\ opened' = FALSE /\ pc' = "idle"
      /\ UNCHANGED << rot, now, acked >>
  BY DEF PowerLoss, ProcessGone
<1>2. CASE /\ \E f \in Cuts(file) : file' = f
           /\ \E u \in Times : \E f \in Cuts(archives[u]) :
                archives' = [archives EXCEPT ![u] = f]
  <2>1. /\ file'.tail # "bare" /\ file'.synced = file.synced
        /\ Durable(file') = Durable(file)
        /\ \A t \in Nat : Since(file, t) => Since(file', t)
    BY <1>0, <1>2, CutKeeps
  <2>2. PICK u \in Times : \E f \in Cuts(archives[u]) : archives' = [archives EXCEPT ![u] = f]
    BY <1>2
  <2>3. PICK f \in Cuts(archives[u]) : archives' = [archives EXCEPT ![u] = f]
    BY <2>2
  <2>4. /\ f.synced = archives[u].synced /\ f.exists = archives[u].exists
        /\ f.tail # "bare" /\ Durable(f) = Durable(archives[u])
    BY <1>0, CutKeeps
  <2>5. \A t \in Times : /\ archives'[t].tail # "bare"
                         /\ Durable(archives'[t]) = Durable(archives[t])
                         /\ Taken(t)' <=> Taken(t)
    BY <1>0, <2>3, <2>4 DEF Taken
  <2>6. Complete'
    BY <1>1, <2>1, <2>5 DEF Complete
  <2>7. AckedDurable'
    <3>1. \A r \in acked : r \in Durable(file') \/ \E t \in Times : r \in Durable(archives'[t])
      BY <1>0, <2>1, <2>5 DEF AckedDurable
    <3> QED BY <1>1, <3>1 DEF AckedDurable, Durable
  <2>8. InOrder'
    <3> SUFFICES ASSUME NEW t \in Times, Taken(t) PROVE After(t)'
      BY <1>0, <1>1, <2>5 DEF InOrder
    <3>1. After(t)
      BY <1>0 DEF InOrder
    <3>2. Since(file', t)
      BY <1>0, <2>1, <3>1 DEF After
    <3> QED BY <1>1, <3>1, <3>2 DEF After, Since
  <2> QED BY <2>6, <2>7, <2>8
<1>3. CASE /\ renamed # NoTime
           /\ \E f \in Cuts(archives[renamed]) : file' = f
           /\ archives' = [archives EXCEPT ![renamed] = NoFile]
  <2>1. renamed \in Times /\ file.synced = 0
    BY <1>0, <1>3 DEF KeptInv, TypeInv, TypeOK, AckedDurable
  <2>2. /\ file'.tail # "bare" /\ Durable(file') = Durable(archives[renamed])
        /\ \A t \in Nat : Since(archives[renamed], t) => Since(file', t)
    BY <1>0, <1>3, <2>1, CutKeeps
  <2>3. NoFile.tail = "nl" /\ NoFile.synced = 0 /\ NoFile.exists = FALSE
    BY DEF NoFile
  <2>4. /\ archives'[renamed] = NoFile
        /\ \A t \in Times \ {renamed} : archives'[t] = archives[t]
    BY <1>0, <1>3, <2>1
  <2>5. Complete'
    BY <1>0, <1>1, <2>2, <2>3, <2>4 DEF Complete
  <2>6. AckedDurable'
    <3>1. Durable(file) = {}
      BY <2>1 DEF Durable
    <3>2. \A r \in acked : r \in Durable(file') \/ \E t \in Times : r \in Durable(archives'[t])
      BY <1>0, <2>2, <2>4, <3>1 DEF AckedDurable
    <3> QED BY <1>1, <3>2 DEF AckedDurable, Durable
  <2>7. InOrder'
    <3> SUFFICES ASSUME NEW t \in Times, Taken(t)' PROVE After(t)'
      BY <1>0, <1>1 DEF InOrder
    <3>1. t # renamed /\ Taken(t)
      BY <2>3, <2>4 DEF Taken
    <3>2. After(t) /\ t \in Nat
      BY <1>0, <3>1 DEF InOrder
    <3>3. Since(file', t)
      BY <1>3, <2>2, <3>1, <3>2 DEF After
    <3> QED BY <1>1, <3>2, <3>3 DEF After, Since
  <2> QED BY <2>5, <2>6, <2>7
<1> QED BY <1>2, <1>3 DEF PowerLoss
-----------------------------------------------------------------------------
(* Initially nothing is acknowledged and nothing archived. *)
LEMMA KeptInit == Init => KeptInv
<1> SUFFICES ASSUME Init PROVE KeptInv
  OBVIOUS
<1>1. TypeInv
  BY InitTypes
<1>2. /\ file = NoFile /\ (\A t \in Times : archives[t] = NoFile) /\ renamed = NoTime
      /\ opened = FALSE /\ pc = "idle" /\ rot.at = 0 /\ now = 0 /\ acked = {}
  BY DEF Init
<1>3. NoFile.tail = "nl" /\ NoFile.synced = 0 /\ NoFile.exists = FALSE
  BY DEF NoFile
<1>4. Complete
  BY <1>2, <1>3 DEF Complete
<1>5. AckedDurable
  BY <1>2 DEF AckedDurable
<1>6. InOrder
  BY <1>2, <1>3 DEF InOrder, Taken
<1> QED BY <1>1, <1>4, <1>5, <1>6 DEF KeptInv

(* Every step of a shell that exits on a store error keeps the invariant. *)
LEMMA KeptStep ==
  ASSUME ~RetrySameStore, RotateAfter # 0, "bare" \notin Tears
  PROVE  KeptInv /\ [Next]_vars => KeptInv'
<1> SUFFICES ASSUME KeptInv, [Next]_vars PROVE KeptInv'
  OBVIOUS
<1>0. TypeInv /\ TypeOK /\ Complete /\ AckedDurable /\ InOrder
  BY DEF KeptInv, TypeInv
<1>t. TypeInv'
  BY <1>0, NextTypes
<1> SUFFICES Complete' /\ AckedDurable' /\ InOrder'
  BY <1>t DEF KeptInv
<1>1. CASE UNCHANGED vars
  BY <1>0, <1>1 DEF vars, Complete, AckedDurable, Durable, InOrder, After, Taken, Since
<1>2. CASE Open
  BY <1>2, OpenKeeps
<1>3. CASE OpenFails
  <2>1. pc = "idle"
    BY <1>0, <1>3 DEF OpenFails, Complete
  <2> QED BY <1>3, <2>1, QuietKeeps DEF OpenFails, disk, memory
<1>4. CASE AppendRecord
  <2>1. Observed(nextId, now) \in Records /\ Observed(nextId, now).at = now
    BY <1>0, UnsealedType, TimesAreNat DEF TypeOK, Observed, NoHash, Hashes
  <2>2. ~failed /\ opened /\ pc = "idle" /\ AppendLocked(Observed(nextId, now))
    BY <1>4 DEF AppendRecord, MayCall
  <2>3. \A t \in Times : Taken(t) => now >= t
    BY <1>0, TimesAreNat DEF InOrder, After, TypeOK
  <2> QED BY <2>1, <2>2, <2>3, AppendKeeps
<1>5. CASE SyncOk
  BY <1>5, SyncKeeps
<1>6. CASE SyncFails
  BY <1>6, QuietKeeps DEF SyncFails, Fail, disk
<1>7. CASE RotateClose
  BY <1>7, CloseKeeps
<1>8. CASE RotateRename
  BY <1>8, RenameKeeps
<1>9. CASE RotateReopen
  BY <1>9, ReopenKeeps
<1>10. CASE RotateGenesis
  <2> DEFINE r == Rotation(nextId, rot.at, rot.head, rot.n)
  <2>0. nextId \in Nat /\ rot.at \in Nat /\ rot.head \in Hashes /\ rot.n \in Nat
    BY <1>0, TimesAreNat DEF TypeOK
  <2>1. r \in Records /\ r.at = rot.at
    BY <2>0, UnsealedType
  <2>2. pc = "genesis" /\ AppendLocked(r) /\ opened /\ ~failed
    BY <1>0, <1>10 DEF RotateGenesis, Complete
  <2> HIDE DEF r
  <2>3. \A t \in Times : Taken(t) => r.at >= t
    BY <1>0, <2>1, <2>2 DEF InOrder, After
  <2> QED BY <2>1, <2>2, <2>3, AppendKeeps
<1>11. CASE Close
  BY <1>11, QuietKeeps DEF Close, disk
<1>12. CASE Crash
  BY <1>12, QuietKeeps DEF Crash, ProcessGone, disk
<1>13. CASE PowerLoss
  BY <1>13, PowerLossKeeps
<1>14. CASE Tick
  <2>1. now' = now + 1 /\ now \in Nat /\ rot.at \in Nat /\ Times \subseteq Nat
    BY <1>0, <1>14, TimesAreNat DEF Tick, TypeOK
  <2>2. UNCHANGED << disk, memory, pc, pend, rot, failed, acked >>
    BY <1>14 DEF Tick
  <2>3. Complete'
    BY <1>0, <2>2 DEF disk, memory, Complete
  <2>4. AckedDurable'
    BY <1>0, <2>2 DEF disk, AckedDurable, Durable
  <2>5. InOrder'
    <3>0. rot'.at <= now' /\ \A t \in Times : Taken(t)' <=> Taken(t)
      BY <1>0, <2>1, <2>2 DEF disk, InOrder, Taken
    <3> SUFFICES ASSUME NEW t \in Times, Taken(t) PROVE After(t)'
      BY <3>0 DEF InOrder
    <3>1. After(t) /\ t \in Nat
      BY <1>0, <2>1 DEF InOrder
    <3> QED BY <2>1, <2>2, <3>1 DEF disk, memory, After, Since
  <2> QED BY <2>3, <2>4, <2>5
<1> QED
  BY <1>1, <1>2, <1>3, <1>4, <1>5, <1>6, <1>7, <1>8, <1>9, <1>10, <1>11, <1>12,
     <1>13, <1>14 DEF Next

(***************************************************************************)
(* The daemon and the CLI lose no acknowledged record: what Append         *)
(* returned nil for is in the store or in an archive, whatever fails and   *)
(* however often the process or the machine stops.                         *)
(***************************************************************************)
THEOREM AckedAlwaysKept ==
  ASSUME ~RetrySameStore, RotateAfter # 0, "bare" \notin Tears
  PROVE  Spec => []AckedKept
<1>1. Init => KeptInv
  BY KeptInit
<1>2. KeptInv /\ [Next]_vars => KeptInv'
  BY KeptStep
<1>3. KeptInv => AckedKept
  <2> SUFFICES ASSUME KeptInv PROVE AckedKept
    OBVIOUS
  <2>1. \A f : Shape(f) => Durable(f) \subseteq Held(f)
    <3> SUFFICES ASSUME NEW f, Shape(f) PROVE Durable(f) \subseteq Held(f)
      OBVIOUS
    <3>1. f.synced \in Nat /\ Len(f.recs) \in Nat /\ f.synced <= Len(f.recs)
      BY LenProperties DEF Shape, Files
    <3> QED BY <3>1 DEF Durable, Held
  <2> QED BY <2>1 DEF KeptInv, TypeInv, AckedDurable, AckedKept
<1> QED BY <1>1, <1>2, <1>3, PTL DEF Spec

(***************************************************************************)
(* Nor does their MaybeRotate ever rename a segment over an archive: two   *)
(* rotations never fall into one second.                                   *)
(***************************************************************************)
THEOREM ArchivesNeverReplaced ==
  ASSUME ~RetrySameStore, RotateAfter # 0, "bare" \notin Tears
  PROVE  Spec => ArchivesKept
<1> DEFINE Kept ==
      \A t \in Times : archives[t].exists =>
        \/ archives'[t] = archives[t]
        \/ PowerLoss
<1>1. Init => KeptInv
  BY KeptInit
<1>2. KeptInv /\ [Next]_vars => KeptInv'
  BY KeptStep
<1>3. KeptInv /\ [Next]_vars => [Kept]_vars
  <2> SUFFICES ASSUME KeptInv, Next PROVE Kept
    OBVIOUS
  <2>1. CASE RotateRename
    <3>1. rot.at \in Times /\ ~archives[rot.at].exists
      BY <2>1, RenameFresh DEF RotateRename, Taken
    <3>2. archives' = archives \/ archives' = [archives EXCEPT ![rot.at] = file]
      BY <2>1 DEF RotateRename, disk
    <3> QED BY <3>1, <3>2 DEF KeptInv, TypeInv, TypeOK
  <2>2. CASE PowerLoss
    BY <2>2
  <2>3. CASE ~RotateRename /\ ~PowerLoss
    <3>1. archives' = archives
      BY <2>3 DEF Next, Open, OpenFails, AppendRecord, AppendLocked, SyncOk, SyncFails,
         RotateClose, RotateReopen, RotateGenesis, Close, Crash, Tick, disk
    <3> QED BY <3>1
  <2> QED BY <2>1, <2>2, <2>3
<1> QED BY <1>1, <1>2, <1>3, PTL DEF Spec, ArchivesKept
-----------------------------------------------------------------------------
(***************************************************************************)
(* What a store that may be called remembers of its file: how many records *)
(* it holds, and that it is there.                                         *)
(***************************************************************************)
Counted ==
  /\ (opened /\ ~failed /\ pc = "idle" /\ file.tail # "torn") => count = Len(file.recs)
  /\ (pc = "sync" /\ file.tail = "nl") => count + 1 = Len(file.recs)
  /\ pc = "sync" => file.tail # "bare"
  /\ pc = "genesis" => count = 0

Present ==
  /\ (opened /\ ~failed /\ pc # "reopen") => file.exists
  /\ ~file.exists => file.recs = << >>
  /\ \A t \in Times : ~archives[t].exists => archives[t].recs = << >>

CountInv == ChainInv /\ Counted /\ Present

(* A write adds one line to a file of complete lines, or spoils another. *)
LEMMA WriteCounts ==
  ASSUME NEW f, Shape(f), NEW r \in Records, NEW out \in Outcomes
  PROVE  /\ Write(f, r, out).exists = f.exists
         /\ out = "full" => Write(f, r, out).tail # "bare"
         /\ (out = "full" /\ Write(f, r, out).tail = "nl") =>
              f.tail = "nl" /\ Len(Write(f, r, out).recs) = Len(f.recs) + 1
<1>1. /\ f \in Files /\ f.recs \in Seq(Records) /\ f.tail \in {"nl", "bare", "torn"}
      /\ Len(f.recs) \in Nat
  BY LenProperties DEF Shape, Files
<1>2. CASE out = "none"
  BY <1>2 DEF Write
<1>3. CASE out # "none" /\ f.tail = "nl"
  <2> DEFINE recs == IF out = "torn" THEN f.recs ELSE Append(f.recs, r)
             tail == IF out = "full" THEN "nl" ELSE out
  <2>1. Write(f, r, out) = [f EXCEPT !.recs = recs, !.tail = tail]
    BY <1>3 DEF Write
  <2>2. out = "full" => tail = "nl" /\ Len(recs) = Len(f.recs) + 1
    BY <1>1, AppendProperties
  <2> HIDE DEF recs, tail
  <2>3. /\ Write(f, r, out).exists = f.exists /\ Write(f, r, out).recs = recs
        /\ Write(f, r, out).tail = tail
    BY <1>1, <2>1 DEF Files
  <2> QED BY <1>3, <2>2, <2>3
<1>4. CASE out # "none" /\ f.tail # "nl"
  <2>1. Write(f, r, out).exists = f.exists /\ Write(f, r, out).tail = "torn"
    BY <1>1, <1>4 DEF Write, Files
  <2> QED BY <2>1
<1> QED BY <1>2, <1>3, <1>4

(* One append, of an observation or of a rotation record. *)
LEMMA AppendCounts ==
  ASSUME CountInv, opened, ~failed, pc \in {"idle", "genesis"}, NEW r \in Records,
         AppendLocked(r)
  PROVE  Counted' /\ Present'
<1> DEFINE q == Seal(r, lastHash)
<1>0. /\ Shape(file) /\ Counted /\ Present /\ HandleAgrees
      /\ Len(file.recs) \in Nat /\ file.tail \in {"nl", "bare", "torn"}
  BY LenProperties DEF CountInv, ChainInv, TypeInv, Shape, Files
<1>1. q \in Records
  BY SealFacts DEF CountInv, ChainInv, TypeInv, TypeOK
<1>2. UNCHANGED << archives, opened, count >>
  BY DEF AppendLocked
<1>3. PICK out \in Outcomes :
        /\ file' = Write(file, q, out)
        /\ \/ out = "full" /\ pc' = "sync" /\ failed' = failed
           \/ pc' = "idle" /\ failed' = TRUE
  BY TearsAssumption DEF AppendLocked, Fail, Outcomes
<1> HIDE DEF q
<1>4. /\ file'.exists = file.exists
      /\ out = "full" => file'.tail # "bare"
      /\ (out = "full" /\ file'.tail = "nl") =>
           file.tail = "nl" /\ Len(file'.recs) = Len(file.recs) + 1
  BY <1>0, <1>1, <1>3, WriteCounts
<1>5. file.exists
  BY <1>0 DEF Present
<1>6. file.tail = "nl" => count = Len(file.recs)
  <2>1. pc = "genesis" => count = 0 /\ Len(file.recs) = 0
    BY <1>0 DEF Counted, HandleAgrees
  <2> QED BY <1>0, <2>1 DEF Counted
<1>7. Counted'
  BY <1>2, <1>3, <1>4, <1>6 DEF Counted
<1>8. Present'
  BY <1>0, <1>2, <1>4, <1>5 DEF Present
<1> QED BY <1>7, <1>8

(* What power loss leaves exists if the file did, and is no longer. *)
LEMMA CutPresent ==
  ASSUME NEW f, Shape(f), NEW g \in Cuts(f), ~f.exists => f.recs = << >>
  PROVE  g.exists = f.exists /\ (~g.exists => g.recs = << >>)
<1>1. /\ f \in Files /\ f.recs \in Seq(Records) /\ f.synced \in Nat /\ Len(f.recs) \in Nat
  BY LenProperties DEF Shape, Files
<1>2. CASE g = f
  BY <1>2
<1>3. CASE g # f
  <2>1. PICK n \in f.synced..Len(f.recs), tail \in {"nl", "torn", "bare"} : g = CutTo(f, n, tail)
    BY <1>1, <1>3 DEF Cuts
  <2>2. g = [f EXCEPT !.recs = SubSeq(f.recs, 1, n), !.tail = tail]
    BY <2>1 DEF CutTo
  <2>3. g.exists = f.exists /\ g.recs = SubSeq(f.recs, 1, n)
    BY <1>1, <2>2 DEF Files
  <2>4. f.recs = << >> => SubSeq(f.recs, 1, n) = << >>
    <3>1. f.recs = << >> => n = 0
      BY <1>1
    <3> QED BY <1>1, <3>1, EmptySeq, VerifyPrefix
  <2> QED BY <2>3, <2>4
<1> QED BY <1>2, <1>3

(* Leaving a call or the process, what it remembered does not matter. *)
LEMMA GoneCounts ==
  ASSUME CountInv, UNCHANGED << file, archives >>, pc' = "idle",
         failed' = TRUE \/ opened' = FALSE
  PROVE  Counted' /\ Present'
BY DEF CountInv, Counted, Present

(* Nothing is counted and nothing there at the start. *)
LEMMA CountInit == Init => CountInv
<1> SUFFICES ASSUME Init PROVE CountInv
  OBVIOUS
<1>1. NoFile.recs = << >>
  BY DEF NoFile
<1> QED BY <1>1, InitChain DEF Init, CountInv, Counted, Present

(* Every step of a shell that exits on a store error keeps the count. *)
LEMMA CountStep ==
  ASSUME ~RetrySameStore
  PROVE  CountInv /\ [Next]_vars => CountInv'
<1> SUFFICES ASSUME CountInv, [Next]_vars PROVE CountInv'
  OBVIOUS
<1>0. /\ ChainInv /\ TypeInv /\ TypeOK /\ HandleAgrees /\ Counted /\ Present
      /\ Shape(file) /\ (\A t \in Times : Shape(archives[t]))
      /\ Len(file.recs) \in Nat /\ file.tail \in {"nl", "bare", "torn"}
  BY LenProperties DEF CountInv, ChainInv, TypeInv, Shape, Files
<1>t. ChainInv'
  BY <1>0, NextChain
<1> SUFFICES Counted' /\ Present'
  BY <1>t DEF CountInv
<1>1. CASE UNCHANGED vars
  BY <1>0, <1>1 DEF vars, Counted, Present
<1>2. CASE Open
  <2>1. file'.recs = file.recs /\ file'.tail = file.tail /\ file'.exists
    BY <1>0, <1>2 DEF Open, Shape, Files
  <2>2. pc = "idle" /\ pc' = "idle" /\ count' = Len(file.recs) /\ archives' = archives
    BY <1>0, <1>2 DEF Open, HandleAgrees
  <2> QED BY <1>0, <2>1, <2>2 DEF Counted, Present
<1>3. CASE OpenFails
  <2>1. pc = "idle"
    BY <1>0, <1>3 DEF OpenFails, HandleAgrees
  <2> QED BY <1>3, <2>1, GoneCounts DEF OpenFails, disk
<1>4. CASE AppendRecord
  <2>1. Observed(nextId, now) \in Records
    BY <1>0, UnsealedType, TimesAreNat DEF TypeOK, NoHash, Hashes
  <2>2. ~failed /\ opened /\ pc = "idle" /\ AppendLocked(Observed(nextId, now))
    BY <1>4 DEF AppendRecord, MayCall
  <2> QED BY <2>1, <2>2, AppendCounts
<1>5. CASE SyncOk
  <2>1. /\ file'.recs = file.recs /\ file'.tail = file.tail /\ file'.exists = file.exists
        /\ archives' = archives
    BY <1>0, <1>5 DEF SyncOk, Shape, Files
  <2>2. opened /\ ~failed /\ pc = "sync" /\ pc' = "idle" /\ count' = count + 1
    BY <1>0, <1>5 DEF SyncOk, HandleAgrees
  <2> QED BY <1>0, <2>1, <2>2 DEF Counted, Present
<1>6. CASE SyncFails
  BY <1>6, GoneCounts DEF SyncFails, Fail, disk
<1>7. CASE RotateClose
  <2>1. opened /\ ~failed /\ pc = "idle" /\ UNCHANGED << file, archives, opened >>
    BY <1>7 DEF RotateClose, MayCall, disk
  <2>2. CASE Fail
    BY <2>1, <2>2, GoneCounts DEF Fail
  <2>3. CASE pc' = "rename" /\ UNCHANGED failed
    BY <1>0, <2>1, <2>3 DEF Counted, Present
  <2> QED BY <1>7, <2>2, <2>3 DEF RotateClose
<1>8. CASE RotateRename
  <2>1. CASE Fail /\ UNCHANGED disk
    BY <2>1, GoneCounts DEF Fail, disk
  <2>2. CASE /\ archives' = [archives EXCEPT ![rot.at] = file]
             /\ file' = NoFile /\ pc' = "reopen"
    <3>1. NoFile.recs = << >> /\ rot.at \in Times
      BY <1>0 DEF NoFile, TypeOK
    <3>2. \A t \in Times : archives'[t] = archives[t] \/ archives'[t] = file
      BY <1>0, <2>2, <3>1 DEF TypeOK
    <3> QED BY <1>0, <2>2, <3>1, <3>2 DEF Counted, Present
  <2> QED BY <1>8, <2>1, <2>2 DEF RotateRename
<1>9. CASE RotateReopen
  <2>1. archives' = archives
    BY <1>9 DEF RotateReopen
  <2>2. CASE Fail /\ UNCHANGED file
    BY <2>1, <2>2, GoneCounts DEF Fail
  <2>3. CASE /\ file' = [file EXCEPT !.exists = TRUE] /\ count' = NewChain.count
             /\ pc' = "genesis"
    <3>1. file'.exists /\ file'.recs = file.recs /\ count' = 0
      BY <1>0, <2>3 DEF Shape, Files, NewChain
    <3> QED BY <1>0, <2>1, <2>3, <3>1 DEF Counted, Present
  <2> QED BY <1>9, <2>2, <2>3 DEF RotateReopen
<1>10. CASE RotateGenesis
  <2> DEFINE r == Rotation(nextId, rot.at, rot.head, rot.n)
  <2>1. nextId \in Nat /\ rot.at \in Nat /\ rot.head \in Hashes /\ rot.n \in Nat
    BY <1>0, TimesAreNat DEF TypeOK
  <2>2. r \in Records
    BY <2>1, UnsealedType
  <2>3. pc = "genesis" /\ AppendLocked(r) /\ opened /\ ~failed
    BY <1>0, <1>10 DEF RotateGenesis, HandleAgrees
  <2> HIDE DEF r
  <2> QED BY <2>2, <2>3, AppendCounts
<1>11. CASE Close
  BY <1>11, GoneCounts DEF Close, disk
<1>12. CASE Crash
  BY <1>12, GoneCounts DEF Crash, ProcessGone, disk
<1>13. CASE PowerLoss
  <2>1. opened' = FALSE /\ pc' = "idle"
    BY <1>13 DEF PowerLoss, ProcessGone
  <2>2. Present'
    <3>1. CASE /\ \E f \in Cuts(file) : file' = f
               /\ \E t \in Times : \E f \in Cuts(archives[t]) :
                    archives' = [archives EXCEPT ![t] = f]
      <4>1. ~file'.exists => file'.recs = << >>
        BY <1>0, <3>1, CutPresent DEF Present
      <4>2. PICK t \in Times : \E f \in Cuts(archives[t]) :
              archives' = [archives EXCEPT ![t] = f]
        BY <3>1
      <4>3. PICK f \in Cuts(archives[t]) : archives' = [archives EXCEPT ![t] = f]
        BY <4>2
      <4>4. ~f.exists => f.recs = << >>
        BY <1>0, CutPresent DEF Present
      <4>5. \A u \in Times : archives'[u] = archives[u] \/ archives'[u] = f
        BY <1>0, <4>3 DEF TypeOK
      <4> QED BY <1>0, <2>1, <4>1, <4>4, <4>5 DEF Present
    <3>2. CASE /\ renamed # NoTime
               /\ \E f \in Cuts(archives[renamed]) : file' = f
               /\ archives' = [archives EXCEPT ![renamed] = NoFile]
      <4>1. renamed \in Times /\ NoFile.recs = << >>
        BY <1>0, <3>2 DEF TypeOK, NoFile
      <4>2. ~file'.exists => file'.recs = << >>
        BY <1>0, <3>2, <4>1, CutPresent DEF Present
      <4>3. \A u \in Times : archives'[u] = archives[u] \/ archives'[u] = NoFile
        BY <1>0, <3>2 DEF TypeOK
      <4> QED BY <1>0, <2>1, <4>1, <4>2, <4>3 DEF Present
    <3> QED BY <1>13, <3>1, <3>2 DEF PowerLoss
  <2> QED BY <2>1, <2>2 DEF Counted
<1>14. CASE Tick
  BY <1>0, <1>14 DEF Tick, disk, memory, Counted, Present
<1> QED
  BY <1>1, <1>2, <1>3, <1>4, <1>5, <1>6, <1>7, <1>8, <1>9, <1>10, <1>11, <1>12,
     <1>13, <1>14 DEF Next

(***************************************************************************)
(* Count is the number of records in the store, between any two calls of a *)
(* shell that exits on a store error and for every kind of failure: the    *)
(* bookkeeping after Sync, a rotation's reset and Open agree.              *)
(***************************************************************************)
THEOREM CountAlwaysExact ==
  ASSUME ~RetrySameStore
  PROVE  Spec => []CountExact
<1>1. Init => CountInv
  BY CountInit
<1>2. CountInv /\ [Next]_vars => CountInv'
  BY CountStep
<1>3. CountInv => CountExact
  BY DEF CountInv, Counted, CountExact, Readable
<1> QED BY <1>1, <1>2, <1>3, PTL DEF Spec
-----------------------------------------------------------------------------
(***************************************************************************)
(* No archive has a line that was cut short, in the shells that exit on a  *)
(* store error, until power is lost: what is renamed is the file of an     *)
(* object none of whose calls has failed, and whatever else is in the      *)
(* store, Open has decoded (Complete).                                     *)
(***************************************************************************)
THEOREM ArchivesAlwaysReadable ==
  ASSUME ~RetrySameStore, RotateAfter # 0, "bare" \notin Tears
  PROVE  Spec => []ArchivesReadable
<1> DEFINE Inv == KeptInv /\ ArchivesReadable
<1>1. Init => Inv
  BY KeptInit DEF Init, ArchivesReadable, NoFile
<1>2. KeptInv /\ ArchivesReadable /\ [Next]_vars => ArchivesReadable'
  <2> SUFFICES ASSUME KeptInv, ArchivesReadable, [Next]_vars PROVE ArchivesReadable'
    OBVIOUS
  <2>1. CASE RotateRename
    <3>1. file.tail = "nl"
      BY <2>1 DEF KeptInv, Complete, RotateRename
    <3>2. archives' = archives \/ archives' = [archives EXCEPT ![rot.at] = file]
      BY <2>1 DEF RotateRename, disk
    <3>3. \A t \in Times : archives'[t] = archives[t] \/ archives'[t] = file
      BY <3>2 DEF KeptInv, TypeInv, TypeOK
    <3>4. lost' = lost
      BY <2>1 DEF RotateRename
    <3> QED BY <3>1, <3>3, <3>4 DEF ArchivesReadable
  <2>2. CASE PowerLoss
    BY <2>2 DEF PowerLoss, ArchivesReadable
  <2>3. CASE ~RotateRename /\ ~PowerLoss
    <3>1. archives' = archives /\ lost' = lost
      BY <2>3 DEF Next, vars, Open, OpenFails, AppendRecord, RotateGenesis, AppendLocked, SyncOk,
         SyncFails, RotateClose, RotateReopen, Close, Crash, ProcessGone, Tick, disk
    <3> QED BY <3>1 DEF ArchivesReadable
  <2> QED BY <2>1, <2>2, <2>3
<1> QED BY <1>1, <1>2, KeptStep, PTL DEF Spec
-----------------------------------------------------------------------------
(* The archive of second t is a chain of n records with the given head. *)
Segment(t, head, n) ==
  /\ t \in Times
  /\ archives[t].exists
  /\ HeadHash(archives[t].recs) = head
  /\ Len(archives[t].recs) = n

LinksOf(f) == \A r \in Held(f) : r.kind = "rotation" => Segment(r.at, r.head, r.n)

(***************************************************************************)
(* The inductive invariant behind RotationLinks: what a rotation has noted *)
(* is what it archives, and has archived when it writes its record.        *)
(***************************************************************************)
Links ==
  /\ LinksOf(file) /\ \A t \in Times : LinksOf(archives[t])
  /\ pc = "rename" => rot.head = HeadHash(file.recs) /\ rot.n = Len(file.recs)
  /\ pc \in {"reopen", "genesis"} => Segment(rot.at, rot.head, rot.n)

(* Sealing changes the two hashes of a record only. *)
LEMMA SealKeeps ==
  ASSUME NEW r \in Records, NEW h
  PROVE  /\ Seal(r, h).kind = r.kind /\ Seal(r, h).at = r.at
         /\ Seal(r, h).head = r.head /\ Seal(r, h).n = r.n
BY DEF Seal, Records

(* A write adds the record to those of the file, or none. *)
LEMMA WriteHolds ==
  ASSUME NEW f, Shape(f), f.tail = "nl", NEW r \in Records,
         NEW out \in {"full", "none", "torn"}
  PROVE  /\ Write(f, r, out).recs \in {f.recs, Append(f.recs, r)}
         /\ Held(Write(f, r, out)) \subseteq Held(f) \cup {r}
<1>1. f \in Files /\ f.recs \in Seq(Records) /\ Len(f.recs) \in Nat
  BY LenProperties DEF Shape, Files
<1> DEFINE recs == Append(f.recs, r)
<1>2. /\ Len(recs) = Len(f.recs) + 1 /\ recs[Len(f.recs) + 1] = r
      /\ \A i \in 1..Len(f.recs) : recs[i] = f.recs[i]
  BY <1>1, AppendProperties
<1>3. CASE out # "full"
  <2>1. Write(f, r, out).recs = f.recs
    BY <1>1, <1>3 DEF Write, Files
  <2> QED BY <2>1 DEF Held
<1>4. CASE out = "full"
  <2>1. Write(f, r, out) = [f EXCEPT !.recs = recs, !.tail = "nl"]
    BY <1>4 DEF Write
  <2> HIDE DEF recs
  <2>2. Write(f, r, out).recs = recs
    BY <1>1, <2>1 DEF Files
  <2>3. {recs[i] : i \in 1..Len(recs)} \subseteq {f.recs[i] : i \in 1..Len(f.recs)} \cup {r}
    BY <1>1, <1>2
  <2> QED BY <2>2, <2>3 DEF Held, recs
<1> QED BY <1>3, <1>4

(* One append, of an observation or of a record of the rotation under way. *)
LEMMA AppendLinks ==
  ASSUME KeptInv, Links, "bare" \notin Tears, opened, ~failed, pc \in {"idle", "genesis"},
         NEW r \in Records, AppendLocked(r),
         r.kind = "rotation" => Segment(r.at, r.head, r.n)
  PROVE  Links'
<1> DEFINE q == Seal(r, lastHash)
<1>0. Shape(file) /\ file.tail = "nl"
  BY DEF KeptInv, TypeInv, Complete
<1>1. /\ q \in Records
      /\ q.kind = r.kind /\ q.at = r.at /\ q.head = r.head /\ q.n = r.n
  BY SealFacts, SealKeeps DEF KeptInv, TypeInv, TypeOK
<1>2. UNCHANGED archives /\ pc' \in {"idle", "sync"}
  BY DEF AppendLocked, Fail
<1>3. PICK out \in {"full", "none", "torn"} : file' = Write(file, q, out)
  BY TearsAssumption DEF AppendLocked
<1> HIDE DEF q
<1>4. Held(file') \subseteq Held(file) \cup {q}
  BY <1>0, <1>1, <1>3, WriteHolds
<1>5. \A s \in Held(file') : s.kind = "rotation" => Segment(s.at, s.head, s.n)
  BY <1>1, <1>4 DEF Links, LinksOf
<1> QED BY <1>2, <1>5 DEF Links, LinksOf, Segment, Held

(* There are no rotation records at the start. *)
LEMMA LinksInit == Init => Links
<1>1. Held(NoFile) = {}
  BY DEF Held, NoFile
<1> QED BY <1>1 DEF Init, Links, LinksOf

(* Every step but power loss keeps the links. *)
LEMMA LinksStep ==
  ASSUME ~RetrySameStore, RotateAfter # 0, "bare" \notin Tears
  PROVE  CountInv /\ KeptInv /\ Links /\ [Next]_vars /\ ~PowerLoss => Links'
<1> SUFFICES ASSUME CountInv, KeptInv, Links, [Next]_vars, ~PowerLoss PROVE Links'
  OBVIOUS
<1>0. /\ TypeInv /\ TypeOK /\ Complete /\ HandleAgrees /\ Counted /\ Present
      /\ Shape(file) /\ file \in Files
  BY DEF KeptInv, TypeInv, Shape, CountInv, ChainInv
<1>1. CASE UNCHANGED << file, archives >> /\ (pc' = "idle" \/ UNCHANGED << pc, rot >>)
  BY <1>1 DEF Links, LinksOf, Segment, Held
<1>2. CASE Open \/ SyncOk
  <2>1. file'.recs = file.recs /\ archives' = archives
    BY <1>0, <1>2 DEF Open, SyncOk, Files
  <2>2. pc' = "idle"
    BY <1>0, <1>2 DEF Open, SyncOk, HandleAgrees
  <2> QED BY <2>1, <2>2 DEF Links, LinksOf, Segment, Held
<1>3. CASE AppendRecord
  <2> DEFINE r == Observed(nextId, now)
  <2>1. r \in Records /\ r.kind = "observed"
    BY <1>0, UnsealedType, TimesAreNat DEF TypeOK, Observed, NoHash, Hashes
  <2>2. ~failed /\ opened /\ pc = "idle" /\ AppendLocked(r)
    BY <1>3 DEF AppendRecord, MayCall
  <2> HIDE DEF r
  <2> QED BY <2>1, <2>2, AppendLinks
<1>4. CASE RotateGenesis
  <2> DEFINE r == Rotation(nextId, rot.at, rot.head, rot.n)
  <2>1. nextId \in Nat /\ rot.at \in Nat /\ rot.head \in Hashes /\ rot.n \in Nat
    BY <1>0, TimesAreNat DEF TypeOK
  <2>2. r \in Records /\ r.at = rot.at /\ r.head = rot.head /\ r.n = rot.n
    BY <2>1, UnsealedType DEF Rotation
  <2>3. pc = "genesis" /\ AppendLocked(r) /\ opened /\ ~failed
    BY <1>0, <1>4 DEF RotateGenesis, HandleAgrees
  <2> HIDE DEF r
  <2>4. Segment(r.at, r.head, r.n)
    BY <2>2, <2>3 DEF Links
  <2> QED BY <2>2, <2>3, <2>4, AppendLinks
<1>5. CASE RotateClose
  <2>1. UNCHANGED << file, archives >>
    BY <1>5 DEF RotateClose, disk
  <2>2. CASE Fail
    BY <1>1, <2>1, <2>2 DEF Fail
  <2>3. CASE rot' = [at |-> now, head |-> lastHash, n |-> count] /\ pc' = "rename"
    <3>1. opened /\ ~failed /\ pc = "idle" /\ file.tail = "nl"
      BY <1>0, <1>5 DEF RotateClose, MayCall, Complete
    <3>2. lastHash = HeadHash(file.recs) /\ count = Len(file.recs)
      BY <1>0, <3>1 DEF HandleAgrees, Counted
    <3>3. rot'.head = HeadHash(file.recs) /\ rot'.n = Len(file.recs)
      BY <2>3, <3>2
    <3> QED BY <2>1, <2>3, <3>3 DEF Links, LinksOf, Segment, Held
  <2> QED BY <1>5, <2>2, <2>3 DEF RotateClose
<1>6. CASE RotateRename
  <2>1. CASE Fail /\ UNCHANGED disk
    BY <1>1, <2>1 DEF Fail, disk
  <2>2. CASE /\ archives' = [archives EXCEPT ![rot.at] = file]
             /\ file' = NoFile /\ pc' = "reopen"
    <3>1. pc = "rename" /\ opened /\ ~failed /\ file.exists /\ UNCHANGED rot
      BY <1>0, <1>6 DEF RotateRename, HandleAgrees, Present
    <3>2. /\ rot.at \in Times /\ ~archives[rot.at].exists
          /\ archives'[rot.at] = file /\ \A t \in Times \ {rot.at} : archives'[t] = archives[t]
      BY <1>0, <2>2, <3>1, RenameFresh DEF Taken, TypeOK
    <3>3. \A t, head, n : Segment(t, head, n) => Segment(t, head, n)'
      BY <3>2 DEF Segment
    <3>4. Segment(rot.at, rot.head, rot.n)'
      BY <3>1, <3>2 DEF Links, Segment
    <3>5. LinksOf(file)' /\ \A t \in Times : LinksOf(archives[t])'
      <4>1. Held(NoFile) = {}
        BY DEF Held, NoFile
      <4>2. \A f : LinksOf(f) => \A r \in Held(f) :
              r.kind = "rotation" => Segment(r.at, r.head, r.n)'
        BY <3>3 DEF LinksOf
      <4>3. LinksOf(file)'
        BY <2>2, <4>1 DEF LinksOf
      <4>4. \A t \in Times : LinksOf(archives[t])'
        <5> SUFFICES ASSUME NEW t \in Times, NEW r \in Held(archives'[t]), r.kind = "rotation"
                     PROVE  Segment(r.at, r.head, r.n)'
          BY DEF LinksOf, Held
        <5>1. CASE t = rot.at
          BY <3>2, <4>2, <5>1 DEF Links
        <5>2. CASE t # rot.at
          BY <3>2, <4>2, <5>2 DEF Links
        <5> QED BY <5>1, <5>2
      <4> QED BY <4>3, <4>4
    <3> QED BY <2>2, <3>4, <3>5 DEF Links
  <2> QED BY <1>6, <2>1, <2>2 DEF RotateRename
<1>7. CASE RotateReopen
  <2>1. archives' = archives /\ rot' = rot /\ pc = "reopen"
    BY <1>7 DEF RotateReopen
  <2>2. file'.recs = file.recs /\ pc' \in {"idle", "genesis"}
    BY <1>0, <1>7 DEF RotateReopen, Fail, Files
  <2> QED BY <2>1, <2>2 DEF Links, LinksOf, Segment, Held
<1>8. OpenFails => pc' = pc /\ rot' = rot
  BY DEF OpenFails
<1> QED
  BY <1>1, <1>2, <1>3, <1>4, <1>5, <1>6, <1>7, <1>8 DEF Next, vars, OpenFails, SyncFails,
     Fail, Close, Crash, ProcessGone, Tick, disk

(* Nothing but power loss loses power. *)
LEMMA PowerKept == [Next]_vars /\ ~PowerLoss => lost' = lost
BY DEF Next, vars, Open, OpenFails, AppendRecord, RotateGenesis, AppendLocked, SyncOk, SyncFails,
   RotateClose, RotateRename, RotateReopen, Close, Crash, Tick

(***************************************************************************)
(* A rotation record says what it follows: the archive it names exists,    *)
(* ends with the hash and has the number of records the record gives, in   *)
(* the shells that exit on a store error, until power is lost.             *)
(***************************************************************************)
THEOREM RotationAlwaysLinks ==
  ASSUME ~RetrySameStore, RotateAfter # 0, "bare" \notin Tears
  PROVE  Spec => []RotationLinks
<1> DEFINE Inv == CountInv /\ KeptInv /\ (~lost => Links)
<1>1. Init => Inv
  BY CountInit, KeptInit, LinksInit
<1>2. Inv /\ [Next]_vars => Inv'
  <2> SUFFICES ASSUME Inv, [Next]_vars PROVE Inv'
    OBVIOUS
  <2>1. CountInv' /\ KeptInv'
    BY CountStep, KeptStep
  <2>2. CASE PowerLoss
    BY <2>1, <2>2 DEF PowerLoss
  <2>3. CASE ~PowerLoss
    BY <2>1, <2>3, PowerKept, LinksStep
  <2> QED BY <2>2, <2>3
<1>3. Inv => RotationLinks
  BY DEF Links, LinksOf, Segment, RotationLinks
<1> QED BY <1>1, <1>2, <1>3, PTL DEF Spec
-----------------------------------------------------------------------------
(***************************************************************************)
(* That the store implements the log of EvidenceLog.  What a rotation      *)
(* archives holds something.                                               *)
(***************************************************************************)
Loaded == pc = "rename" => file.recs # << >>

LogInv == CountInv /\ KeptInv /\ Loaded

(* A rotation starts only when the count is not zero. *)
LEMMA LoadedStep ==
  ASSUME ~RetrySameStore
  PROVE  LogInv /\ [Next]_vars => Loaded'
<1> SUFFICES ASSUME LogInv, [Next]_vars, pc' = "rename" PROVE file'.recs # << >>
  BY DEF Loaded
<1>1. CASE RotateClose
  <2>1. opened /\ pc = "idle" /\ ~failed /\ count # 0 /\ file' = file
    BY <1>1 DEF RotateClose, MayCall, Due, disk
  <2>2. file.tail = "nl"
    BY <2>1 DEF LogInv, KeptInv, Complete
  <2>3. count = Len(file.recs)
    BY <2>1, <2>2 DEF LogInv, CountInv, Counted
  <2> QED BY <2>1, <2>3
<1>2. CASE ~RotateClose
  <2>1. pc = "rename" /\ file' = file
    BY <1>2 DEF Next, vars, Open, OpenFails, AppendRecord, AppendLocked, SyncOk, SyncFails,
       RotateRename, RotateReopen, RotateGenesis, Close, Crash, PowerLoss, ProcessGone,
       Tick, Fail, disk, LogInv, KeptInv, Complete
  <2> QED BY <2>1 DEF LogInv, Loaded
<1> QED BY <1>1, <1>2

(* What leaves every line and every acknowledgement leaves the log. *)
LEMMA LogQuiet ==
  ASSUME file'.recs = file.recs, \A t \in Times : archives'[t].recs = archives[t].recs,
         acked' = acked
  PROVE  UNCHANGED Log!vars
BY DEF Log!vars

(* A sequence is a prefix of itself, and of what is appended to it. *)
LEMMA PrefixFacts ==
  ASSUME NEW s \in Seq(Records), NEW r \in Records
  PROVE  Log!PrefixOf(s, s) /\ Log!PrefixOf(s, Append(s, r))
<1> DEFINE t == Append(s, r)
           n == Len(s)
<1>1. n \in Nat /\ SubSeq(s, 1, n) = s
  BY LenProperties
<1>2. t \in Seq(Records) /\ Len(t) = n + 1 /\ \A i \in 1..n : t[i] = s[i]
  BY AppendProperties
<1> HIDE DEF t
<1>3. /\ SubSeq(t, 1, n) \in Seq(Records) /\ Len(SubSeq(t, 1, n)) = n
      /\ \A i \in 1..n : SubSeq(t, 1, n)[i] = t[i]
  BY <1>1, <1>2, VerifyPrefix
<1>4. SubSeq(t, 1, n) = s
  BY <1>2, <1>3, SeqEqual
<1>5. n \in 0..Len(t) /\ n \in 0..Len(s)
  BY <1>1, <1>2
<1> QED BY <1>1, <1>4, <1>5 DEF Log!PrefixOf, t

(* An append extends the log when its record is complete in the file. *)
LEMMA LogExtends ==
  ASSUME LogInv, "bare" \notin Tears, ChainIntact', opened, ~failed,
         pc \in {"idle", "genesis"}, NEW r \in Records, AppendLocked(r)
  PROVE  [Log!Next]_(Log!vars)
<1> DEFINE q == Seal(r, lastHash)
<1>0. Shape(file) /\ file.tail = "nl" /\ file.recs \in Seq(Records)
  BY DEF LogInv, KeptInv, TypeInv, Complete, Shape, Files
<1>1. q \in Records
  BY SealFacts DEF LogInv, KeptInv, TypeInv, TypeOK
<1>2. UNCHANGED << archives, acked >>
  BY DEF AppendLocked
<1>3. PICK out \in {"full", "none", "torn"} : file' = Write(file, q, out)
  BY TearsAssumption DEF AppendLocked
<1> HIDE DEF q
<1>4. file'.recs \in {file.recs, Append(file.recs, q)}
  BY <1>0, <1>1, <1>3, WriteHolds
<1>5. CASE file'.recs = file.recs
  BY <1>2, <1>5, LogQuiet
<1>6. CASE file'.recs = Append(file.recs, q)
  <2>1. Len(file'.recs) = Len(file.recs) + 1
    BY <1>0, <1>1, <1>6, AppendProperties
  <2>2. Log!PrefixOf(file.recs, file'.recs)
    BY <1>0, <1>1, <1>6, PrefixFacts
  <2>3. Log!Verify(file'.recs)
    <3>1. Verify(file'.recs)
      BY DEF ChainIntact
    <3> QED BY <3>1 DEF Verify, PrevOf, computeHash, AtomOf, NoHash,
            Log!Verify, Log!PrevOf, Log!computeHash, Log!AtomOf, Log!NoHash
  <2>4. Log!Extend
    BY <1>2, <2>1, <2>2, <2>3 DEF Log!Extend
  <2> QED BY <2>4 DEF Log!Next
<1> QED BY <1>4, <1>5, <1>6

(* Power loss loses what the log may lose. *)
LEMMA LogLoses ==
  ASSUME LogInv, PowerLoss, AckedKept'
  PROVE  Log!Lose
<1>0. /\ Shape(file) /\ (\A t \in Times : Shape(archives[t])) /\ TypeOK
  BY DEF LogInv, KeptInv, TypeInv
<1>1. \A f : Shape(f) => \A g \in Cuts(f) : Log!PrefixOf(g.recs, f.recs)
  <2> SUFFICES ASSUME NEW f, Shape(f), NEW g \in Cuts(f)
               PROVE  Log!PrefixOf(g.recs, f.recs)
    OBVIOUS
  <2>1. PICK n \in f.synced..Len(f.recs) : g.recs = SubSeq(f.recs, 1, n)
    BY CutFacts
  <2>2. f.synced \in Nat /\ Len(f.recs) \in Nat
    BY LenProperties DEF Shape, Files
  <2>3. n \in 0..Len(f.recs)
    BY <2>2
  <2> QED BY <2>1, <2>3 DEF Log!PrefixOf
<1>2. \A f : Shape(f) => Log!PrefixOf(f.recs, f.recs)
  BY <1>1 DEF Cuts
<1>3. acked' = acked
  BY DEF PowerLoss, ProcessGone
<1>4. acked \subseteq Log!Stored'
  BY <1>3 DEF AckedKept, Held, Log!Stored, Log!RecordsOf
<1>5. CASE /\ \E f \in Cuts(file) : file' = f
           /\ \E u \in Times : \E f \in Cuts(archives[u]) :
                archives' = [archives EXCEPT ![u] = f]
  <2>1. Log!PrefixOf(file'.recs, file.recs)
    BY <1>0, <1>1, <1>5
  <2>2. PICK u \in Times : \E f \in Cuts(archives[u]) : archives' = [archives EXCEPT ![u] = f]
    BY <1>5
  <2>3. \A t \in Times : Log!PrefixOf(archives'[t].recs, archives[t].recs)
    BY <1>0, <1>1, <1>2, <2>2 DEF TypeOK
  <2> QED BY <1>3, <1>4, <2>1, <2>3 DEF Log!Lose
<1>6. CASE /\ renamed # NoTime
           /\ \E f \in Cuts(archives[renamed]) : file' = f
           /\ archives' = [archives EXCEPT ![renamed] = NoFile]
  <2>1. renamed \in Times
    BY <1>0, <1>6 DEF TypeOK
  <2>2. Log!PrefixOf(file'.recs, archives[renamed].recs)
    BY <1>0, <1>1, <1>6, <2>1
  <2>3. NoFile.recs = << >>
    BY DEF NoFile
  <2>4. \A t \in Times : archives'[t].recs = IF t = renamed THEN << >> ELSE archives[t].recs
    BY <1>0, <1>6, <2>1, <2>3 DEF TypeOK
  <2>5. [t \in Times |-> archives'[t].recs]
          = [[t \in Times |-> archives[t].recs] EXCEPT ![renamed] = << >>]
    BY <2>1, <2>4
  <2> QED BY <1>3, <1>4, <2>1, <2>2, <2>5 DEF Log!Lose
<1> QED BY <1>5, <1>6 DEF PowerLoss

(* Every step of the store is a step of the log, or leaves the log alone. *)
LEMMA LogStep ==
  ASSUME ~RetrySameStore, RotateAfter # 0, "bare" \notin Tears
  PROVE  LogInv /\ LogInv' /\ AckedKept' /\ [Next]_vars => [Log!Next]_(Log!vars)
<1> SUFFICES ASSUME LogInv, LogInv', AckedKept', [Next]_vars
             PROVE  [Log!Next]_(Log!vars)
  OBVIOUS
<1>0. /\ TypeInv /\ TypeOK /\ Complete /\ Present /\ ChainIntact'
      /\ Shape(file) /\ file \in Files /\ file.recs \in Seq(Records)
  BY DEF LogInv, KeptInv, CountInv, ChainInv, TypeInv, Shape, Files
<1>1. CASE UNCHANGED << file, archives, acked >>
  BY <1>1, LogQuiet
<1>2. CASE Open \/ RotateReopen
  <2>1. file'.recs = file.recs /\ archives' = archives /\ acked' = acked
    BY <1>0, <1>2 DEF Open, RotateReopen, Files
  <2> QED BY <2>1, LogQuiet
<1>3. CASE AppendRecord
  <2>1. Observed(nextId, now) \in Records
    BY <1>0, UnsealedType, TimesAreNat DEF TypeOK, NoHash, Hashes
  <2>2. ~failed /\ opened /\ pc = "idle" /\ AppendLocked(Observed(nextId, now))
    BY <1>3 DEF AppendRecord, MayCall
  <2> QED BY <1>0, <2>1, <2>2, LogExtends
<1>4. CASE RotateGenesis
  <2> DEFINE r == Rotation(nextId, rot.at, rot.head, rot.n)
  <2>1. nextId \in Nat /\ rot.at \in Nat /\ rot.head \in Hashes /\ rot.n \in Nat
    BY <1>0, TimesAreNat DEF TypeOK
  <2>2. r \in Records
    BY <2>1, UnsealedType
  <2>3. pc = "genesis" /\ AppendLocked(r) /\ opened /\ ~failed
    BY <1>0, <1>4 DEF RotateGenesis, Complete
  <2> HIDE DEF r
  <2> QED BY <1>0, <2>2, <2>3, LogExtends
<1>5. CASE SyncOk
  <2>1. file'.recs = file.recs /\ archives' = archives /\ acked' = acked \cup {pend}
    BY <1>0, <1>5 DEF SyncOk, Files
  <2>2. file.recs # << >> /\ file.recs[Len(file.recs)] = pend
    BY <1>0, <1>5 DEF SyncOk, Complete
  <2>3. Log!Acknowledge
    BY <2>1, <2>2 DEF Log!Acknowledge
  <2> QED BY <2>3 DEF Log!Next
<1>6. CASE RotateRename
  <2>1. CASE UNCHANGED disk
    BY <1>6, <2>1, LogQuiet DEF disk, RotateRename
  <2>2. CASE archives' = [archives EXCEPT ![rot.at] = file] /\ file' = NoFile
    <3>1. pc = "rename" /\ acked' = acked /\ file.recs # << >>
      BY <1>6 DEF RotateRename, LogInv, Loaded
    <3>2. rot.at \in Times /\ ~archives[rot.at].exists
      BY <3>1, RenameFresh DEF Taken, LogInv
    <3>3. archives[rot.at].recs = << >> /\ NoFile.recs = << >>
      BY <1>0, <3>2 DEF Present, NoFile
    <3>4. \A t \in Times : archives'[t].recs = IF t = rot.at THEN file.recs ELSE archives[t].recs
      BY <1>0, <2>2, <3>2 DEF TypeOK
    <3>5. [t \in Times |-> archives'[t].recs]
            = [[t \in Times |-> archives[t].recs] EXCEPT ![rot.at] = file.recs]
      BY <3>2, <3>4
    <3>6. \E t \in Times : Log!Archive(t)
      BY <2>2, <3>1, <3>2, <3>3, <3>5 DEF Log!Archive
    <3> QED BY <3>6 DEF Log!Next
  <2> QED BY <1>6, <2>1, <2>2 DEF RotateRename
<1>7. CASE PowerLoss
  BY <1>7, LogLoses DEF Log!Next
<1> QED
  BY <1>1, <1>2, <1>3, <1>4, <1>5, <1>6, <1>7 DEF Next, vars, OpenFails, SyncFails,
     RotateClose, Close, Crash, Tick, disk, ProcessGone

(***************************************************************************)
(* In the shells that exit on a store error, store.go implements the log:  *)
(* with failed and partial writes, crashes and power loss between any two  *)
(* system calls, each step adds one linked record, acknowledges the last   *)
(* one, archives the whole segment under a free name, loses a tail nobody  *)
(* was told of - or changes nothing a reader of the log can see.           *)
(***************************************************************************)
THEOREM StoreImplementsLog ==
  ASSUME ~RetrySameStore, RotateAfter # 0, "bare" \notin Tears
  PROVE  Spec => ImplementsLog
<1>1. Init => LogInv
  BY CountInit, KeptInit DEF LogInv, Init, Loaded
<1>2. LogInv /\ [Next]_vars => LogInv'
  BY CountStep, KeptStep, LoadedStep DEF LogInv
<1>3. Init => Log!Init
  BY DEF Init, Log!Init, NoFile
<1>4. LogInv /\ LogInv' /\ AckedKept' /\ [Next]_vars => [Log!Next]_(Log!vars)
  BY LogStep
<1>5. Spec => []AckedKept
  BY AckedAlwaysKept
<1> QED BY <1>1, <1>2, <1>3, <1>4, <1>5, PTL DEF Spec, ImplementsLog, Log!Spec
=============================================================================
