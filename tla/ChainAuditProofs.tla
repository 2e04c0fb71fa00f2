--------------------------- MODULE ChainAuditProofs ---------------------------
(***************************************************************************)
(* Proofs about the hash chain and about ChainAudit, for histories of      *)
(* every length and any number of damages: what the writer sealed          *)
(* verifies, and what an auditor may conclude from a copy that does.       *)
(***************************************************************************)
EXTENDS ChainAudit, SequenceTheorems, WellFoundedInduction, TLAPS

(* Sealing a record yields a record. *)
LEMMA HashType ==
  ASSUME NEW r \in Records
  PROVE  computeHash(r) \in Hashes
<1>1. AtomOf(r) \in Atoms
  BY DEF Records, AtomOf, Atoms, Hashes
<1>2. << AtomOf(r) >> \in Seq(Atoms)
  BY <1>1
<1>3. r.prevHash \in Seq(Atoms) /\ r.head \in Seq(Atoms)
  BY DEF Records, Hashes
<1> QED
  BY <1>2, <1>3, ConcatProperties DEF computeHash, Hashes

(* The parts a hash can be taken apart into. *)
LEMMA HashParts ==
  ASSUME NEW r \in Records
  PROVE  LET h == computeHash(r)
             p == Len(r.prevHash)
             q == Len(r.head)
         IN  /\ Len(h) = p + q + 1
             /\ h[p + q + 1] = AtomOf(r)
             /\ \A i \in 1..p : h[i] = r.prevHash[i]
             /\ \A i \in 1..q : h[p + i] = r.head[i]
<1> DEFINE p == Len(r.prevHash)
           q == Len(r.head)
           a == << AtomOf(r) >>
           b == r.prevHash \o r.head
<1>1. r.prevHash \in Seq(Atoms) /\ r.head \in Seq(Atoms)
  BY DEF Records, Hashes
<1>2. AtomOf(r) \in Atoms
  BY DEF Records, AtomOf, Atoms, Hashes
<1>3. a \in Seq(Atoms) /\ Len(a) = 1 /\ a[1] = AtomOf(r)
  BY <1>2
<1>4. p \in Nat /\ q \in Nat
  BY <1>1, LenProperties
<1>5. /\ b \in Seq(Atoms)
      /\ Len(b) = p + q
      /\ \A i \in 1..(p + q) : b[i] = IF i <= p THEN r.prevHash[i] ELSE r.head[i - p]
  BY <1>1, ConcatProperties
<1>6. /\ Len(b \o a) = p + q + 1
      /\ \A i \in 1..(p + q + 1) : (b \o a)[i] = IF i <= p + q THEN b[i] ELSE a[i - (p + q)]
  <2> HIDE DEF b, a, p, q
  <2>1. /\ Len(b \o a) = Len(b) + Len(a)
        /\ \A i \in 1..(Len(b) + Len(a)) :
             (b \o a)[i] = IF i <= Len(b) THEN b[i] ELSE a[i - Len(b)]
    BY <1>3, <1>5, ConcatProperties
  <2> QED BY <2>1, <1>3, <1>4, <1>5
<1>7. computeHash(r) = b \o a
  BY DEF computeHash
<1>8. (b \o a)[p + q + 1] = AtomOf(r)
  <2> HIDE DEF b, p, q
  <2> QED BY <1>3, <1>4, <1>6
<1>9. \A i \in 1..p : (b \o a)[i] = r.prevHash[i]
  <2> HIDE DEF b, a, p, q
  <2> QED BY <1>4, <1>5, <1>6
<1>10. \A i \in 1..q : (b \o a)[p + i] = r.head[i]
  <2> HIDE DEF b, a, p, q
  <2> QED BY <1>4, <1>5, <1>6
<1> QED
  BY <1>6, <1>7, <1>8, <1>9, <1>10

(* A hash determines everything it covers: every field but the hash. *)
LEMMA HashInjective ==
  ASSUME NEW r \in Records, NEW s \in Records, computeHash(r) = computeHash(s)
  PROVE  /\ r.id = s.id /\ r.at = s.at /\ r.kind = s.kind /\ r.n = s.n
         /\ r.head = s.head
         /\ r.prevHash = s.prevHash
<1> DEFINE h == computeHash(r)
           p == Len(r.prevHash)
           q == Len(r.head)
           p2 == Len(s.prevHash)
           q2 == Len(s.head)
<1>1. /\ r.prevHash \in Seq(Atoms) /\ r.head \in Seq(Atoms)
      /\ s.prevHash \in Seq(Atoms) /\ s.head \in Seq(Atoms)
  BY DEF Records, Hashes
<1>2. p \in Nat /\ q \in Nat /\ p2 \in Nat /\ q2 \in Nat
  BY <1>1, LenProperties
<1>3. /\ Len(h) = p + q + 1
      /\ h[p + q + 1] = AtomOf(r)
      /\ \A i \in 1..p : h[i] = r.prevHash[i]
      /\ \A i \in 1..q : h[p + i] = r.head[i]
  BY HashParts
<1>4. /\ Len(h) = p2 + q2 + 1
      /\ h[p2 + q2 + 1] = AtomOf(s)
      /\ \A i \in 1..p2 : h[i] = s.prevHash[i]
      /\ \A i \in 1..q2 : h[p2 + i] = s.head[i]
  BY HashParts
<1>5. AtomOf(r) = AtomOf(s)
  <2> HIDE DEF h, p, q, p2, q2
  <2> QED BY <1>2, <1>3, <1>4
<1>6. r.id = s.id /\ r.at = s.at /\ r.kind = s.kind /\ r.n = s.n /\ p = p2
  BY <1>5 DEF AtomOf
<1>7. q = q2
  <2> HIDE DEF h, p, q, p2, q2
  <2> QED BY <1>2, <1>3, <1>4, <1>6
<1>8. r.prevHash = s.prevHash
  <2>1. \A i \in 1..p : r.prevHash[i] = s.prevHash[i]
    <3> HIDE DEF h, p, q, p2, q2
    <3> QED BY <1>3, <1>4, <1>6
  <2> QED BY <2>1, <1>1, <1>6, SeqEqual
<1>9. r.head = s.head
  <2>1. \A i \in 1..q : r.head[i] = s.head[i]
    <3> HIDE DEF h, p, q, p2, q2
    <3> QED BY <1>3, <1>4, <1>6, <1>7
  <2> QED BY <2>1, <1>1, <1>7, SeqEqual
<1> QED
  BY <1>6, <1>8, <1>9
-----------------------------------------------------------------------------
(* Every non-empty set of naturals has a least element. *)
LEMMA LeastNat ==
  ASSUME NEW T, T \subseteq Nat, T # {}
  PROVE  \E m \in T : \A k \in T : m <= k
<1> DEFINE R == OpToRel(<, Nat)
<1>1. IsWellFoundedOn(R, Nat)
  BY NatLessThanWellFounded
<1>2. \E m \in T : \A k \in T : ~(<< k, m >> \in R)
  <2> HIDE DEF R
  <2> QED BY <1>1, WFMin
<1>3. PICK m \in T : \A k \in T : ~(<< k, m >> \in R)
  BY <1>2
<1>4. ASSUME NEW k \in T
      PROVE  m <= k
  <2>1. k \in Nat /\ m \in Nat
    OBVIOUS
  <2>2. ~(<< k, m >> \in R)
    BY <1>3
  <2>3. ~(k < m)
    BY <2>1, <2>2 DEF OpToRel
  <2> QED BY <2>1, <2>3
<1> QED
  BY <1>4

(* Two records that verify and carry the same hash are the same record. *)
LEMMA SameHashSameRecord ==
  ASSUME NEW r \in Records, NEW s \in Records,
         r.hash = computeHash(r), s.hash = computeHash(s), r.hash = s.hash
  PROVE  r = s
<1>1. /\ r.id = s.id /\ r.at = s.at /\ r.kind = s.kind /\ r.n = s.n
      /\ r.head = s.head /\ r.prevHash = s.prevHash
  BY HashInjective
<1> QED
  BY <1>1 DEF Records

(* The hash of a record is never the empty one a genesis record links to. *)
LEMMA HashNotEmpty ==
  ASSUME NEW r \in Records
  PROVE  computeHash(r) # NoHash
<1> DEFINE p == Len(r.prevHash)
           q == Len(r.head)
           h == computeHash(r)
<1>1. r.prevHash \in Seq(Atoms) /\ r.head \in Seq(Atoms)
  BY DEF Records, Hashes
<1>2. p \in Nat /\ q \in Nat
  BY <1>1, LenProperties
<1>3. Len(h) = p + q + 1
  BY HashParts
<1>4. Len(NoHash) = 0
  BY DEF NoHash
<1> HIDE DEF p, q, h
<1>5. Len(h) # 0
  BY <1>2, <1>3
<1>6. h # NoHash
  BY <1>4, <1>5
<1> QED
  BY <1>6 DEF h

(***************************************************************************)
(* evidence.Verify and the head hash: two chains that both verify and end  *)
(* with the same hash are the same chain, record for record.  This is why  *)
(* a rotation record that carries previousChainHead commits to the whole   *)
(* archived segment, of whatever length.                                   *)
(***************************************************************************)
THEOREM HeadCommitsToChain ==
  ASSUME NEW r \in Seq(Records), NEW s \in Seq(Records),
         Verify(r), Verify(s), HeadHash(r) = HeadHash(s)
  PROVE  r = s
<1> DEFINE m == Len(r)
           n == Len(s)
           Bad == {k \in Nat : k < m /\ k < n /\ r[m - k] # s[n - k]}
<1>1. m \in Nat /\ n \in Nat
  BY LenProperties
<1>2. \A i \in 1..m : /\ r[i] \in Records
                      /\ r[i].hash = computeHash(r[i])
                      /\ r[i].prevHash = PrevOf(r, i)
  BY ElementOfSeq DEF Verify
<1>3. \A i \in 1..n : /\ s[i] \in Records
                      /\ s[i].hash = computeHash(s[i])
                      /\ s[i].prevHash = PrevOf(s, i)
  BY ElementOfSeq DEF Verify
<1> HIDE DEF m, n
<1>4. Bad = {}
  <2> SUFFICES ASSUME Bad # {} PROVE FALSE
    OBVIOUS
  <2>1. PICK k \in Bad : \A j \in Bad : k <= j
    <3>1. Bad \subseteq Nat
      OBVIOUS
    <3> HIDE DEF Bad
    <3> QED BY <3>1, LeastNat
  <2>2. /\ k \in Nat /\ k < m /\ k < n /\ r[m - k] # s[n - k]
        /\ m - k \in 1..m /\ n - k \in 1..n
    BY <1>1
  <2>3. r[m - k].hash = s[n - k].hash
    <3>1. CASE k = 0
      <4>1. r # << >> /\ s # << >>
        BY <2>2, <3>1, <1>1, EmptySeq DEF m, n
      <4> QED BY <4>1, <3>1, <1>1 DEF HeadHash, m, n
    <3>2. CASE k # 0
      <4>1. k - 1 \in Nat /\ ~(k <= k - 1) /\ k - 1 < m /\ k - 1 < n
        BY <1>1, <2>2, <3>2
      <4>2. k - 1 \notin Bad
        BY <4>1, <2>1
      <4>3. r[m - (k - 1)] = s[n - (k - 1)]
        BY <4>1, <4>2
      <4>4. /\ m - (k - 1) \in 1..m /\ m - (k - 1) # 1 /\ (m - (k - 1)) - 1 = m - k
            /\ n - (k - 1) \in 1..n /\ n - (k - 1) # 1 /\ (n - (k - 1)) - 1 = n - k
        BY <1>1, <2>2, <3>2
      <4>5. r[m - (k - 1)].prevHash = r[m - k].hash
        BY <4>4, <1>2 DEF PrevOf
      <4>6. s[n - (k - 1)].prevHash = s[n - k].hash
        BY <4>4, <1>3 DEF PrevOf
      <4> QED BY <4>3, <4>5, <4>6
    <3> QED BY <3>1, <3>2
  <2>4. r[m - k] = s[n - k]
    BY <1>2, <1>3, <2>2, <2>3, SameHashSameRecord
  <2> QED BY <2>2, <2>4
<1>5. \A k \in Nat : (k < m /\ k < n) => r[m - k] = s[n - k]
  BY <1>4
<1>6. ~(m < n)
  <2> SUFFICES ASSUME m < n PROVE FALSE
    OBVIOUS
  <2>1. CASE m = 0
    <3>1. HeadHash(r) = NoHash
      BY <2>1, EmptySeq DEF HeadHash, m
    <3>2. s # << >> /\ n \in 1..n /\ HeadHash(s) = s[n].hash
      BY <1>1, <2>1, EmptySeq DEF HeadHash, n
    <3> QED BY <3>1, <3>2, <1>3, HashNotEmpty
  <2>2. CASE m # 0
    <3>1. r[1] = s[n - (m - 1)]
      <4>1. m - 1 \in Nat /\ m - 1 < m /\ m - 1 < n /\ m - (m - 1) = 1
        BY <1>1, <2>2
      <4> QED BY <4>1, <1>5
    <3>2. /\ 1 \in 1..m
          /\ n - (m - 1) \in 1..n /\ n - (m - 1) # 1 /\ (n - (m - 1)) - 1 \in 1..n
      BY <1>1, <2>2
    <3>3. r[1].prevHash = NoHash
      BY <1>2, <3>2 DEF PrevOf
    <3>4. s[n - (m - 1)].prevHash = s[(n - (m - 1)) - 1].hash
      BY <1>3, <3>2 DEF PrevOf
    <3>5. s[(n - (m - 1)) - 1].hash # NoHash
      BY <1>3, <3>2, HashNotEmpty
    <3> QED BY <3>1, <3>3, <3>4, <3>5
  <2> QED BY <2>1, <2>2
<1>7. ~(n < m)
  <2> SUFFICES ASSUME n < m PROVE FALSE
    OBVIOUS
  <2>1. CASE n = 0
    <3>1. HeadHash(s) = NoHash
      BY <2>1, EmptySeq DEF HeadHash, n
    <3>2. r # << >> /\ m \in 1..m /\ HeadHash(r) = r[m].hash
      BY <1>1, <2>1, EmptySeq DEF HeadHash, m
    <3> QED BY <3>1, <3>2, <1>2, HashNotEmpty
  <2>2. CASE n # 0
    <3>1. r[m - (n - 1)] = s[1]
      <4>1. n - 1 \in Nat /\ n - 1 < m /\ n - 1 < n /\ n - (n - 1) = 1
        BY <1>1, <2>2
      <4> QED BY <4>1, <1>5
    <3>2. /\ 1 \in 1..n
          /\ m - (n - 1) \in 1..m /\ m - (n - 1) # 1 /\ (m - (n - 1)) - 1 \in 1..m
      BY <1>1, <2>2
    <3>3. s[1].prevHash = NoHash
      BY <1>3, <3>2 DEF PrevOf
    <3>4. r[m - (n - 1)].prevHash = r[(m - (n - 1)) - 1].hash
      BY <1>2, <3>2 DEF PrevOf
    <3>5. r[(m - (n - 1)) - 1].hash # NoHash
      BY <1>2, <3>2, HashNotEmpty
    <3> QED BY <3>1, <3>3, <3>4, <3>5
  <2> QED BY <2>1, <2>2
<1>8. m = n
  BY <1>1, <1>6, <1>7
<1>9. \A i \in 1..m : r[i] = s[i]
  <2> SUFFICES ASSUME NEW i \in 1..m PROVE r[i] = s[i]
    OBVIOUS
  <2>1. m - i \in Nat /\ m - i < m /\ m - (m - i) = i
    BY <1>1
  <2> QED BY <2>1, <1>5, <1>8
<1> QED
  BY <1>8, <1>9, SeqEqual DEF m, n
-----------------------------------------------------------------------------
(* Seal returns a record that is linked to lastHash and carries its hash. *)
LEMMA SealFacts ==
  ASSUME NEW r \in Records, NEW h \in Hashes
  PROVE  /\ Seal(r, h) \in Records
         /\ Seal(r, h).prevHash = h
         /\ Seal(r, h).hash = computeHash(Seal(r, h))
         /\ Seal(r, h).at = r.at
<1> DEFINE linked == [r EXCEPT !.prevHash = h]
<1>1. linked \in Records /\ linked.prevHash = h /\ linked.at = r.at
  BY DEF Records
<1>2. computeHash(linked) \in Hashes
  BY <1>1, HashType
<1>3. \A x : computeHash([linked EXCEPT !.hash = x]) = computeHash(linked)
  BY <1>1 DEF computeHash, AtomOf, Records
<1>4. Seal(r, h) = [linked EXCEPT !.hash = computeHash(linked)]
  BY DEF Seal
<1> HIDE DEF linked
<1>5. /\ [linked EXCEPT !.hash = computeHash(linked)] \in Records
      /\ [linked EXCEPT !.hash = computeHash(linked)].prevHash = linked.prevHash
      /\ [linked EXCEPT !.hash = computeHash(linked)].at = linked.at
      /\ [linked EXCEPT !.hash = computeHash(linked)].hash = computeHash(linked)
  BY <1>1, <1>2 DEF Records
<1> QED
  BY <1>1, <1>3, <1>4, <1>5

(* A chain that verifies still does when a linked record is appended. *)
LEMMA VerifyAppend ==
  ASSUME NEW s \in Seq(Records), NEW r \in Records, Verify(s),
         r.prevHash = HeadHash(s), r.hash = computeHash(r)
  PROVE  /\ Append(s, r) \in Seq(Records)
         /\ Verify(Append(s, r))
         /\ HeadHash(Append(s, r)) = r.hash
<1> DEFINE t == Append(s, r)
           n == Len(s)
<1>1. /\ t \in Seq(Records) /\ t # << >> /\ Len(t) = n + 1 /\ t[n + 1] = r
      /\ \A i \in 1..n : t[i] = s[i]
  BY AppendProperties
<1>2. n \in Nat
  BY LenProperties
<1>3. HeadHash(t) = r.hash
  <2> HIDE DEF t
  <2> QED BY <1>1 DEF HeadHash
<1>4. ASSUME NEW i \in 1..(n + 1)
      PROVE  t[i].prevHash = PrevOf(t, i) /\ t[i].hash = computeHash(t[i])
  <2> HIDE DEF t
  <2>1. CASE i = n + 1
    <3>1. CASE n = 0
      <4>1. s = << >>
        BY <3>1, EmptySeq
      <4> QED BY <1>1, <2>1, <3>1, <4>1 DEF PrevOf, HeadHash
    <3>2. CASE n # 0
      <4>1. s # << >> /\ n \in 1..n /\ i # 1 /\ i - 1 = n
        BY <1>2, <2>1, <3>2, EmptySeq
      <4> QED BY <1>1, <2>1, <4>1 DEF PrevOf, HeadHash
    <3> QED BY <3>1, <3>2
  <2>2. CASE i # n + 1
    <3>1. i \in 1..n /\ (i # 1 => i - 1 \in 1..n)
      BY <1>2, <2>2
    <3>2. s[i].prevHash = PrevOf(s, i) /\ s[i].hash = computeHash(s[i])
      BY <3>1 DEF Verify
    <3> QED BY <1>1, <3>1, <3>2 DEF PrevOf
  <2> QED BY <2>1, <2>2
<1> QED
  BY <1>1, <1>3, <1>4 DEF Verify

(* So does every prefix of it. *)
LEMMA VerifyPrefix ==
  ASSUME NEW s \in Seq(Records), NEW n \in Nat, n <= Len(s)
  PROVE  /\ SubSeq(s, 1, n) \in Seq(Records)
         /\ Len(SubSeq(s, 1, n)) = n
         /\ \A i \in 1..n : SubSeq(s, 1, n)[i] = s[i]
         /\ Verify(s) => Verify(SubSeq(s, 1, n))
<1> DEFINE t == SubSeq(s, 1, n)
<1>0. Len(s) \in Nat
  BY LenProperties
<1>1. /\ t \in Seq(Records) /\ Len(t) = n
      /\ \A i \in 1..n : t[i] = s[i]
  BY <1>0
<1> HIDE DEF t
<1>2. ASSUME Verify(s), NEW i \in 1..n
      PROVE  t[i].prevHash = PrevOf(t, i) /\ t[i].hash = computeHash(t[i])
  <2>1. i \in 1..Len(s) /\ (i # 1 => i - 1 \in 1..n)
    BY <1>0
  <2>2. s[i].prevHash = PrevOf(s, i) /\ s[i].hash = computeHash(s[i])
    BY <1>2, <2>1 DEF Verify
  <2> QED BY <1>1, <2>1, <2>2 DEF PrevOf
<1>3. Verify(s) => Verify(t)
  BY <1>1, <1>2 DEF Verify
<1> QED
  BY <1>1, <1>3 DEF t

(* The head of a chain is a hash. *)
LEMMA HeadHashType ==
  ASSUME NEW s \in Seq(Records)
  PROVE  HeadHash(s) \in Hashes
<1>1. NoHash \in Hashes
  BY DEF NoHash, Hashes
<1>2. s # << >> => s[Len(s)] \in Records
  BY ElementOfSeq, EmptySeq, LenProperties
<1> QED
  BY <1>1, <1>2 DEF HeadHash, Records

(* The records the store hands to Seal are records. *)
LEMMA UnsealedType ==
  ASSUME NEW id \in Nat, NEW at \in Nat, NEW head \in Hashes, NEW n \in Nat
  PROVE  /\ Observed(id, at) \in Records
         /\ Rotation(id, at, head, n) \in Records
         /\ Rotation(id, at, head, n).at = at
<1>1. NoHash \in Hashes
  BY DEF NoHash, Hashes
<1> QED
  BY <1>1 DEF Observed, Rotation, Records, Kinds
-----------------------------------------------------------------------------
(* The types, with which the invariant begins. *)
TypeInv ==
  /\ lastHash \in Hashes
  /\ sealed \in Seq(Records)
  /\ copy \in Seq(Records)
  /\ edits \in Nat
  /\ resealed \in BOOLEAN
  /\ now \in Nat

(* The history: a chain in which the place of a record is its identifier. *)
History ==
  /\ Verify(sealed)
  /\ lastHash = HeadHash(sealed)
  /\ \A i \in 1..Len(sealed) : sealed[i].id = i

(* The hashes somebody sealed a record with, and the empty one. *)
SealedHashes == {NoHash} \cup {sealed[i].hash : i \in 1..Len(sealed)}

Genuine == {r \in Records : r.hash \in SealedHashes}

(***************************************************************************)
(* No damage invents a hash, unless it recomputes one: it can only move a  *)
(* hash about, with its record or from one record to another.              *)
(***************************************************************************)
Traceable == ~resealed => copy \in Seq(Genuine)

AuditInv == TypeInv /\ History /\ Traceable
-----------------------------------------------------------------------------
(* Removing an element leaves the others. *)
LEMMA RemoveType ==
  ASSUME NEW S, NEW s \in Seq(S), NEW i \in 1..Len(s)
  PROVE  RemoveAt(s, i) \in Seq(S)
<1>1. Len(s) \in Nat /\ \A k \in 1..Len(s) : s[k] \in S
  BY LenProperties, ElementOfSeq
<1>2. SubSeq(s, 1, i - 1) \in Seq(S)
  <2>1. \A k \in 1..(i - 1) : s[k] \in S
    BY <1>1
  <2> QED BY <1>1, <2>1, SubSeqProperties
<1>3. SubSeq(s, i + 1, Len(s)) \in Seq(S)
  <2>1. \A k \in (i + 1)..Len(s) : s[k] \in S
    BY <1>1
  <2> QED BY <1>1, <2>1, SubSeqProperties
<1> QED BY <1>2, <1>3, ConcatProperties DEF RemoveAt

(* Inserting an element adds nothing else. *)
LEMMA InsertType ==
  ASSUME NEW S, NEW s \in Seq(S), NEW i \in 1..Len(s), NEW e \in S
  PROVE  InsertAt(s, i, e) \in Seq(S)
<1>1. Len(s) \in Nat /\ \A k \in 1..Len(s) : s[k] \in S
  BY LenProperties, ElementOfSeq
<1>2. SubSeq(s, 1, i - 1) \in Seq(S)
  <2>1. \A k \in 1..(i - 1) : s[k] \in S
    BY <1>1
  <2> QED BY <1>1, <2>1, SubSeqProperties
<1>3. SubSeq(s, i, Len(s)) \in Seq(S)
  <2>1. \A k \in i..Len(s) : s[k] \in S
    BY <1>1
  <2> QED BY <1>1, <2>1, SubSeqProperties
<1>4. << e >> \in Seq(S)
  OBVIOUS
<1> QED BY <1>2, <1>3, <1>4, ConcatProperties DEF InsertAt

(* Replacing one or two elements keeps the type. *)
LEMMA ReplaceType ==
  ASSUME NEW S, NEW s \in Seq(S), NEW i \in 1..Len(s), NEW j \in 1..Len(s),
         NEW d \in S, NEW e \in S
  PROVE  [s EXCEPT ![i] = d] \in Seq(S) /\ [s EXCEPT ![i] = d, ![j] = e] \in Seq(S)
<1>1. s \in [1..Len(s) -> S] /\ Len(s) \in Nat
  BY LenProperties
<1>2. /\ [s EXCEPT ![i] = d] \in [1..Len(s) -> S]
      /\ [s EXCEPT ![i] = d, ![j] = e] \in [1..Len(s) -> S]
  BY <1>1
<1>3. [1..Len(s) -> S] \subseteq Seq(S)
  BY <1>1
<1> QED BY <1>2, <1>3

(* An altered record is a record, with its hash, none or the writer's. *)
LEMMA AlteredType ==
  ASSUME TypeInv, NEW r \in Records, NEW q \in Altered(r)
  PROVE  q \in Records /\ q.hash \in {r.hash, NoHash, lastHash}
<1>1. lastHash \in Hashes /\ NoHash \in Hashes
  BY DEF TypeInv, NoHash, Hashes
<1> QED BY <1>1 DEF Altered, Records

(* The writer stands at a hash it sealed, or at the empty one. *)
LEMMA HeadIsSealed == AuditInv => lastHash \in SealedHashes
<1> SUFFICES ASSUME AuditInv PROVE lastHash \in SealedHashes
  OBVIOUS
<1>1. Len(sealed) \in Nat /\ (sealed # << >> => Len(sealed) \in 1..Len(sealed))
  BY LenProperties, EmptySeq DEF AuditInv, TypeInv
<1> QED BY <1>1 DEF AuditInv, History, HeadHash, SealedHashes
-----------------------------------------------------------------------------
(* Whatever is handed to it, the writer seals only what is not sealed yet. *)
LEMMA SealKeepsHistory ==
  ASSUME AuditInv, SealAny
  PROVE  AuditInv'
<1>0. /\ lastHash \in Hashes /\ sealed \in Seq(Records) /\ Len(sealed) \in Nat
      /\ now \in Nat /\ Verify(sealed) /\ lastHash = HeadHash(sealed)
      /\ (\A i \in 1..Len(sealed) : sealed[i].id = i) /\ NoHash \in Hashes
  BY LenProperties DEF AuditInv, TypeInv, History, NoHash, Hashes
<1>1. PICK r \in {Observed(Len(sealed) + 1, now), Rotation(Len(sealed) + 1, now, lastHash, 1)}
                   \cup Range(sealed) : SealRecord(r)
  BY DEF SealAny
<1>2. r \notin Range(sealed)
  <2> SUFFICES ASSUME NEW i \in 1..Len(sealed), r = sealed[i] PROVE FALSE
    BY <1>0, LenProperties DEF Range
  <2>1. sealed[i] \in Records /\ sealed[i].hash = computeHash(sealed[i])
    BY <1>0, ElementOfSeq DEF Verify
  <2> QED BY <1>1, <2>1, HashNotEmpty DEF SealRecord, MaySeal
<1>3. r \in Records /\ r.id = Len(sealed) + 1
  <2>1. Len(sealed) + 1 \in Nat /\ 1 \in Nat
    BY <1>0
  <2>2. CASE r = Observed(Len(sealed) + 1, now)
    BY <1>0, <2>1, <2>2, UnsealedType DEF Observed
  <2>3. CASE r = Rotation(Len(sealed) + 1, now, lastHash, 1)
    BY <1>0, <2>1, <2>3, UnsealedType DEF Rotation
  <2> QED BY <1>1, <1>2, <2>2, <2>3
<1> DEFINE q == Seal(r, lastHash)
<1>4. q \in Records /\ q.prevHash = lastHash /\ q.hash = computeHash(q) /\ q.id = r.id
  <2>1. q.id = r.id
    BY <1>3 DEF Seal, Records
  <2> QED BY <1>0, <1>3, <2>1, SealFacts
<1>5. /\ sealed' = Append(sealed, q) /\ lastHash' = q.hash
      /\ UNCHANGED << copy, edits, resealed, now >>
  BY <1>1 DEF SealRecord
<1> HIDE DEF q
<1>6. sealed' \in Seq(Records) /\ Verify(sealed') /\ HeadHash(sealed') = q.hash
  BY <1>0, <1>4, <1>5, VerifyAppend
<1>7. /\ Len(sealed') = Len(sealed) + 1 /\ sealed'[Len(sealed) + 1] = q
      /\ \A i \in 1..Len(sealed) : sealed'[i] = sealed[i]
  BY <1>0, <1>4, <1>5, AppendProperties
<1>8. \A i \in 1..Len(sealed') : sealed'[i].id = i
  BY <1>0, <1>3, <1>4, <1>7
<1>9. TypeInv'
  BY <1>4, <1>5, <1>6 DEF AuditInv, TypeInv, Records
<1>10. Traceable'
  <2>1. \A i \in 1..Len(sealed) : i \in 1..Len(sealed') /\ sealed'[i].hash = sealed[i].hash
    BY <1>0, <1>7
  <2>2. SealedHashes \subseteq SealedHashes'
    BY <2>1 DEF SealedHashes
  <2>3. Genuine \subseteq Genuine'
    BY <2>2 DEF Genuine
  <2> QED BY <1>5, <2>3 DEF AuditInv, Traceable
<1> QED BY <1>5, <1>6, <1>8, <1>9, <1>10 DEF AuditInv, History

(* Damage to the copy leaves the writer alone. *)
LEMMA DamageKeeps ==
  ASSUME AuditInv, NEW new \in Seq(Records), NEW reseal \in BOOLEAN,
         reseal \/ copy \notin Seq(Genuine) \/ new \in Seq(Genuine), Damage(new, reseal)
  PROVE  AuditInv'
<1>1. /\ copy' = new /\ edits' = edits + 1 /\ resealed' = (resealed \/ reseal)
      /\ UNCHANGED << lastHash, sealed, now >>
  BY DEF Damage
<1>2. TypeInv'
  BY <1>1 DEF AuditInv, TypeInv
<1>3. History'
  BY <1>1 DEF AuditInv, History
<1>4. SealedHashes' = SealedHashes
  BY <1>1 DEF SealedHashes
<1>5. Genuine' = Genuine
  BY <1>4 DEF Genuine
<1>6. Traceable'
  BY <1>1, <1>5 DEF AuditInv, Traceable
<1> QED BY <1>2, <1>3, <1>6 DEF AuditInv

(* Initially nothing is sealed. *)
LEMMA AuditInit == Init => AuditInv
<1> SUFFICES ASSUME Init PROVE AuditInv
  OBVIOUS
<1>1. << >> \in Seq(Records) /\ << >> \in Seq(Genuine) /\ Len(<< >>) = 0 /\ NoHash \in Hashes
  BY DEF NoHash, Hashes
<1>2. sealed = << >> /\ copy = << >> /\ lastHash = NoHash
  BY DEF Init
<1>3. edits \in Nat /\ now \in Nat /\ resealed \in BOOLEAN
  BY DEF Init
<1>t. TypeInv
  BY <1>1, <1>2, <1>3 DEF TypeInv
<1>4. Verify(sealed) /\ lastHash = HeadHash(sealed) /\ Len(sealed) = 0
  BY <1>1, <1>2 DEF Verify, HeadHash
<1>5. History
  BY <1>4 DEF History
<1> QED BY <1>1, <1>2, <1>t, <1>5 DEF AuditInv, Traceable

(* Every step, of the writer or of whoever damages the copy. *)
LEMMA AuditStep == AuditInv /\ [Next]_vars => AuditInv'
<1> SUFFICES ASSUME AuditInv, [Next]_vars PROVE AuditInv'
  OBVIOUS
<1>0. /\ copy \in Seq(Records) /\ Len(copy) \in Nat /\ DOMAIN copy = 1..Len(copy)
      /\ \A i \in 1..Len(copy) : copy[i] \in Records
      /\ sealed \in Seq(Records) /\ Len(sealed) \in Nat /\ TypeInv
  BY LenProperties, ElementOfSeq DEF AuditInv, TypeInv
<1>1. CASE UNCHANGED vars
  BY <1>1 DEF vars, AuditInv, TypeInv, History, Traceable, Genuine, SealedHashes
<1>2. CASE SealAny
  BY <1>2, SealKeepsHistory
<1>3. CASE TakeCopy
  <2>1. copy' = sealed /\ UNCHANGED << lastHash, sealed, edits, resealed, now >>
    BY <1>3 DEF TakeCopy
  <2>2. sealed \in Seq(Genuine)
    <3>1. \A i \in 1..Len(sealed) : sealed[i] \in Genuine
      BY <1>0, ElementOfSeq DEF Genuine, SealedHashes
    <3>2. sealed \in [1..Len(sealed) -> Records]
      BY <1>0, LenProperties
    <3>3. sealed \in [1..Len(sealed) -> Genuine]
      BY <3>1, <3>2
    <3> QED BY <1>0, <3>3
  <2>3. Genuine' = Genuine
    BY <2>1 DEF Genuine, SealedHashes
  <2> QED BY <1>0, <2>1, <2>2, <2>3 DEF AuditInv, TypeInv, History, Traceable
<1>4. CASE DropRecord
  <2>1. PICK i \in 1..Len(copy) : Damage(RemoveAt(copy, i), FALSE)
    BY <1>0, <1>4 DEF DropRecord
  <2>2. RemoveAt(copy, i) \in Seq(Records)
    BY <1>0, RemoveType
  <2>3. copy \in Seq(Genuine) => RemoveAt(copy, i) \in Seq(Genuine)
    BY RemoveType
  <2> QED BY <2>1, <2>2, <2>3, DamageKeeps
<1>5. CASE SwapRecords
  <2>1. PICK i, j \in 1..Len(copy) :
          Damage([copy EXCEPT ![i] = copy[j], ![j] = copy[i]], FALSE)
    BY <1>0, <1>5 DEF SwapRecords
  <2>2. [copy EXCEPT ![i] = copy[j], ![j] = copy[i]] \in Seq(Records)
    BY <1>0, ReplaceType
  <2>3. copy \in Seq(Genuine) =>
          [copy EXCEPT ![i] = copy[j], ![j] = copy[i]] \in Seq(Genuine)
    BY ElementOfSeq, ReplaceType
  <2> QED BY <2>1, <2>2, <2>3, DamageKeeps
<1>6. CASE DuplicateRecord
  <2>1. PICK i, j \in 1..Len(copy) : Damage(InsertAt(copy, j, copy[i]), FALSE)
    BY <1>0, <1>6 DEF DuplicateRecord
  <2>2. InsertAt(copy, j, copy[i]) \in Seq(Records)
    BY <1>0, InsertType
  <2>3. copy \in Seq(Genuine) => InsertAt(copy, j, copy[i]) \in Seq(Genuine)
    BY ElementOfSeq, InsertType
  <2> QED BY <2>1, <2>2, <2>3, DamageKeeps
<1>7. CASE AlterRecord
  <2>1. PICK i \in 1..Len(copy) :
          \E r \in Altered(copy[i]) : Damage([copy EXCEPT ![i] = r], FALSE)
    BY <1>0, <1>7 DEF AlterRecord
  <2>2. PICK r \in Altered(copy[i]) : Damage([copy EXCEPT ![i] = r], FALSE)
    BY <2>1
  <2>3. r \in Records /\ r.hash \in {copy[i].hash, NoHash, lastHash}
    BY <1>0, AlteredType
  <2>4. [copy EXCEPT ![i] = r] \in Seq(Records)
    BY <1>0, <2>3, ReplaceType
  <2>5. copy \in Seq(Genuine) => [copy EXCEPT ![i] = r] \in Seq(Genuine)
    <3> SUFFICES ASSUME copy \in Seq(Genuine) PROVE [copy EXCEPT ![i] = r] \in Seq(Genuine)
      OBVIOUS
    <3>1. copy[i] \in Genuine
      BY ElementOfSeq
    <3>2. r \in Genuine
      BY <2>3, <3>1, HeadIsSealed DEF Genuine, SealedHashes
    <3> QED BY <3>2, ReplaceType
  <2> QED BY <2>2, <2>4, <2>5, DamageKeeps
<1>8. CASE ResealRecord
  <2>1. PICK i \in 1..Len(copy) : \E r \in Altered(copy[i]) :
          Damage([copy EXCEPT ![i] = [r EXCEPT !.hash = computeHash(r)]], TRUE)
    BY <1>0, <1>8 DEF ResealRecord
  <2>2. PICK r \in Altered(copy[i]) :
          Damage([copy EXCEPT ![i] = [r EXCEPT !.hash = computeHash(r)]], TRUE)
    BY <2>1
  <2>3. r \in Records
    BY <1>0, AlteredType
  <2>4. [r EXCEPT !.hash = computeHash(r)] \in Records
    <3>1. computeHash(r) \in Hashes
      BY <2>3, HashType
    <3> QED BY <2>3, <3>1 DEF Records
  <2>5. [copy EXCEPT ![i] = [r EXCEPT !.hash = computeHash(r)]] \in Seq(Records)
    BY <1>0, <2>4, ReplaceType
  <2> QED BY <2>2, <2>5, DamageKeeps
<1>9. CASE ResealLink
  <2>1. PICK i \in 1..Len(copy) :
          Damage([copy EXCEPT ![i] = Seal(copy[i], PrevOf(copy, i))], TRUE)
    BY <1>0, <1>9 DEF ResealLink
  <2>2. PrevOf(copy, i) \in Hashes
    <3>1. i # 1 => i - 1 \in 1..Len(copy)
      BY <1>0
    <3> QED BY <1>0, <3>1 DEF PrevOf, Records, NoHash, Hashes
  <2>3. Seal(copy[i], PrevOf(copy, i)) \in Records
    BY <1>0, <2>2, SealFacts
  <2>4. [copy EXCEPT ![i] = Seal(copy[i], PrevOf(copy, i))] \in Seq(Records)
    BY <1>0, <2>3, ReplaceType
  <2> QED BY <2>1, <2>4, DamageKeeps
<1>10. CASE Tick
  BY <1>10 DEF Tick, AuditInv, TypeInv, History, Traceable, Genuine, SealedHashes
<1> QED
  BY <1>1, <1>2, <1>3, <1>4, <1>5, <1>6, <1>7, <1>8, <1>9, <1>10 DEF Next
-----------------------------------------------------------------------------
(***************************************************************************)
(* Chain.Seal and evidence.Verify agree for every number of records: what  *)
(* was sealed verifies, the chain stands at its head, and a record that    *)
(* was sealed before is refused, so that none is in the history twice.     *)
(***************************************************************************)
THEOREM SealedAlwaysVerifies == Spec => []SealedVerifies
<1>1. AuditInv => SealedVerifies
  <2> SUFFICES ASSUME AuditInv PROVE SealedVerifies
    OBVIOUS
  <2>1. DOMAIN sealed = 1..Len(sealed)
    BY LenProperties DEF AuditInv, TypeInv
  <2> QED BY <2>1 DEF AuditInv, History, SealedVerifies
<1> QED BY <1>1, AuditInit, AuditStep, PTL DEF Spec

(***************************************************************************)
(* The head hash commits to the whole chain: whatever was done to a copy,  *)
(* hashes recomputed included, one that verifies and ends with the hash    *)
(* the writer stands at is the history, record for record.                 *)
(***************************************************************************)
THEOREM HeadAlwaysCommits == Spec => []HeadCommits
<1>1. AuditInv => HeadCommits
  BY HeadCommitsToChain DEF AuditInv, TypeInv, History, HeadCommits
<1> QED BY <1>1, AuditInit, AuditStep, PTL DEF Spec

(* A record of a copy that verifies, with a hash that was sealed, was sealed. *)
LEMMA GenuineWasSealed ==
  ASSUME AuditInv, ~resealed, Verify(copy), NEW i \in 1..Len(copy)
  PROVE  \E k \in 1..Len(sealed) : copy[i] = sealed[k]
<1>1. copy[i] \in Genuine /\ copy[i].hash = computeHash(copy[i])
  BY ElementOfSeq DEF AuditInv, Traceable, Verify
<1>2. copy[i] \in Records /\ copy[i].hash # NoHash
  BY <1>1, HashNotEmpty DEF Genuine
<1>3. PICK k \in 1..Len(sealed) : copy[i].hash = sealed[k].hash
  BY <1>1, <1>2 DEF Genuine, SealedHashes
<1>4. sealed[k] \in Records /\ sealed[k].hash = computeHash(sealed[k])
  BY ElementOfSeq DEF AuditInv, TypeInv, History, Verify
<1> QED BY <1>1, <1>2, <1>3, <1>4, SameHashSameRecord

(* And it was sealed in the place it has in the copy. *)
LEMMA GenuineInPlace ==
  ASSUME AuditInv, ~resealed, Verify(copy), NEW i \in 1..Len(copy)
  PROVE  i \in 1..Len(sealed) /\ copy[i] = sealed[i]
<1> DEFINE m == Len(copy)
           n == Len(sealed)
           Bad == {k \in 1..m : ~(k \in 1..n /\ copy[k] = sealed[k])}
<1>1. m \in Nat /\ n \in Nat
  BY LenProperties DEF AuditInv, TypeInv
<1>2. \A k \in 1..m : copy[k].prevHash = PrevOf(copy, k)
  BY DEF Verify
<1>3. \A k \in 1..n : /\ sealed[k].prevHash = PrevOf(sealed, k)
                      /\ sealed[k].id = k
                      /\ sealed[k] \in Records
                      /\ sealed[k].hash = computeHash(sealed[k])
                      /\ sealed[k].hash # NoHash
  BY ElementOfSeq, HashNotEmpty DEF AuditInv, TypeInv, History, Verify
<1>4. \A k \in 1..m : \E l \in 1..n : copy[k] = sealed[l]
  BY GenuineWasSealed
<1> HIDE DEF m, n
<1>5. Bad = {}
  <2> SUFFICES ASSUME Bad # {} PROVE FALSE
    OBVIOUS
  <2>1. PICK k \in Bad : \A j \in Bad : k <= j
    <3>1. Bad \subseteq Nat
      BY <1>1
    <3> HIDE DEF Bad
    <3> QED BY <3>1, LeastNat
  <2>2. k \in 1..m
    OBVIOUS
  <2>3. PICK l \in 1..n : copy[k] = sealed[l]
    BY <1>4, <2>2
  <2>4. PrevOf(copy, k) = PrevOf(sealed, l)
    BY <1>2, <1>3, <2>2, <2>3
  <2>5. CASE k = 1
    <3>1. l = 1
      <4> SUFFICES ASSUME l # 1 PROVE FALSE
        OBVIOUS
      <4>1. l - 1 \in 1..n
        BY <1>1
      <4> QED BY <1>3, <2>4, <2>5, <4>1 DEF PrevOf
    <3> QED BY <2>3, <2>5, <3>1
  <2>6. CASE k # 1
    <3>1. k - 1 \in 1..m /\ k - 1 \notin Bad
      BY <1>1, <2>1, <2>2, <2>6
    <3>2. k - 1 \in 1..n /\ copy[k - 1] = sealed[k - 1]
      BY <3>1
    <3>3. PrevOf(sealed, l) = sealed[k - 1].hash
      BY <2>4, <2>6, <3>2 DEF PrevOf
    <3>4. l # 1
      BY <1>3, <3>2, <3>3 DEF PrevOf
    <3>5. l - 1 \in 1..n /\ sealed[l - 1].hash = sealed[k - 1].hash
      BY <1>1, <3>3, <3>4 DEF PrevOf
    <3>6. sealed[l - 1] = sealed[k - 1]
      BY <1>3, <3>2, <3>5, SameHashSameRecord
    <3>7. l - 1 = k - 1
      BY <1>3, <3>2, <3>5, <3>6
    <3>8. l = k
      BY <1>1, <2>2, <3>7
    <3> QED BY <2>3, <3>8
  <2> QED BY <2>5, <2>6
<1>6. i \in 1..m
  BY DEF m
<1> QED BY <1>5, <1>6 DEF m, n

(***************************************************************************)
(* evidence.Verify detects damage: however often records of a copy were    *)
(* dropped, swapped, duplicated or altered, as long as no hash was         *)
(* recomputed a copy that verifies is the sealed history up to some point. *)
(***************************************************************************)
THEOREM DamageAlwaysDetected == Spec => []DamageDetected
<1>1. AuditInv => DamageDetected
  <2> SUFFICES ASSUME AuditInv, ~resealed, Verify(copy) PROVE IsPrefix(copy, sealed)
    BY DEF DamageDetected
  <2>1. /\ copy \in Seq(Records) /\ Len(copy) \in Nat
        /\ sealed \in Seq(Records) /\ Len(sealed) \in Nat
    BY LenProperties DEF AuditInv, TypeInv
  <2>2. \A i \in 1..Len(copy) : i \in 1..Len(sealed) /\ copy[i] = sealed[i]
    BY GenuineInPlace
  <2>3. Len(copy) <= Len(sealed)
    <3>1. CASE Len(copy) = 0
      BY <2>1, <3>1
    <3>2. CASE Len(copy) # 0
      BY <2>1, <2>2, <3>2
    <3> QED BY <3>1, <3>2
  <2>4. /\ SubSeq(copy, 1, Len(copy)) \in Seq(Records)
        /\ Len(SubSeq(copy, 1, Len(copy))) = Len(copy)
        /\ \A i \in 1..Len(copy) : SubSeq(copy, 1, Len(copy))[i] = copy[i]
    BY <2>1, VerifyPrefix
  <2>5. /\ SubSeq(sealed, 1, Len(copy)) \in Seq(Records)
        /\ Len(SubSeq(sealed, 1, Len(copy))) = Len(copy)
        /\ \A i \in 1..Len(copy) : SubSeq(sealed, 1, Len(copy))[i] = sealed[i]
    BY <2>1, <2>3, VerifyPrefix
  <2>6. SubSeq(copy, 1, Len(copy)) = SubSeq(sealed, 1, Len(copy))
    BY <2>2, <2>4, <2>5, SeqEqual
  <2> QED BY <2>3, <2>6 DEF IsPrefix
<1> QED BY <1>1, AuditInit, AuditStep, PTL DEF Spec
=============================================================================
