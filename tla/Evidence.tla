------------------------------ MODULE Evidence ------------------------------
(***************************************************************************)
(* The evidence record and its hash chain (evidence/record.go,             *)
(* evidence/chain.go).                                                     *)
(*                                                                         *)
(* SHA-256 over the canonical JSON of a record is modelled by the encoding *)
(* itself: a hash is a sequence of atoms, the previous hash followed by    *)
(* the content of the record.  The encoding is injective, which is the     *)
(* only fact about SHA-256 the design relies on.                           *)
(***************************************************************************)
EXTENDS Integers, Sequences

(***************************************************************************)
(* "observed" stands for every record a collector or the scheduler makes;  *)
(* "rotation" is the genesis record of a rotated chain.                    *)
(***************************************************************************)
Kinds == {"observed", "rotation"}

Atoms == [id : Nat, at : Nat, kind : Kinds, n : Nat, cut : Nat]

Hashes == Seq(Atoms)

(* The empty string: the prevHash of a genesis record. *)
NoHash == << >>

(***************************************************************************)
(* A record.  id stands for the random identifier and, being unique, for   *)
(* the payload.  head and n are the observation of a rotation record       *)
(* (previousChainHead and previousChainRecords); archivedTo is named after *)
(* the same instant as CollectedAt, so `at' stands for both.               *)
(***************************************************************************)
Records == [id : Nat, at : Nat, kind : Kinds, head : Hashes, n : Nat,
            prevHash : Hashes, hash : Hashes]

(* Records as their makers hand them over: not sealed, Hash = "". *)
Observed(id, at) ==
  [id |-> id, at |-> at, kind |-> "observed", head |-> NoHash, n |-> 0,
   prevHash |-> NoHash, hash |-> NoHash]

Rotation(id, at, head, n) ==
  [id |-> id, at |-> at, kind |-> "rotation", head |-> head, n |-> n,
   prevHash |-> NoHash, hash |-> NoHash]

AtomOf(r) ==
  [id |-> r.id, at |-> r.at, kind |-> r.kind, n |-> r.n, cut |-> Len(r.prevHash)]

(* Mutant: PrevHash is left out of the hashed encoding. *)
ComputeHashNoPrev(r) == r.head \o << [AtomOf(r) EXCEPT !.cut = 0] >>

(***************************************************************************)
(* The hash covers every field but Hash itself, PrevHash included: `cut'   *)
(* marks where PrevHash ends, so that the encoding can be taken apart.     *)
(***************************************************************************)
computeHash(r) == (r.prevHash \o r.head) \o << AtomOf(r) >>

(* Mutant: the record is hashed before PrevHash is set. *)
SealBeforeLink(r, lastHash) ==
  [r EXCEPT !.prevHash = lastHash, !.hash = computeHash(r)]

(***************************************************************************)
(* Chain.Seal: PrevHash, then the hash over it.  Its callers move the      *)
(* chain to the new hash (c.lastHash = h) and refuse a sealed record.      *)
(***************************************************************************)
Seal(r, lastHash) ==
  LET linked == [r EXCEPT !.prevHash = lastHash]
  IN  [linked EXCEPT !.hash = computeHash(linked)]

(* Seal's refusal: ErrAlreadySealed when Hash is not empty. *)
MaySeal(r) == r.hash = NoHash

(* The hash OpenFileStore resumes a chain from: the last record's. *)
HeadHash(recs) == IF recs = << >> THEN NoHash ELSE recs[Len(recs)].hash

(* The hash Verify expects record i to name as its predecessor's. *)
PrevOf(recs, i) == IF i = 1 THEN NoHash ELSE recs[i - 1].hash

(* Mutant: the hashes are not checked. *)
VerifyLinksOnly(recs) ==
  \A i \in 1..Len(recs) : recs[i].prevHash = PrevOf(recs, i)

(* Verify returns nil: every link and every stored hash is right. *)
Verify(recs) ==
  \A i \in 1..Len(recs) : /\ recs[i].prevHash = PrevOf(recs, i)
                          /\ recs[i].hash = computeHash(recs[i])
=============================================================================
