----------------------------- MODULE ChainAudit -----------------------------
(***************************************************************************)
(* A chain is sealed record by record; an auditor holds a copy of it that  *)
(* storage may have damaged, or that a repair has partly sealed anew, and  *)
(* runs evidence.Verify on it.  What may the auditor conclude?             *)
(***************************************************************************)
EXTENDS Evidence, SequencesExt

CONSTANTS MaxRecords,   \* records ever sealed
          MaxEdits      \* damages to the copy

ASSUME AuditBounds == MaxRecords \in Nat \ {0} /\ MaxEdits \in Nat

VARIABLES lastHash,  \* Chain.lastHash of the writer
          sealed,    \* every record sealed, in order
          copy,      \* the records the auditor holds
          edits,     \* damages done to the copy so far
          resealed,  \* whether one of them recomputed a hash
          now

vars == << lastHash, sealed, copy, edits, resealed, now >>

Init ==
  /\ lastHash = NoHash
  /\ sealed = << >>
  /\ copy = << >>
  /\ edits = 0
  /\ resealed = FALSE
  /\ now = 0

(* Chain.Seal by the writer; a record that is sealed already is refused. *)
SealRecord(r) ==
  /\ Len(sealed) < MaxRecords
  /\ MaySeal(r)
  /\ sealed' = Append(sealed, Seal(r, lastHash))
  /\ lastHash' = Seal(r, lastHash).hash
  /\ UNCHANGED << copy, edits, resealed, now >>

(* Callers hand over new records, or by mistake one they sealed before. *)
SealAny ==
  \E r \in {Observed(Len(sealed) + 1, now), Rotation(Len(sealed) + 1, now, lastHash, 1)}
             \cup Range(sealed) :
    SealRecord(r)

(* The auditor reads the store, or an export of it. *)
TakeCopy ==
  /\ edits = 0
  /\ copy # sealed
  /\ copy' = sealed
  /\ UNCHANGED << lastHash, sealed, edits, resealed, now >>

Damage(new, reseal) ==
  /\ edits < MaxEdits
  /\ new # copy
  /\ copy' = new
  /\ edits' = edits + 1
  /\ resealed' = (resealed \/ reseal)
  /\ UNCHANGED << lastHash, sealed, now >>

DropRecord == \E i \in DOMAIN copy : Damage(RemoveAt(copy, i), FALSE)

SwapRecords ==
  \E i, j \in DOMAIN copy :
    Damage([copy EXCEPT ![i] = copy[j], ![j] = copy[i]], FALSE)

DuplicateRecord ==
  \E i, j \in DOMAIN copy : Damage(InsertAt(copy, j, copy[i]), FALSE)

(* Contents differing from r in one field of the hashed encoding. *)
Altered(r) ==
  {[r EXCEPT !.at = @ + 1], [r EXCEPT !.n = @ + 1], [r EXCEPT !.id = @ + 1]}
    \cup {[r EXCEPT !.prevHash = p] : p \in {NoHash, lastHash}}
    \cup {[r EXCEPT !.hash = p] : p \in {NoHash, lastHash}}

AlterRecord ==
  \E i \in DOMAIN copy : \E r \in Altered(copy[i]) :
    Damage([copy EXCEPT ![i] = r], FALSE)

(* A record altered and its own hash computed anew from what it holds. *)
ResealRecord ==
  \E i \in DOMAIN copy : \E r \in Altered(copy[i]) :
    Damage([copy EXCEPT ![i] = [r EXCEPT !.hash = computeHash(r)]], TRUE)

(* The following records sealed again onto their new predecessors. *)
ResealLink ==
  \E i \in DOMAIN copy :
    Damage([copy EXCEPT ![i] = Seal(copy[i], PrevOf(copy, i))], TRUE)

Tick ==
  /\ now = 0
  /\ now' = 1
  /\ UNCHANGED << lastHash, sealed, copy, edits, resealed >>

Next ==
  \/ SealAny
  \/ TakeCopy
  \/ DropRecord
  \/ SwapRecords
  \/ DuplicateRecord
  \/ AlterRecord
  \/ ResealRecord
  \/ ResealLink
  \/ Tick

Spec == Init /\ [][Next]_vars
-----------------------------------------------------------------------------
(***************************************************************************)
(* Chain.Seal and Verify agree: the history the writer sealed verifies,    *)
(* the chain stands at its head, and no record is in it twice.             *)
(***************************************************************************)
SealedVerifies ==
  /\ Verify(sealed)
  /\ lastHash = HeadHash(sealed)
  /\ \A i, j \in DOMAIN sealed : sealed[i].id = sealed[j].id => i = j

(***************************************************************************)
(* evidence.Verify detects damage: unless a hash was recomputed, a copy    *)
(* that verifies is the sealed history up to some record.                  *)
(***************************************************************************)
DamageDetected == (Verify(copy) /\ ~resealed) => IsPrefix(copy, sealed)

(***************************************************************************)
(* The head hash commits to the whole chain: a copy that verifies and ends *)
(* with the hash the writer stands at (previousChainHead in a rotation     *)
(* record, or the head in a signed bundle) is the sealed history, even     *)
(* when hashes in the copy were recomputed.                                *)
(***************************************************************************)
HeadCommits == (Verify(copy) /\ HeadHash(copy) = lastHash) => copy = sealed

(***************************************************************************)
(* docs/evidence-model.md:23: "Changing, removing, reordering or           *)
(* back-dating any record therefore breaks the chain at that point".       *)
(* As a step: a copy that verified no longer does once a record is gone.   *)
(***************************************************************************)
RemovalBreaksChain ==
  [][(DropRecord /\ Verify(copy)) => ~Verify(copy')]_vars
=============================================================================
