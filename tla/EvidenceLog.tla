----------------------------- MODULE EvidenceLog -----------------------------
(***************************************************************************)
(* What the evidence store promises, without files, descriptors or system  *)
(* calls: a chain of records that grows at its end, segments set aside     *)
(* whole, and acknowledged records that nothing removes.                   *)
(***************************************************************************)
EXTENDS Evidence

CONSTANT Slots  \* the names a segment can be archived under

VARIABLES current,   \* the chain being written
          archived,  \* archived[t]: the segment archived under t, or << >>
          acked      \* the records reported as persisted

vars == << current, archived, acked >>

RecordsOf(s) == {s[i] : i \in 1..Len(s)}

Stored == RecordsOf(current) \cup UNION {RecordsOf(archived[t]) : t \in Slots}

PrefixOf(s, t) == \E n \in 0..Len(t) : s = SubSeq(t, 1, n)

Init ==
  /\ current = << >>
  /\ archived = [t \in Slots |-> << >>]
  /\ acked = {}

(* One record is added at the end, linked to the one before it. *)
Extend ==
  /\ Len(current') = Len(current) + 1
  /\ PrefixOf(current, current')
  /\ Verify(current')
  /\ UNCHANGED << archived, acked >>

(* The last record is reported as persisted. *)
Acknowledge ==
  /\ current # << >>
  /\ acked' = acked \cup {current[Len(current)]}
  /\ UNCHANGED << current, archived >>

(* The chain is set aside whole, under a name no segment has. *)
Archive(t) ==
  /\ current # << >>
  /\ archived[t] = << >>
  /\ archived' = [archived EXCEPT ![t] = current]
  /\ current' = << >>
  /\ UNCHANGED acked

(***************************************************************************)
(* Storage loses records at the end of segments, or an archiving as a      *)
(* whole, but none that was acknowledged.                                  *)
(***************************************************************************)
Lose ==
  /\ \/ /\ PrefixOf(current', current)
        /\ \A t \in Slots : PrefixOf(archived'[t], archived[t])
     \/ \E t \in Slots : /\ PrefixOf(current', archived[t])
                         /\ archived' = [archived EXCEPT ![t] = << >>]
  /\ acked \subseteq Stored'
  /\ UNCHANGED acked

Next ==
  \/ Extend
  \/ Acknowledge
  \/ \E t \in Slots : Archive(t)
  \/ Lose

Spec == Init /\ [][Next]_vars
=============================================================================
