------------------------------ MODULE FileStore ------------------------------
(***************************************************************************)
(* The append-only evidence store of internal/core/store.go: a file of one *)
(* JSON record per line, the chain resumed from it, and rotation.  Every   *)
(* system call of Append and MaybeRotate is a step, because each may fail  *)
(* and the process or the machine may stop between any two of them.  The   *)
(* store's mutex is held over a whole call, so one call runs at a time and *)
(* `pc' says which system call it makes next.                              *)
(*                                                                         *)
(* The caller (scheduler.go) stamps records with the current time and      *)
(* rotates before it collects.  RetrySameStore tells the two kinds of      *)
(* shell apart: the daemon and the CLI exit on an error, while the         *)
(* operator keeps the store object in its cache and calls it again.        *)
(***************************************************************************)
EXTENDS Evidence

CONSTANTS MaxTime,         \* bound: the clock stops here
          MaxRecords,      \* bound: records ever handed to Append
          RotateAfter,     \* StoreRotateAfter; 0 is an age below one second
          RetrySameStore,  \* TRUE for the operator, FALSE for daemon and CLI
          Tears,           \* how a write that fails, or power loss, may
                           \* leave the last line: "torn" or "bare"
          PowerFails       \* whether the machine may lose power

ASSUME BoundsAssumption == MaxTime \in Nat /\ MaxRecords \in Nat
ASSUME RotateAssumption == RotateAfter \in Nat
ASSUME RetryAssumption  == RetrySameStore \in BOOLEAN /\ PowerFails \in BOOLEAN
ASSUME TearsAssumption  == Tears \subseteq {"torn", "bare"}

(***************************************************************************)
(* The clock counts seconds: the resolution of an archive's name.  -1 is   *)
(* the zero time.Time.                                                     *)
(***************************************************************************)
Times  == 0..MaxTime
NoTime == -1

(***************************************************************************)
(* A file: its complete lines, how the last line ends, and how many lines  *)
(* a successful Sync has made durable.  "bare": the last record lacks its  *)
(* newline, which bufio.Scanner accepts; "torn": some line does not decode.*)
(***************************************************************************)
Files  == [exists : BOOLEAN, recs : Seq(Records), tail : {"nl", "bare", "torn"},
           synced : Nat]
NoFile == [exists |-> FALSE, recs |-> << >>, tail |-> "nl", synced |-> 0]

NoRecord == Observed(0, 0)

VARIABLES
  file,      \* the file at path
  archives,  \* archives[t]: the file a rotation at second t renamed it to
  renamed,   \* the archive whose rename no Sync has committed yet
  opened,    \* a FileStore object exists
  fd,        \* s.f can be written to
  lastHash,  \* s.chain.lastHash
  count,     \* s.count
  firstAt,   \* s.firstAt
  pc,        \* the next system call of the call in progress
  pend,      \* the record being appended
  rot,       \* MaybeRotate's locals: now, prevHead, prevCount
  failed,    \* the last call on the store returned an error
  now,       \* wall clock
  nextId,    \* the next NewID
  acked,     \* ghost: the records Append returned nil for
  lost       \* ghost: the machine has lost power

disk   == << file, archives, renamed >>
memory == << opened, fd, lastHash, count, firstAt >>
vars   == << file, archives, renamed, opened, fd, lastHash, count, firstAt,
             pc, pend, rot, failed, now, nextId, acked, lost >>

TypeOK ==
  /\ file \in Files
  /\ archives \in [Times -> Files]
  /\ renamed \in Times \cup {NoTime}
  /\ opened \in BOOLEAN
  /\ fd \in BOOLEAN
  /\ lastHash \in Hashes
  /\ count \in Nat
  /\ firstAt \in Nat \cup {NoTime}
  /\ pc \in {"idle", "sync", "rename", "reopen", "genesis"}
  /\ pend \in Records
  /\ rot \in [at : Times, head : Hashes, n : Nat]
  /\ failed \in BOOLEAN
  /\ now \in Times
  /\ nextId \in Nat
  /\ acked \subseteq Records
  /\ lost \in BOOLEAN

Init ==
  /\ file = NoFile
  /\ archives = [t \in Times |-> NoFile]
  /\ renamed = NoTime
  /\ opened = FALSE
  /\ fd = FALSE
  /\ lastHash = NoHash
  /\ count = 0
  /\ firstAt = NoTime
  /\ pc = "idle"
  /\ pend = NoRecord
  /\ rot = [at |-> 0, head |-> NoHash, n |-> 0]
  /\ failed = FALSE
  /\ now = 0
  /\ nextId = 1
  /\ acked = {}
  /\ lost = FALSE
-----------------------------------------------------------------------------
(* Mutant: a line that does not decode is skipped. *)
ReadableAlways(f) == TRUE

(* readRecords succeeds: every line decodes (a missing file has none). *)
Readable(f) == f.tail # "torn"

Min2(a, b) == IF a <= b THEN a ELSE b

(***************************************************************************)
(* What s.f.Write leaves in the file when it stops after everything        *)
(* ("full"), before the newline ("bare"), inside the record ("torn") or    *)
(* before the first byte ("none").  Bytes written after a bare record      *)
(* continue its line, which then decodes to neither record.                *)
(***************************************************************************)
Write(f, r, out) ==
  CASE out = "none"    -> f
    [] out # "none" /\ f.tail = "nl" ->
         [f EXCEPT !.recs = IF out = "torn" THEN @ ELSE Append(@, r),
                   !.tail = IF out = "full" THEN "nl" ELSE out]
    [] out # "none" /\ f.tail = "bare" ->
         [f EXCEPT !.recs = SubSeq(@, 1, Len(@) - 1), !.tail = "torn",
                   !.synced = Min2(@, Len(f.recs) - 1)]
    [] OTHER           -> f

(* The call in progress returns an error. *)
Fail == pc' = "idle" /\ failed' = TRUE

(* Mutant: a shell that logs a failed append and goes on. *)
MayCallAgain == opened /\ pc = "idle"

(***************************************************************************)
(* The shells' use of the store: the operator calls it again after an      *)
(* error, the other shells do not.                                         *)
(***************************************************************************)
MayCall == opened /\ pc = "idle" /\ (RetrySameStore \/ ~failed)

(* firstAt of a store that holds recs: the oldest record's CollectedAt. *)
AgeStart(recs) == IF recs = << >> THEN NoTime ELSE recs[1].at

(***************************************************************************)
(* OpenFileStore: decode and verify the file, create it when missing, and  *)
(* resume the chain, the count and the age from what it holds.             *)
(***************************************************************************)
Open ==
  /\ ~opened
  /\ Readable(file)
  /\ Verify(file.recs)
  /\ file' = [file EXCEPT !.exists = TRUE]
  /\ opened' = TRUE
  /\ fd' = TRUE
  /\ lastHash' = HeadHash(file.recs)
  /\ count' = Len(file.recs)
  /\ firstAt' = AgeStart(file.recs)
  /\ failed' = FALSE
  /\ UNCHANGED << archives, renamed, pc, pend, rot, now, nextId, acked, lost >>

(* OpenFileStore refuses the file, or a system call of it fails. *)
OpenFails ==
  /\ ~opened
  /\ ~failed
  /\ failed' = TRUE
  /\ UNCHANGED << disk, memory, pc, pend, rot, now, nextId, acked, lost >>

(* Seal moves the chain to the record's hash before it is written. *)
ChainAfter(r) == r.hash

(***************************************************************************)
(* appendLocked up to the return of Write: seal, which moves the chain     *)
(* before anything is on disk, then write.                                 *)
(***************************************************************************)
AppendLocked(unsealed) ==
  LET r == Seal(unsealed, lastHash)
  IN  /\ MaySeal(unsealed)
      /\ pend' = r
      /\ nextId' = nextId + 1
      /\ \/ /\ fd
            /\ file' = Write(file, r, "full")
            /\ lastHash' = ChainAfter(r)
            /\ pc' = "sync"
            /\ UNCHANGED failed
         \/ \E out \in {"none"} \cup (IF fd THEN Tears ELSE {}) :
              /\ file' = Write(file, r, out)
              /\ lastHash' = ChainAfter(r)
              /\ Fail
      /\ UNCHANGED << archives, renamed, opened, fd, count, firstAt, rot, now,
                      acked, lost >>

(* Store.Append by the scheduler: a new record stamped with the time. *)
AppendRecord ==
  /\ MayCall
  /\ nextId <= MaxRecords
  /\ AppendLocked(Observed(nextId, now))

(* The rest of appendLocked: Sync, then the bookkeeping in memory. *)
SyncOk ==
  /\ pc = "sync"
  /\ pc' = "idle"
  /\ file' = [file EXCEPT !.synced = Len(file.recs)]
  /\ renamed' = NoTime
  /\ firstAt' = IF count = 0 THEN pend.at ELSE firstAt
  /\ count' = count + 1
  /\ acked' = acked \cup {pend}
  /\ failed' = FALSE
  /\ UNCHANGED << archives, opened, fd, lastHash, pend, rot, now, nextId, lost >>

SyncFails ==
  /\ pc = "sync"
  /\ Fail
  /\ UNCHANGED << disk, memory, pend, rot, now, nextId, acked, lost >>
-----------------------------------------------------------------------------
(* Mutant: the age is compared with <= instead of <, one second early. *)
DueEarly == count # 0 /\ firstAt # NoTime /\ now - firstAt >= RotateAfter - 1

(* MaybeRotate's early return is not taken: the oldest record is too old. *)
Due == count # 0 /\ firstAt # NoTime /\ now - firstAt >= RotateAfter

(***************************************************************************)
(* MaybeRotate, first part: note the head and the count, close the file.   *)
(* Close fails when an earlier rotation left the file closed, or with an   *)
(* I/O error; the descriptor is gone either way.                           *)
(***************************************************************************)
RotateClose ==
  /\ MayCall
  /\ Due
  /\ nextId <= MaxRecords
  /\ fd' = FALSE
  /\ \/ /\ fd
        /\ rot' = [at |-> now, head |-> lastHash, n |-> count]
        /\ pc' = "rename"
        /\ UNCHANGED failed
     \/ /\ Fail
        /\ UNCHANGED rot
  /\ UNCHANGED << disk, opened, lastHash, count, firstAt, pend, now, nextId, acked, lost >>

(* os.Rename to the archive of this second, replacing one already there. *)
RotateRename ==
  /\ pc = "rename"
  /\ \/ /\ archives' = [archives EXCEPT ![rot.at] = file]
        /\ file' = NoFile
        /\ renamed' = rot.at
        /\ pc' = "reopen"
        /\ UNCHANGED failed
     \/ /\ Fail
        /\ UNCHANGED disk
  /\ UNCHANGED << memory, pend, rot, now, nextId, acked, lost >>

(* Mutants: what a rotation forgets to reset. *)
KeepChain == [lastHash |-> lastHash, count |-> 0, firstAt |-> NoTime]
KeepCount == [lastHash |-> NoHash, count |-> count, firstAt |-> NoTime]
CountMinusOne == [lastHash |-> NoHash, count |-> -1, firstAt |-> NoTime]

(* The chain, count and age a rotation starts the new segment with. *)
NewChain == [lastHash |-> NoHash, count |-> 0, firstAt |-> NoTime]

(* os.OpenFile at the old path, and a new chain in memory. *)
RotateReopen ==
  /\ pc = "reopen"
  /\ \/ /\ file' = [file EXCEPT !.exists = TRUE]
        /\ fd' = TRUE
        /\ lastHash' = NewChain.lastHash
        /\ count' = NewChain.count
        /\ firstAt' = NewChain.firstAt
        /\ pc' = "genesis"
        /\ UNCHANGED failed
     \/ /\ Fail
        /\ UNCHANGED << file, fd, lastHash, count, firstAt >>
  /\ UNCHANGED << archives, renamed, opened, pend, rot, now, nextId, acked, lost >>

(* Mutant: head and count are read after they were reset. *)
RotateGenesisLate ==
  /\ pc = "genesis"
  /\ AppendLocked(Rotation(nextId, rot.at, lastHash, count))

(* MaybeRotate, last part: the rotation record is appended like any other. *)
RotateGenesis ==
  /\ pc = "genesis"
  /\ AppendLocked(Rotation(nextId, rot.at, rot.head, rot.n))

(* FileStore.Close, by Engine.Close of any shell. *)
Close ==
  /\ opened
  /\ pc = "idle"
  /\ opened' = FALSE
  /\ fd' = FALSE
  /\ lastHash' = NoHash
  /\ count' = 0
  /\ firstAt' = NoTime
  /\ failed' = FALSE
  /\ UNCHANGED << disk, pc, pend, rot, now, nextId, acked, lost >>
-----------------------------------------------------------------------------
(* The process is gone; nothing of its memory or of a call in progress. *)
ProcessGone ==
  /\ opened' = FALSE
  /\ fd' = FALSE
  /\ lastHash' = NoHash
  /\ count' = 0
  /\ firstAt' = NoTime
  /\ pc' = "idle"
  /\ failed' = FALSE
  /\ UNCHANGED << pend, rot, now, nextId, acked >>

(* The process is killed.  What it wrote is in the page cache and stays. *)
Crash ==
  /\ opened
  /\ ProcessGone
  /\ UNCHANGED << disk, lost >>

(* f cut back to its first n lines, the last of them ending as tail. *)
CutTo(f, n, tail) == [f EXCEPT !.recs = SubSeq(@, 1, n), !.tail = tail]

(***************************************************************************)
(* What power loss may leave of a file: every synced line, and of the      *)
(* others any part, up to a line boundary or inside a line (in Tears).     *)
(***************************************************************************)
Cuts(f) ==
  {f} \cup
  UNION {{CutTo(f, n, "nl")}
         \cup (IF "torn" \in Tears /\ n < Len(f.recs) THEN {CutTo(f, n, "torn")} ELSE {})
         \cup (IF "bare" \in Tears /\ n > f.synced THEN {CutTo(f, n, "bare")} ELSE {})
         : n \in f.synced..Len(f.recs)}

(***************************************************************************)
(* Power loss.  Lines no Sync covered may be lost, in the store and in an  *)
(* archive.  The file system commits directory changes with the next Sync, *)
(* so a rename since the last one may be undone, the new file with it.     *)
(***************************************************************************)
PowerLoss ==
  /\ PowerFails
  /\ ProcessGone
  /\ \/ /\ \E f \in Cuts(file) : file' = f
        /\ \E t \in Times : \E f \in Cuts(archives[t]) :
             archives' = [archives EXCEPT ![t] = f]
     \/ /\ renamed # NoTime
        /\ \E f \in Cuts(archives[renamed]) : file' = f
        /\ archives' = [archives EXCEPT ![renamed] = NoFile]
  /\ renamed' = NoTime
  /\ lost' = TRUE

Tick ==
  /\ now < MaxTime
  /\ now' = now + 1
  /\ UNCHANGED << disk, memory, pc, pend, rot, failed, nextId, acked, lost >>

Next ==
  \/ Open \/ OpenFails
  \/ AppendRecord \/ SyncOk \/ SyncFails
  \/ RotateClose \/ RotateRename \/ RotateReopen \/ RotateGenesis
  \/ Close
  \/ Crash \/ PowerLoss
  \/ Tick

Spec == Init /\ [][Next]_vars
-----------------------------------------------------------------------------
(* The records of a file, as a set. *)
Held(f) == {f.recs[i] : i \in 1..Len(f.recs)}

(***************************************************************************)
(* Whatever fails or crashes, evidence.Verify accepts every line of the    *)
(* store and of each archive: Open resumed the chain where the file ends,  *)
(* and no partial append or rotation left a record with a wrong link.      *)
(***************************************************************************)
ChainIntact ==
  /\ Verify(file.recs)
  /\ \A t \in Times : Verify(archives[t].recs)

(***************************************************************************)
(* Store.Append "persists" a record: one it returned nil for stays in the  *)
(* store or in an archive through rotation, crash and power loss.          *)
(***************************************************************************)
AckedKept ==
  \A r \in acked : r \in Held(file) \/ \E t \in Times : r \in Held(archives[t])

(***************************************************************************)
(* store.go:19, "persists it", read as what it is persisted for: a record  *)
(* Append returned nil for is in a file that decodes.                      *)
(***************************************************************************)
AckedReadable ==
  \A r \in acked :
    \/ r \in Held(file) /\ Readable(file)
    \/ \E t \in Times : r \in Held(archives[t]) /\ Readable(archives[t])

(***************************************************************************)
(* A line cut short stays in the store it was written to.  An archive is   *)
(* what is left of a segment for auditors and nothing opens it again to    *)
(* notice; the shell that failed exits, and OpenFileStore refuses such a   *)
(* store, so no rotation ever archives one.  Power loss may cut an archive *)
(* that was renamed before a Sync.                                         *)
(***************************************************************************)
ArchivesReadable == ~lost => \A t \in Times : archives[t].tail = "nl"

(***************************************************************************)
(* MaybeRotate links segments: the archive a rotation record names exists, *)
(* ends with the hash it carries and has the number of records it says,    *)
(* unless the machine lost power before the archive's lines were synced.   *)
(***************************************************************************)
RotationLinks ==
  ~lost => \A f \in {file} \cup {archives[t] : t \in Times} : \A r \in Held(f) :
    r.kind = "rotation" =>
      /\ archives[r.at].exists
      /\ HeadHash(archives[r.at].recs) = r.head
      /\ Len(archives[r.at].recs) = r.n

(***************************************************************************)
(* docs/deployment.md:106: "the new chain opens with a rotation record":   *)
(* once something is archived, the store's first record is a rotation.     *)
(***************************************************************************)
OpensWithRotation ==
  (file.recs # << >> /\ \E t \in Times : archives[t].exists)
    => file.recs[1].kind = "rotation"

(***************************************************************************)
(* store.go:166, "Count returns the number of records currently in the     *)
(* store": true whenever the last call on the store succeeded.             *)
(***************************************************************************)
CountExact ==
  (opened /\ pc = "idle" /\ ~failed /\ Readable(file)) => count = Len(file.recs)

(***************************************************************************)
(* OpenFileStore refuses a store "that was tampered with while the process *)
(* was down" (store.go:44).  That it opens what the program itself left    *)
(* behind is not so: a line it cut short is refused, too.                  *)
(***************************************************************************)
Reopenable == ~opened => (Readable(file) /\ Verify(file.recs))

(***************************************************************************)
(* reconciler.go:89, "Store failures are fatal for the cycle but the       *)
(* policy stays active; surface and retry": the store a retry is made on   *)
(* still has an open file.                                                 *)
(***************************************************************************)
RetryHasFile == (opened /\ pc = "idle") => fd

(***************************************************************************)
(* MaybeRotate never archives over an archive: os.Rename replaces silently.*)
(***************************************************************************)
ArchivesKept ==
  [][\A t \in Times : archives[t].exists =>
       \/ archives'[t] = archives[t]
       \/ PowerLoss]_vars
=============================================================================
