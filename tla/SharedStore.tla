---------------------------- MODULE SharedStore ----------------------------
(***************************************************************************)
(* Several processes (or engines of one operator) on one store path: a CLI *)
(* command beside the daemon, or two policies with the default path.  No   *)
(* lock keeps them apart.  Each has a FileStore of its own, whose open     *)
(* file is an inode: after another process has renamed the path it still   *)
(* appends to what is now an archive.  FileStore looks at the system calls *)
(* of one process more closely; here every call that is made succeeds.     *)
(***************************************************************************)
EXTENDS Integers, Sequences

CONSTANTS Procs,        \* the processes
          MaxTime,      \* bound: the clock, in seconds, stops here
          MaxRecords,   \* bound: records written before Append stops being called
          RotateAfter,  \* StoreRotateAfter
          LongRecords   \* whether a record may exceed the scanner's 16 MiB

ASSUME SharedStoreAssumption ==
  /\ MaxTime \in Nat /\ MaxRecords \in Nat /\ RotateAfter \in Nat
  /\ LongRecords \in BOOLEAN

Times == 0..MaxTime

VARIABLES
  inodes,    \* the contents of every file there ever was
  path,      \* the inode StorePath names, or 0
  arch,      \* arch[t]: the inode the archive name of second t names, or 0
  now,       \* wall clock
  nextId,    \* the next NewID
  pc,        \* pc[p]: what process p does next
  mem,       \* mem[p]: its FileStore object
  rot,       \* rot[p]: head and count that its rotation record will carry
  acked,     \* ghost: the records Append returned nil for
  stale,     \* ghost: another process has written since p read the store
  clash,     \* ghost: such a process has written all the same
  replaced,  \* ghost: a rename replaced an archive of the same second
  long       \* ghost: a record that is too long was appended

files == << inodes, path, arch >>
ghosts == << acked, stale, clash, replaced, long >>
vars == << inodes, path, arch, now, nextId, pc, mem, rot, acked, stale, clash,
           replaced, long >>

(* FileStore's fields: s.f, s.chain.lastHash, s.count, s.firstAt (-1: zero). *)
NoTime == -1
Closed == [fd |-> 0, head |-> 0, count |-> 0, firstAt |-> NoTime]
NoRotation == [from |-> 0, n |-> 0]

(***************************************************************************)
(* A record: its id stands for its hash, prev for PrevHash (0: genesis);   *)
(* n is the number of records a rotation record says it follows.           *)
(***************************************************************************)
Record(prev, from, n, big) ==
  [id |-> nextId, prev |-> prev, at |-> now, from |-> from, n |-> n, big |-> big]

Content(inode) == IF inode = 0 THEN << >> ELSE inodes[inode]
LastId(recs) == IF recs = << >> THEN 0 ELSE recs[Len(recs)].id

(* evidence.Verify *)
Linked(recs) ==
  \A i \in 1..Len(recs) : recs[i].prev = IF i = 1 THEN 0 ELSE recs[i - 1].id

(* readRecords returns no error. *)
Readable(recs) == \A i \in 1..Len(recs) : ~recs[i].big

Init ==
  /\ inodes = << >>
  /\ path = 0
  /\ arch = [t \in Times |-> 0]
  /\ now = 0
  /\ nextId = 1
  /\ pc = [p \in Procs |-> "down"]
  /\ mem = [p \in Procs |-> Closed]
  /\ rot = [p \in Procs |-> NoRotation]
  /\ acked = {}
  /\ stale = [p \in Procs |-> FALSE]
  /\ clash = FALSE
  /\ replaced = FALSE
  /\ long = FALSE
-----------------------------------------------------------------------------
(* Mutant: the chain is not resumed. *)
ResumedNot(recs) ==
  [fd |-> 0, head |-> 0, count |-> Len(recs),
   firstAt |-> IF recs = << >> THEN NoTime ELSE recs[1].at]

(* What OpenFileStore makes of the records it has read. *)
Resumed(recs) ==
  [fd |-> 0, head |-> LastId(recs), count |-> Len(recs),
   firstAt |-> IF recs = << >> THEN NoTime ELSE recs[1].at]

(* OpenFileStore's first half: read and verify, or refuse. *)
OpenRead(p) ==
  /\ pc[p] \in {"down", "refused"}
  /\ stale' = [stale EXCEPT ![p] = FALSE]
  /\ LET recs == Content(path)
     IN  IF Readable(recs) /\ Linked(recs)
         THEN /\ mem' = [mem EXCEPT ![p] = Resumed(recs)]
              /\ pc' = [pc EXCEPT ![p] = "create"]
         ELSE /\ pc' = [pc EXCEPT ![p] = "refused"]
              /\ UNCHANGED mem
  /\ UNCHANGED << files, now, nextId, rot, acked, clash, replaced, long >>

(* Mutant: the file is opened with O_TRUNC. *)
OpenPathTruncates ==
  /\ inodes' = IF path = 0 THEN Append(inodes, << >>) ELSE [inodes EXCEPT ![path] = << >>]
  /\ path' = IF path = 0 THEN Len(inodes) + 1 ELSE path

(* os.OpenFile with O_CREATE and O_APPEND. *)
OpenPath ==
  /\ inodes' = IF path = 0 THEN Append(inodes, << >>) ELSE inodes
  /\ path' = IF path = 0 THEN Len(inodes) + 1 ELSE path

(* OpenFileStore's second half. *)
OpenCreate(p) ==
  /\ pc[p] = "create"
  /\ OpenPath
  /\ mem' = [mem EXCEPT ![p].fd = path']
  /\ pc' = [pc EXCEPT ![p] = "idle"]
  /\ UNCHANGED << arch, now, nextId, rot, ghosts >>

(* p has changed the store; whoever had read it before is behind. *)
Wrote(p) ==
  /\ stale' = [q \in Procs |-> IF q = p THEN stale[p] ELSE pc[q] # "down"]
  /\ clash' = (clash \/ stale[p])

(* Mutant: s.count is not increased. *)
AfterAppendNoCount(m, r) ==
  [m EXCEPT !.head = r.id, !.firstAt = IF m.count = 0 THEN r.at ELSE m.firstAt]

(* appendLocked's effect on the object. *)
AfterAppend(m, r) ==
  [m EXCEPT !.head = r.id, !.count = m.count + 1,
            !.firstAt = IF m.count = 0 THEN r.at ELSE m.firstAt]

(* appendLocked: seal, write at the end of the inode, sync. *)
Write(p, r) ==
  /\ inodes' = [inodes EXCEPT ![mem[p].fd] = Append(@, r)]
  /\ mem' = [mem EXCEPT ![p] = AfterAppend(@, r)]
  /\ nextId' = nextId + 1
  /\ Wrote(p)
  /\ long' = (long \/ r.big)
  /\ pc' = [pc EXCEPT ![p] = "idle"]
  /\ rot' = [rot EXCEPT ![p] = NoRotation]
  /\ UNCHANGED << path, arch, now, replaced >>

AppendRecord(p) ==
  /\ pc[p] = "idle"
  /\ nextId <= MaxRecords
  /\ \E big \in {FALSE, LongRecords} :
       LET r == Record(mem[p].head, 0, 0, big)
       IN  Write(p, r) /\ acked' = acked \cup {r}

Due(p) ==
  /\ pc[p] = "idle"
  /\ mem[p].count # 0
  /\ now - mem[p].firstAt >= RotateAfter

(* MaybeRotate closes the file and renames whatever the path names now. *)
RotateRename(p) ==
  /\ Due(p)
  /\ path # 0
  /\ rot' = [rot EXCEPT ![p] = [from |-> mem[p].head, n |-> mem[p].count]]
  /\ replaced' = (replaced \/ arch[now] # 0)
  /\ arch' = [arch EXCEPT ![now] = path]
  /\ path' = 0
  /\ Wrote(p)
  /\ pc' = [pc EXCEPT ![p] = "reopen"]
  /\ UNCHANGED << inodes, now, nextId, mem, acked, long >>

(* The object is gone, and with it what this process knew. *)
Gone(p) ==
  /\ pc' = [pc EXCEPT ![p] = "down"]
  /\ mem' = [mem EXCEPT ![p] = Closed]
  /\ rot' = [rot EXCEPT ![p] = NoRotation]
  /\ stale' = [stale EXCEPT ![p] = FALSE]
  /\ UNCHANGED << files, now, nextId, acked, clash, replaced, long >>

(* There is nothing to rename: the cycle fails, and the process ends. *)
RotateFails(p) == Due(p) /\ path = 0 /\ Gone(p)

(* Mutant: the chain is not reset. *)
KeepChain(m, inode) == [Closed EXCEPT !.fd = inode, !.head = m.head]

(* s.f, a new chain, s.count and s.firstAt. *)
NewChain(m, inode) == [Closed EXCEPT !.fd = inode]

RotateReopen(p) ==
  /\ pc[p] = "reopen"
  /\ OpenPath
  /\ mem' = [mem EXCEPT ![p] = NewChain(@, path')]
  /\ pc' = [pc EXCEPT ![p] = "genesis"]
  /\ UNCHANGED << arch, now, nextId, rot, ghosts >>

(* The rotation record; it is written like any other. *)
RotateGenesis(p) ==
  /\ pc[p] = "genesis"
  /\ Write(p, Record(mem[p].head, rot[p].from, rot[p].n, FALSE))
  /\ UNCHANGED acked

(* Close, the end of the process, or its being killed at any point. *)
Leave(p) == pc[p] # "down" /\ Gone(p)

Tick ==
  /\ now < MaxTime
  /\ now' = now + 1
  /\ UNCHANGED << files, nextId, pc, mem, rot, ghosts >>

Step(p) ==
  \/ OpenRead(p) \/ OpenCreate(p) \/ AppendRecord(p)
  \/ RotateRename(p) \/ RotateFails(p) \/ RotateReopen(p) \/ RotateGenesis(p)
  \/ Leave(p)

Next == Tick \/ \E p \in Procs : Step(p)

Spec == Init /\ [][Next]_vars
-----------------------------------------------------------------------------
(* The files that still have a name. *)
Named == {i \in 1..Len(inodes) : i = path \/ \E t \in Times : arch[t] = i}

(***************************************************************************)
(* Append's promise, "seals r into the store's hash chain and persists it" *)
(* (store.go:19), as far as it holds for processes that do not know of one *)
(* another: whatever they rename under each other's feet, a record Append  *)
(* returned nil for is in the store or in an archive, unless two rotations *)
(* fell into one second.                                                   *)
(***************************************************************************)
AckedOnDisk ==
  ~replaced =>
    \A r \in acked : \E i \in Named : \E k \in 1..Len(inodes[i]) : inodes[i][k] = r

(***************************************************************************)
(* Processes that only read (verify, export) may come and go beside one    *)
(* that writes, and writers may take turns: as long as none writes that    *)
(* has not seen what others wrote, the store and every archive verify, and *)
(* a rotation record names the head and the length of an archive.          *)
(***************************************************************************)
OneChain ==
  ~clash =>
    \A i \in 1..Len(inodes) :
      /\ Linked(inodes[i])
      /\ \A k \in 1..Len(inodes[i]) :
           inodes[i][k].from # 0 =>
             /\ k = 1
             /\ replaced \/ \E t \in Times :
                  /\ arch[t] # 0
                  /\ LastId(inodes[arch[t]]) = inodes[i][k].from
                  /\ Len(inodes[arch[t]]) = inodes[i][k].n

(***************************************************************************)
(* What a FileStore remembers of its file is what is on disk, until        *)
(* another process writes: it appends where the path points, after the     *)
(* last record there, and Count and the age it rotates by are right.       *)
(***************************************************************************)
MemoryAgrees ==
  \A p \in Procs :
    pc[p] = "idle" /\ ~stale[p] =>
      /\ path # 0
      /\ mem[p] = [Resumed(inodes[path]) EXCEPT !.fd = path]

(***************************************************************************)
(* A store refuses to open when "it was tampered with" (store.go:44), not  *)
(* because of what the agents' own processes did: as long as every call    *)
(* succeeds, it is refused only after a write over another's back, or a    *)
(* record too long to be read.  (A line that a failed write has torn, or a *)
(* retry after a failed append, makes it refuse as well: FileStore.)       *)
(***************************************************************************)
RefusedForCause == \A p \in Procs : pc[p] = "refused" => clash \/ long
=============================================================================
