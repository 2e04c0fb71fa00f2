------------------------------- MODULE Bundle -------------------------------
(***************************************************************************)
(* Export bundles on disk: Exporter.Export writes three files into a       *)
(* directory named by the second, Engine.ExportAndPush reads them back for *)
(* the upload, and the CLI's verify-bundle and push check a directory that *)
(* an exporter may be writing into.  A file is reduced to the export that  *)
(* wrote it, a checksum to the content it is of.  Files of two exports     *)
(* differ in length, and in every part.                                    *)
(***************************************************************************)
EXTENDS Integers, Sequences

CONSTANTS Exporters,   \* processes or engines that export into one directory
          MaxTime,     \* bound: seconds
          MaxExports   \* bound: exports started

ASSUME BundleBounds == MaxTime \in Nat \ {0} /\ MaxExports \in Nat

Files  == {"evidence.json", "report.md", "manifest.json"}
Second == 1..MaxTime
Absent  == 0
Empty   == -1           \* truncated by os.WriteFile, nothing written yet
Mixed   == -2           \* no export's whole file: cut short, or parts of two

VARIABLES
  now,      \* the second on the clock
  count,    \* exports started; export n writes content n
  dirs,     \* dirs[t][f]: the content of file f in second t's directory
  exp,      \* the exporters
  reader,   \* one CLI process: verify-bundle or push
  began,    \* ghost: began[t] is the number of exports into t's directory
  last,     \* ghost: last[t] is the export that began last in t's directory
  shared,   \* ghost: shared[t], two exports were writing into it at once
  made,     \* ghost: made[t] is the set of exports that returned t's path
  portal    \* ghost: what was uploaded, and what it was taken for

vars == << now, count, dirs, exp, reader, began, last, shared, made,
           portal >>

ghosts == << began, last, shared >>

Idle == [pc |-> "idle", id |-> 0, dir |-> 0, left |-> {}, cur |-> "", read |-> << >>]
NoReader == [pc |-> "idle", dir |-> 0, man |-> 0, left |-> {}, read |-> << >>]

Init ==
  /\ now = 1
  /\ count = 0
  /\ dirs = [t \in Second |-> [f \in Files |-> Absent]]
  /\ exp = [x \in Exporters |-> Idle]
  /\ reader = NoReader
  /\ began = [t \in Second |-> 0]
  /\ last = [t \in Second |-> 0]
  /\ shared = [t \in Second |-> FALSE]
  /\ made = [t \in Second |-> {}]
  /\ portal = {}

Whole(c) == c \notin {Absent, Empty, Mixed}

Tick ==
  /\ now < MaxTime
  /\ now' = now + 1
  /\ UNCHANGED << count, dirs, exp, reader, ghosts, made, portal >>
-----------------------------------------------------------------------------
(* Exporter x is writing into the directory of second t. *)
Writes(x, t) == exp[x].pc = "write" /\ exp[x].dir = t

(***************************************************************************)
(* Export, after the store was read and verified: the directory's name is  *)
(* taken from the clock and everything to write is made in memory.         *)
(***************************************************************************)
Export(x) ==
  /\ exp[x].pc = "idle"
  /\ count < MaxExports
  /\ count' = count + 1
  /\ exp' = [exp EXCEPT ![x] = [Idle EXCEPT !.pc = "write", !.id = count + 1,
                                            !.dir = now, !.left = Files]]
  /\ began' = [began EXCEPT ![now] = @ + 1]
  /\ last' = [last EXCEPT ![now] = count + 1]
  /\ shared' = [shared EXCEPT ![now] = @ \/ \E y \in Exporters : Writes(y, now)]
  /\ UNCHANGED << now, dirs, reader, made, portal >>

(* Mutant: a file is created when it is missing, but not truncated. *)
TruncateNot(x) ==
  /\ exp[x].pc = "write"
  /\ exp[x].cur = ""
  /\ \E f \in exp[x].left :
       /\ dirs' = [dirs EXCEPT ![exp[x].dir][f] = IF @ = Absent THEN Empty ELSE @]
       /\ exp' = [exp EXCEPT ![x].cur = f]
  /\ UNCHANGED << now, count, reader, ghosts, made, portal >>

(* os.WriteFile first truncates; the files come in Go's random map order. *)
Truncate(x) ==
  /\ exp[x].pc = "write"
  /\ exp[x].cur = ""
  /\ \E f \in exp[x].left :
       /\ dirs' = [dirs EXCEPT ![exp[x].dir][f] = Empty]
       /\ exp' = [exp EXCEPT ![x].cur = f]
  /\ UNCHANGED << now, count, reader, ghosts, made, portal >>

(***************************************************************************)
(* What a write from the start of a file with content c can leave: if      *)
(* someone else wrote since the file was truncated, the tail of a longer   *)
(* content stays behind a shorter one.                                     *)
(***************************************************************************)
Over(c, id) == IF c = Empty THEN {id} ELSE {id, Mixed}

(* Nothing is left to write. *)
Written(rest) == rest = {}

(* Then it writes; the last file done, Export returns the directory. *)
WriteFile(x) ==
  LET rest == exp[x].left \ {exp[x].cur}
  IN  /\ exp[x].pc = "write"
      /\ exp[x].cur # ""
      /\ \E c \in Over(dirs[exp[x].dir][exp[x].cur], exp[x].id) :
           dirs' = [dirs EXCEPT ![exp[x].dir][exp[x].cur] = c]
      /\ exp' = [exp EXCEPT ![x].left = rest, ![x].cur = "",
                            ![x].pc = IF Written(rest) THEN "push" ELSE "write"]
      /\ made' = IF Written(rest) THEN [made EXCEPT ![exp[x].dir] = @ \cup {exp[x].id}]
                                   ELSE made
      /\ UNCHANGED << now, count, reader, ghosts, portal >>

(***************************************************************************)
(* A write fails or the process dies: the files stay as they are, but part *)
(* of the one being written may be there.                                  *)
(***************************************************************************)
ExportFails(x) ==
  /\ exp[x].pc = "write"
  /\ exp' = [exp EXCEPT ![x] = Idle]
  /\ \/ UNCHANGED dirs
     \/ /\ exp[x].cur # ""
        /\ dirs' = [dirs EXCEPT ![exp[x].dir][exp[x].cur] = Mixed]
  /\ UNCHANGED << now, count, reader, ghosts, made, portal >>

(* tarGzBundle reads the files in this order. *)
bundleFiles == << "evidence.json", "report.md", "manifest.json" >>

(***************************************************************************)
(* The next file read for an upload of directory t, by who for what: with  *)
(* the last one the archive is sent.                                       *)
(***************************************************************************)
Sent(t, read, what) ==
  IF Len(read) = Len(bundleFiles)
  THEN portal' = portal \cup {[dir |-> t, files |-> read, as |-> what]}
  ELSE UNCHANGED portal

Push(x) ==
  LET read == Append(exp[x].read, dirs[exp[x].dir][bundleFiles[Len(exp[x].read) + 1]])
  IN  /\ exp[x].pc = "push"
      /\ exp' = [exp EXCEPT ![x] = IF Len(read) = Len(bundleFiles) THEN Idle
                                   ELSE [@ EXCEPT !.read = read]]
      /\ Sent(exp[x].dir, read, exp[x].id)
      /\ UNCHANGED << now, count, dirs, reader, ghosts, made >>

(* No portal is configured, or the push fails before it has read all. *)
NoPush(x) ==
  /\ exp[x].pc = "push"
  /\ exp' = [exp EXCEPT ![x] = Idle]
  /\ UNCHANGED << now, count, dirs, reader, ghosts, made, portal >>
-----------------------------------------------------------------------------
(* The files BuildManifest has checksummed. *)
Listed == {"evidence.json", "report.md"}

(* bundle.Verify, ReadManifest: a manifest not there or cut short is refused. *)
VerifyManifest ==
  /\ reader.pc = "idle"
  /\ \E t \in Second :
       /\ Whole(dirs[t]["manifest.json"])
       /\ reader' = [NoReader EXCEPT !.pc = "verify", !.dir = t, !.left = Listed,
                                     !.man = dirs[t]["manifest.json"]]
  /\ UNCHANGED << now, count, dirs, exp, ghosts, made, portal >>

(* Mutant: a file cut short is not compared. *)
MatchesIfWhole(c, m) == Whole(c) => c = m

(* The checksum of content c is the one that manifest m has for the file. *)
Matches(c, m) == c = m

(* The next file of the manifest; the CLI ends with the first that differs. *)
VerifyFile ==
  /\ reader.pc = "verify"
  /\ reader.left # {}
  /\ \E f \in reader.left :
       LET c == dirs[reader.dir][f]
       IN  reader' = IF Matches(c, reader.man)
                     THEN [reader EXCEPT !.left = @ \ {f}]
                     ELSE NoReader
  /\ UNCHANGED << now, count, dirs, exp, ghosts, made, portal >>

(* verify-bundle prints that checksums are valid; push goes on to upload. *)
VerifyDone ==
  /\ reader.pc = "verify"
  /\ reader.left = {}
  /\ \/ reader' = NoReader
     \/ reader' = [reader EXCEPT !.pc = "push"]
  /\ UNCHANGED << now, count, dirs, exp, ghosts, made, portal >>

PushVerified ==
  LET read == Append(reader.read, dirs[reader.dir][bundleFiles[Len(reader.read) + 1]])
  IN  /\ reader.pc = "push"
      /\ reader' = IF Len(read) = Len(bundleFiles) THEN NoReader
                   ELSE [reader EXCEPT !.read = read]
      /\ Sent(reader.dir, read, reader.man)
      /\ UNCHANGED << now, count, dirs, exp, ghosts, made >>

Next ==
  \/ Tick
  \/ \E x \in Exporters : \/ Export(x) \/ Truncate(x) \/ WriteFile(x)
                          \/ ExportFails(x) \/ Push(x) \/ NoPush(x)
  \/ VerifyManifest \/ VerifyFile \/ VerifyDone \/ PushVerified

Spec == Init /\ [][Next]_vars
-----------------------------------------------------------------------------
(* What an auditor would find: all files whole and of one export. *)
Verifies(t) ==
  /\ Whole(dirs[t]["manifest.json"])
  /\ \A f \in Listed : Matches(dirs[t][f], dirs[t]["manifest.json"])

(***************************************************************************)
(* README.md:15, a "bundle any auditor can verify independently": once     *)
(* Export has returned a directory, the directory is that export's bundle  *)
(* and verifies for good -- also over what an earlier export of the same   *)
(* second left there, whole or given up half way -- unless another export  *)
(* was writing into it at the same time, or a later one does.              *)
(***************************************************************************)
ExportedVerifies ==
  \A t \in Second : (~shared[t] /\ last[t] \in made[t])
    => dirs[t]["manifest.json"] = last[t] /\ Verifies(t)

(* No other export fell into the second t. *)
Alone(t) == began[t] = 1

(***************************************************************************)
(* What reaches the portal of a directory that had its second for itself   *)
(* is one export, the one that ExportAndPush made or `push` verified,      *)
(* although the files are read again and an export may be writing them.    *)
(***************************************************************************)
UploadedWhole ==
  \A u \in portal : Alone(u.dir) => \A i \in 1..Len(u.files) : u.files[i] = u.as
=============================================================================
