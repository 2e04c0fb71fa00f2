----------------------------- MODULE BundleProofs -----------------------------
(***************************************************************************)
(* Proofs about Bundle for any number of exporters, seconds and exports:   *)
(* a directory whose exports took turns is its last one's bundle, and one  *)
(* whose second belongs to a single export is uploaded whole.              *)
(***************************************************************************)
EXTENDS Bundle, SequenceTheorems, TLAPS

ExpTypes == [pc : {"idle", "write", "push"}, id : Nat, dir : Nat, left : SUBSET Files,
             cur : Files \cup {""}, read : Seq(Int)]

ReaderTypes == [pc : {"idle", "verify", "push"}, dir : Nat, man : Int,
                left : SUBSET Listed, read : Seq(Int)]

TypeInv ==
  /\ now \in Second
  /\ count \in Nat
  /\ dirs \in [Second -> [Files -> Int]]
  /\ exp \in [Exporters -> ExpTypes]
  /\ reader \in ReaderTypes
  /\ began \in [Second -> Nat]
  /\ last \in [Second -> Nat]
  /\ shared \in [Second -> BOOLEAN]
  /\ made \in [Second -> SUBSET Nat]
  /\ portal \subseteq [dir : Second, files : Seq(Int), as : Int]

(* An exporter at work has a directory, and reads its files from the first. *)
ExpOK ==
  \A x \in Exporters : exp[x].pc # "idle" =>
    /\ exp[x].dir \in Second
    /\ Len(exp[x].read) < 3
    /\ exp[x].pc = "write" => exp[x].read = << >>
    /\ exp[x].cur # "" => exp[x].cur \in exp[x].left

(* A reader began with a manifest, and reads its archive after verifying. *)
ReaderOK ==
  /\ reader.pc # "idle" => reader.dir \in Second /\ Whole(reader.man) /\ Len(reader.read) < 3
  /\ reader.pc = "verify" => reader.read = << >>

BundleInv == TypeInv /\ ExpOK /\ ReaderOK
-----------------------------------------------------------------------------
(* The seconds are positive numbers; there is a first one. *)
LEMMA SecondFacts == Second \subseteq Nat /\ 1 \in Second /\ \A t \in Second : t >= 1
BY BundleBounds DEF Second

(* Nothing has been read of an empty sequence. *)
LEMMA NothingRead == << >> \in Seq(Int) /\ Len(<< >>) = 0 /\ Len(<< >>) < 3
OBVIOUS

(* The upload reads the three files in order. *)
LEMMA BundleFilesFacts ==
  ASSUME NEW n \in Nat, n < 3
  PROVE  Len(bundleFiles) = 3 /\ bundleFiles[n + 1] \in Files
<1>1. n = 0 \/ n = 1 \/ n = 2
  OBVIOUS
<1> QED BY <1>1 DEF bundleFiles, Files

(* Initially nobody is at work. *)
LEMMA BundleInit == Init => BundleInv
<1> SUFFICES ASSUME Init PROVE BundleInv
  OBVIOUS
<1>1. Idle \in ExpTypes /\ Idle.pc = "idle"
  BY NothingRead DEF Idle, ExpTypes
<1>2. NoReader \in ReaderTypes /\ NoReader.pc = "idle"
  BY DEF NoReader, ReaderTypes
<1>3. TypeInv
  BY <1>1, <1>2, SecondFacts DEF Init, TypeInv, Absent
<1>4. ExpOK
  BY <1>1 DEF Init, ExpOK
<1>5. ReaderOK
  BY <1>2 DEF Init, ReaderOK
<1> QED BY <1>3, <1>4, <1>5 DEF BundleInv

(* What one exporter's step leaves well formed when its own record is. *)
LEMMA OneExporter ==
  ASSUME BundleInv, NEW x \in Exporters, NEW e \in ExpTypes, exp' = [exp EXCEPT ![x] = e],
         e.pc # "idle" => /\ e.dir \in Second /\ Len(e.read) < 3
                          /\ e.pc = "write" => e.read = << >>
                          /\ e.cur # "" => e.cur \in e.left
  PROVE  exp' \in [Exporters -> ExpTypes] /\ ExpOK'
<1>1. exp \in [Exporters -> ExpTypes]
  BY DEF BundleInv, TypeInv
<1>2. /\ exp' \in [Exporters -> ExpTypes] /\ exp'[x] = e
      /\ \A y \in Exporters \ {x} : exp'[y] = exp[y]
  BY <1>1
<1> QED BY <1>2 DEF BundleInv, ExpOK

(* An upload that ends adds what was read. *)
LEMMA SentType ==
  ASSUME BundleInv, NEW t \in Second, NEW read \in Seq(Int), NEW what \in Int,
         Sent(t, read, what)
  PROVE  portal' \subseteq [dir : Second, files : Seq(Int), as : Int]
BY DEF BundleInv, TypeInv, Sent

(* The steps of an exporter. *)
LEMMA ExporterStep ==
  ASSUME BundleInv, NEW x \in Exporters,
         \/ Export(x) \/ Truncate(x) \/ WriteFile(x) \/ ExportFails(x) \/ Push(x) \/ NoPush(x)
  PROVE  BundleInv'
<1>0. /\ TypeInv /\ ExpOK /\ ReaderOK /\ exp \in [Exporters -> ExpTypes] /\ exp[x] \in ExpTypes
      /\ dirs \in [Second -> [Files -> Int]] /\ Second \subseteq Nat
  BY SecondFacts DEF BundleInv, TypeInv
<1>i. Idle \in ExpTypes /\ Idle.pc = "idle"
  BY DEF Idle, ExpTypes
<1>r. reader' = reader => ReaderOK'
  BY <1>0 DEF ReaderOK
<1>1. CASE Export(x)
  <2> DEFINE e == [Idle EXCEPT !.pc = "write", !.id = count + 1, !.dir = now, !.left = Files]
  <2>1. now \in Second /\ now \in Nat /\ count + 1 \in Nat
    BY <1>0 DEF TypeInv
  <2>2. e \in ExpTypes /\ e.dir = now /\ e.read = << >> /\ e.cur = ""
    <3>1. Idle \in ExpTypes /\ Idle.cur = "" /\ Idle.read = << >>
      BY <1>i DEF Idle
    <3>2. Files \in SUBSET Files /\ now \in Nat /\ count + 1 \in Nat
      BY <2>1
    <3> HIDE DEF Idle
    <3> QED BY <3>1, <3>2 DEF ExpTypes
  <2>3. exp' = [exp EXCEPT ![x] = e]
    BY <1>1 DEF Export
  <2> HIDE DEF e
  <2>4. exp' \in [Exporters -> ExpTypes] /\ ExpOK'
    <3>1. e.dir \in Second /\ Len(e.read) < 3
      BY <2>1, <2>2, NothingRead
    <3> QED BY <2>2, <2>3, <3>1, OneExporter
  <2>5. TypeInv'
    BY <1>0, <1>1, <2>1, <2>4 DEF Export, TypeInv
  <2> QED BY <1>1, <1>r, <2>4, <2>5 DEF Export, BundleInv
<1>2. CASE Truncate(x)
  <2>1. PICK f \in exp[x].left :
          /\ dirs' = [dirs EXCEPT ![exp[x].dir][f] = Empty]
          /\ exp' = [exp EXCEPT ![x].cur = f]
    BY <1>2 DEF Truncate
  <2> DEFINE e == [exp[x] EXCEPT !.cur = f]
  <2>2. f \in Files /\ exp[x].pc = "write"
    BY <1>0, <1>2, <2>1 DEF ExpTypes, Truncate
  <2>3. e \in ExpTypes /\ e.dir = exp[x].dir /\ e.read = exp[x].read /\ e.cur = f
        /\ e.left = exp[x].left
    BY <1>0, <2>2 DEF ExpTypes
  <2>4. exp' = [exp EXCEPT ![x] = e]
    BY <1>0, <2>1
  <2>5. exp[x].dir \in Second /\ exp[x].read = << >> /\ Len(exp[x].read) < 3
    BY <1>0, <2>2 DEF ExpOK
  <2> HIDE DEF e
  <2>6. exp' \in [Exporters -> ExpTypes] /\ ExpOK'
    BY <2>1, <2>3, <2>4, <2>5, OneExporter
  <2>7. dirs' \in [Second -> [Files -> Int]]
    BY <1>0, <2>1, <2>2, <2>5 DEF Empty
  <2>8. TypeInv'
    BY <1>0, <1>2, <2>6, <2>7 DEF Truncate, TypeInv, ghosts
  <2> QED BY <1>2, <1>r, <2>6, <2>8 DEF Truncate, BundleInv
<1>3. CASE WriteFile(x)
  <2> DEFINE rest == exp[x].left \ {exp[x].cur}
             pc == IF Written(rest) THEN "push" ELSE "write"
             e == [exp[x] EXCEPT !.left = rest, !.cur = "", !.pc = pc]
  <2>1. rest \in SUBSET Files /\ exp[x].pc = "write" /\ pc \in {"write", "push"}
        /\ exp[x].cur \in Files
    BY <1>0, <1>3 DEF ExpTypes, WriteFile
  <2>2. exp' = [exp EXCEPT ![x].left = rest, ![x].cur = "", ![x].pc = pc]
    BY <1>3 DEF WriteFile
  <2> HIDE DEF rest, pc
  <2>3. e \in ExpTypes /\ e.dir = exp[x].dir /\ e.read = exp[x].read /\ e.cur = ""
    BY <1>0, <2>1 DEF ExpTypes
  <2>4. exp' = [exp EXCEPT ![x] = e]
    BY <1>0, <2>2
  <2>5. exp[x].dir \in Second /\ exp[x].read = << >> /\ Len(exp[x].read) < 3
    BY <1>0, <2>1 DEF ExpOK
  <2> HIDE DEF e
  <2>6. exp' \in [Exporters -> ExpTypes] /\ ExpOK'
    BY <2>3, <2>4, <2>5, OneExporter
  <2>7. dirs' \in [Second -> [Files -> Int]]
    <3>1. exp[x].id \in Nat
      BY <1>0 DEF ExpTypes
    <3>2. PICK c \in Over(dirs[exp[x].dir][exp[x].cur], exp[x].id) :
            dirs' = [dirs EXCEPT ![exp[x].dir][exp[x].cur] = c]
      BY <1>3 DEF WriteFile
    <3>3. c \in Int
      BY <3>1 DEF Over, Mixed
    <3> QED BY <1>0, <2>1, <2>5, <3>2, <3>3
  <2>8. made' \in [Second -> SUBSET Nat]
    <3>1. exp[x].id \in Nat /\ made \in [Second -> SUBSET Nat]
      BY <1>0 DEF ExpTypes, TypeInv
    <3>2. made' = made \/ made' = [made EXCEPT ![exp[x].dir] = @ \cup {exp[x].id}]
      BY <1>3 DEF WriteFile
    <3> QED BY <2>5, <3>1, <3>2
  <2>9. TypeInv'
    BY <1>0, <1>3, <2>6, <2>7, <2>8 DEF WriteFile, TypeInv, ghosts
  <2> QED BY <1>3, <1>r, <2>6, <2>9 DEF WriteFile, BundleInv
<1>4. CASE ExportFails(x) \/ NoPush(x)
  <2>1. exp' = [exp EXCEPT ![x] = Idle]
    BY <1>4 DEF ExportFails, NoPush
  <2>2. exp' \in [Exporters -> ExpTypes] /\ ExpOK'
    BY <1>i, <2>1, OneExporter
  <2>d. dirs' \in [Second -> [Files -> Int]]
    <3>1. CASE dirs' = dirs
      BY <1>0, <3>1
    <3>2. CASE dirs' # dirs
      <4>1. /\ exp[x].pc = "write" /\ exp[x].cur # ""
            /\ dirs' = [dirs EXCEPT ![exp[x].dir][exp[x].cur] = Mixed]
        BY <1>4, <3>2 DEF ExportFails, NoPush
      <4>2. exp[x].dir \in Second /\ exp[x].cur \in Files
        BY <1>0, <4>1 DEF ExpTypes, ExpOK
      <4>3. Mixed \in Int /\ dirs \in [Second -> [Files -> Int]]
        BY <1>0 DEF Mixed
      <4> QED BY <4>1, <4>2, <4>3
    <3> QED BY <3>1, <3>2
  <2>3. TypeInv'
    BY <1>0, <1>4, <2>2, <2>d DEF ExportFails, NoPush, TypeInv, ghosts
  <2> QED BY <1>4, <1>r, <2>2, <2>3 DEF ExportFails, NoPush, BundleInv, ghosts
<1>5. CASE Push(x)
  <2> DEFINE read == Append(exp[x].read, dirs[exp[x].dir][bundleFiles[Len(exp[x].read) + 1]])
             e == IF Len(read) = Len(bundleFiles) THEN Idle ELSE [exp[x] EXCEPT !.read = read]
  <2>1. /\ exp[x].pc = "push" /\ exp[x].dir \in Second /\ exp[x].read \in Seq(Int)
        /\ Len(exp[x].read) < 3 /\ Len(exp[x].read) \in Nat /\ exp[x].id \in Int
    <3>1. exp[x].pc = "push"
      BY <1>5 DEF Push
    <3>2. exp[x].dir \in Second /\ Len(exp[x].read) < 3
      BY <1>0, <3>1 DEF ExpOK
    <3>3. exp[x].read \in Seq(Int) /\ exp[x].id \in Nat
      BY <1>0 DEF ExpTypes
    <3>4. Len(exp[x].read) \in Nat
      BY <3>3, LenProperties
    <3> QED BY <3>1, <3>2, <3>3, <3>4
  <2>2. bundleFiles[Len(exp[x].read) + 1] \in Files /\ Len(bundleFiles) = 3
    BY <2>1, BundleFilesFacts
  <2>3. read \in Seq(Int) /\ Len(read) = Len(exp[x].read) + 1
    <3>1. dirs[exp[x].dir][bundleFiles[Len(exp[x].read) + 1]] \in Int
      BY <1>0, <2>1, <2>2
    <3> QED BY <2>1, <3>1, AppendProperties
  <2>4. exp' = [exp EXCEPT ![x] = e]
    BY <1>5, <1>0 DEF Push
  <2>5. Sent(exp[x].dir, read, exp[x].id)
    BY <1>5 DEF Push
  <2> HIDE DEF read
  <2>6. /\ e \in ExpTypes
        /\ e.pc # "idle" => /\ e.dir = exp[x].dir /\ e.read = read /\ e.pc = "push"
                            /\ e.cur = exp[x].cur /\ e.left = exp[x].left
                            /\ Len(read) < 3
    <3>1. CASE Len(read) = Len(bundleFiles)
      BY <1>i, <3>1
    <3>2. CASE Len(read) # Len(bundleFiles)
      <4>1. e = [exp[x] EXCEPT !.read = read] /\ Len(read) < 3
        BY <2>1, <2>2, <2>3, <3>2
      <4> HIDE DEF e
      <4> QED BY <1>0, <2>1, <2>3, <4>1 DEF ExpTypes
    <3> QED BY <3>1, <3>2
  <2> HIDE DEF e
  <2>7. exp[x].cur # "" => exp[x].cur \in exp[x].left
    BY <1>0, <2>1 DEF ExpOK
  <2>8. exp' \in [Exporters -> ExpTypes] /\ ExpOK'
    BY <2>1, <2>4, <2>6, <2>7, OneExporter
  <2>9. portal' \subseteq [dir : Second, files : Seq(Int), as : Int]
    BY <2>1, <2>3, <2>5, SentType
  <2>10. TypeInv'
    BY <1>0, <1>5, <2>8, <2>9 DEF Push, TypeInv, ghosts
  <2> QED BY <1>5, <1>r, <2>8, <2>10 DEF Push, BundleInv
<1> QED BY <1>1, <1>2, <1>3, <1>4, <1>5

(* The steps of the reader. *)
LEMMA ReaderStep ==
  ASSUME BundleInv, VerifyManifest \/ VerifyFile \/ VerifyDone \/ PushVerified
  PROVE  BundleInv'
<1>0. /\ TypeInv /\ ExpOK /\ ReaderOK /\ reader \in ReaderTypes
      /\ dirs \in [Second -> [Files -> Int]] /\ Second \subseteq Nat
      /\ Listed \subseteq Files /\ "manifest.json" \in Files
  BY SecondFacts DEF BundleInv, TypeInv, Listed, Files
<1>i. NoReader \in ReaderTypes /\ NoReader.pc = "idle"
  BY DEF NoReader, ReaderTypes
<1>e. UNCHANGED << now, count, dirs, exp, began, last, shared, made >>
  BY DEF ghosts, VerifyManifest, VerifyFile, VerifyDone, PushVerified
<1>x. ExpOK'
  BY <1>0, <1>e DEF ExpOK
<1>q. ASSUME reader' \in ReaderTypes, ReaderOK',
             portal' \subseteq [dir : Second, files : Seq(Int), as : Int]
      PROVE  BundleInv'
  BY <1>0, <1>e, <1>x, <1>q DEF BundleInv, TypeInv
<1>n. ASSUME reader' = NoReader, portal' \subseteq [dir : Second, files : Seq(Int), as : Int]
      PROVE  BundleInv'
  BY <1>i, <1>n, <1>q DEF ReaderOK
<1>p. portal \subseteq [dir : Second, files : Seq(Int), as : Int]
  BY <1>0 DEF TypeInv
<1>1. CASE VerifyManifest
  <2>1. PICK t \in Second :
          /\ Whole(dirs[t]["manifest.json"])
          /\ reader' = [NoReader EXCEPT !.pc = "verify", !.dir = t, !.left = Listed,
                                        !.man = dirs[t]["manifest.json"]]
    BY <1>1 DEF VerifyManifest
  <2>2. dirs[t]["manifest.json"] \in Int /\ t \in Nat
    BY <1>0
  <2>3. /\ reader' \in ReaderTypes /\ reader'.pc = "verify" /\ reader'.dir = t
        /\ reader'.left = Listed /\ reader'.man = dirs[t]["manifest.json"]
        /\ reader'.read = << >>
    <3>1. reader' = [pc |-> "verify", dir |-> t, man |-> dirs[t]["manifest.json"],
                     left |-> Listed, read |-> << >>]
      BY <2>1 DEF NoReader
    <3> QED BY <2>2, <3>1, NothingRead DEF ReaderTypes
  <2>4. ReaderOK'
    BY <2>1, <2>3, NothingRead DEF ReaderOK
  <2> QED BY <1>1, <1>p, <1>q, <2>3, <2>4 DEF VerifyManifest
<1>2. CASE VerifyFile
  <2>1. reader.pc = "verify" /\ reader.left # {} /\ portal' = portal
    BY <1>2 DEF VerifyFile
  <2>2. PICK f \in reader.left :
          LET c == dirs[reader.dir][f]
          IN  reader' = IF Matches(c, reader.man)
                        THEN [reader EXCEPT !.left = @ \ {f}]
                        ELSE NoReader
    BY <1>2 DEF VerifyFile
  <2>3. CASE reader' = NoReader
    BY <1>n, <1>p, <2>1, <2>3
  <2>4. CASE reader' = [reader EXCEPT !.left = reader.left \ {f}]
    <3>1. /\ reader' \in ReaderTypes /\ reader'.pc = "verify" /\ reader'.dir = reader.dir
          /\ reader'.man = reader.man /\ reader'.read = reader.read
      BY <1>0, <2>1, <2>4 DEF ReaderTypes
    <3>2. ReaderOK'
      BY <1>0, <2>1, <3>1 DEF ReaderOK
    <3> QED BY <1>p, <1>q, <2>1, <3>1, <3>2
  <2> QED BY <2>2, <2>3, <2>4
<1>3. CASE VerifyDone
  <2>1. CASE reader' = NoReader
    BY <1>3, <1>n, <1>p, <2>1 DEF VerifyDone
  <2>2. CASE reader' = [reader EXCEPT !.pc = "push"]
    <3>1. /\ reader' \in ReaderTypes /\ reader'.pc = "push" /\ reader'.dir = reader.dir
          /\ reader'.man = reader.man /\ reader'.read = reader.read
      BY <1>0, <2>2 DEF ReaderTypes
    <3>2. ReaderOK'
      BY <1>0, <1>3, <3>1 DEF VerifyDone, ReaderOK
    <3> QED BY <1>3, <1>p, <1>q, <3>1, <3>2 DEF VerifyDone
  <2> QED BY <1>3, <2>1, <2>2 DEF VerifyDone
<1>4. CASE PushVerified
  <2> DEFINE read == Append(reader.read, dirs[reader.dir][bundleFiles[Len(reader.read) + 1]])
  <2>1. /\ reader.pc = "push" /\ reader.dir \in Second /\ reader.read \in Seq(Int)
        /\ Len(reader.read) < 3 /\ Len(reader.read) \in Nat /\ reader.man \in Int
        /\ Whole(reader.man)
    <3>1. reader.pc = "push"
      BY <1>4 DEF PushVerified
    <3>2. reader.dir \in Second /\ Len(reader.read) < 3 /\ Whole(reader.man)
      BY <1>0, <3>1 DEF ReaderOK
    <3>3. reader.read \in Seq(Int) /\ reader.man \in Int
      BY <1>0 DEF ReaderTypes
    <3>4. Len(reader.read) \in Nat
      BY <3>3, LenProperties
    <3> QED BY <3>1, <3>2, <3>3, <3>4
  <2>2. bundleFiles[Len(reader.read) + 1] \in Files /\ Len(bundleFiles) = 3
    BY <2>1, BundleFilesFacts
  <2>3. read \in Seq(Int) /\ Len(read) = Len(reader.read) + 1
    <3>1. dirs[reader.dir][bundleFiles[Len(reader.read) + 1]] \in Int
      BY <1>0, <2>1, <2>2
    <3> QED BY <2>1, <3>1, AppendProperties
  <2>4. /\ reader' = IF Len(read) = Len(bundleFiles) THEN NoReader
                     ELSE [reader EXCEPT !.read = read]
        /\ Sent(reader.dir, read, reader.man)
    BY <1>4 DEF PushVerified
  <2> HIDE DEF read
  <2>5. portal' \subseteq [dir : Second, files : Seq(Int), as : Int]
    BY <2>1, <2>3, <2>4, SentType
  <2>6. CASE reader' = NoReader
    BY <1>n, <2>5, <2>6
  <2>7. CASE reader' = [reader EXCEPT !.read = read] /\ Len(read) # Len(bundleFiles)
    <3>1. /\ reader' \in ReaderTypes /\ reader'.pc = "push" /\ reader'.dir = reader.dir
          /\ reader'.man = reader.man /\ reader'.read = read
      BY <1>0, <2>1, <2>3, <2>7 DEF ReaderTypes
    <3>2. Len(read) < 3
      BY <2>1, <2>2, <2>3, <2>7
    <3>3. ReaderOK'
      BY <2>1, <3>1, <3>2 DEF ReaderOK
    <3> QED BY <1>q, <2>5, <3>1, <3>3
  <2> QED BY <2>4, <2>6, <2>7
<1> QED BY <1>1, <1>2, <1>3, <1>4

(* Every step. *)
LEMMA BundleStep == BundleInv /\ [Next]_vars => BundleInv'
<1> SUFFICES ASSUME BundleInv, [Next]_vars PROVE BundleInv'
  OBVIOUS
<1>1. CASE UNCHANGED vars
  BY <1>1 DEF vars, BundleInv, TypeInv, ExpOK, ReaderOK
<1>2. CASE Tick
  <2>1. now' \in Second
    BY <1>2, BundleBounds DEF Tick, Second, BundleInv, TypeInv
  <2> QED BY <1>2, <2>1 DEF Tick, ghosts, BundleInv, TypeInv, ExpOK, ReaderOK
<1> QED BY <1>1, <1>2, ExporterStep, ReaderStep DEF Next

-----------------------------------------------------------------------------
(* An exporter is at work on second t's directory. *)
Busy(x, t) == exp[x].pc # "idle" /\ exp[x].dir = t

(* The reader looks at it. *)
Looking(t) == reader.pc # "idle" /\ reader.dir = t

(* All its files are of export n. *)
AllOf(t, n) == \A f \in Files : dirs[t][f] = n

(* A second no export fell into: nothing is there. *)
Fresh(t) ==
  /\ \A f \in Files : dirs[t][f] = Absent
  /\ \A x \in Exporters : ~ Busy(x, t)
  /\ made[t] = {}
  /\ ~ Looking(t)
  /\ \A u \in portal : u.dir # t

(* What the one exporter of second t has written, the rest is not whole yet. *)
Writing(t, n) ==
  /\ \A x, y \in Exporters : Busy(x, t) /\ Busy(y, t) => x = y
  /\ \A x \in Exporters : Busy(x, t) =>
       /\ exp[x].id = n
       /\ exp[x].pc = "write" =>
            /\ made[t] = {}
            /\ \A f \in exp[x].left : ~ Whole(dirs[t][f])
            /\ \A f \in Files \ exp[x].left : dirs[t][f] = n
            /\ exp[x].cur # "" => dirs[t][exp[x].cur] = Empty
       /\ exp[x].pc = "push" => AllOf(t, n) /\ exp[x].read \in Seq({n})

(* The directory has nothing of another export, and all once it was returned. *)
OnDisk(t, n) ==
  /\ \A f \in Files : Whole(dirs[t][f]) => dirs[t][f] = n
  /\ made[t] # {} => AllOf(t, n)

(* A reader has found the manifest of n, and what it compared is of n too. *)
Reading(t, n) ==
  Looking(t) =>
    /\ reader.man = n
    /\ dirs[t]["manifest.json"] = n
    /\ reader.pc = "verify" => \A f \in Listed \ reader.left : dirs[t][f] = n
    /\ reader.pc = "push" => AllOf(t, n) /\ reader.read \in Seq({n})

(* What was uploaded of it is n. *)
OnPortal(t, n) == \A u \in portal : u.dir = t => u.as = n /\ u.files \in Seq({n})

Single(t, n) == Writing(t, n) /\ OnDisk(t, n) /\ Reading(t, n) /\ OnPortal(t, n)

(* The directory of a second that no export, or only one, fell into. *)
SecondOK(t) ==
  /\ began[t] = 0 => Fresh(t)
  /\ began[t] = 1 => \E n \in Nat \ {0} : Single(t, n)

SecondsInv == BundleInv /\ \A t \in Second : SecondOK(t)

(* What a step does not touch of second t stays in order. *)
LEMMA PartsKept ==
  ASSUME NEW t, NEW n, dirs'[t] = dirs[t], made'[t] = made[t]
  PROVE  /\ Writing(t, n) /\ (\A x \in Exporters : Busy(x, t)' => Busy(x, t) /\ exp'[x] = exp[x])
              => Writing(t, n)'
         /\ OnDisk(t, n) => OnDisk(t, n)'
         /\ Reading(t, n) /\ (Looking(t)' => Looking(t) /\ reader' = reader) => Reading(t, n)'
         /\ OnPortal(t, n) /\ (\A u \in portal' : u.dir = t => u \in portal) => OnPortal(t, n)'
<1>1. OnDisk(t, n) => OnDisk(t, n)'
  BY DEF OnDisk, AllOf
<1>2. ASSUME OnPortal(t, n), \A u \in portal' : u.dir = t => u \in portal
      PROVE  OnPortal(t, n)'
  BY <1>2 DEF OnPortal
<1>3. ASSUME Reading(t, n), Looking(t)' => Looking(t) /\ reader' = reader
      PROVE  Reading(t, n)'
  BY <1>3 DEF Reading, AllOf
<1>4. ASSUME Writing(t, n), \A x \in Exporters : Busy(x, t)' => Busy(x, t) /\ exp'[x] = exp[x]
      PROVE  Writing(t, n)'
  BY <1>4 DEF Writing, AllOf
<1> QED BY <1>1, <1>2, <1>3, <1>4

(* A second that a step has nothing to do with. *)
LEMMA Untouched ==
  ASSUME NEW t \in Second, SecondOK(t),
         dirs'[t] = dirs[t], made'[t] = made[t], began'[t] = began[t],
         \A x \in Exporters : Busy(x, t)' => Busy(x, t) /\ exp'[x] = exp[x],
         Looking(t)' => Looking(t) /\ reader' = reader,
         \A u \in portal' : u.dir = t => u \in portal
  PROVE  SecondOK(t)'
<1>1. ASSUME Fresh(t) PROVE Fresh(t)'
  BY <1>1 DEF Fresh
<1>2. ASSUME NEW n \in Nat \ {0}, Single(t, n) PROVE Single(t, n)'
  BY <1>2, PartsKept DEF Single
<1> QED BY <1>1, <1>2 DEF SecondOK

(* An export that begins in second now. *)
LEMMA ExportSecond ==
  ASSUME SecondsInv, NEW x \in Exporters, Export(x), NEW t \in Second
  PROVE  SecondOK(t)'
<1>0. /\ exp \in [Exporters -> ExpTypes] /\ count \in Nat /\ now \in Second
      /\ began \in [Second -> Nat] /\ SecondOK(t)
      /\ dirs' = dirs /\ made' = made /\ reader' = reader /\ portal' = portal
      /\ began' = [began EXCEPT ![now] = began[now] + 1]
  BY DEF SecondsInv, BundleInv, TypeInv, Export
<1> DEFINE e == [Idle EXCEPT !.pc = "write", !.id = count + 1, !.dir = now, !.left = Files]
<1>1. /\ e.pc = "write" /\ e.id = count + 1 /\ e.dir = now /\ e.left = Files
      /\ e.cur = ""
  BY DEF Idle
<1>2. exp' = [exp EXCEPT ![x] = e]
  BY DEF Export
<1> HIDE DEF e
<1>3. exp'[x] = e /\ \A y \in Exporters \ {x} : exp'[y] = exp[y]
  BY <1>0, <1>2
<1>4. CASE t # now
  <2>1. began'[t] = began[t]
    BY <1>0, <1>4
  <2>2. \A y \in Exporters : Busy(y, t)' => Busy(y, t) /\ exp'[y] = exp[y]
    BY <1>1, <1>3, <1>4 DEF Busy
  <2>3. Looking(t)' => Looking(t) /\ reader' = reader
    BY <1>0 DEF Looking
  <2> QED BY <1>0, <2>1, <2>2, <2>3, Untouched
<1>5. CASE t = now
  <2>1. began'[t] = began[t] + 1 /\ began[t] \in Nat
    BY <1>0, <1>5
  <2>n. PICK n \in Nat \ {0} : n = count + 1
    BY <1>0
  <2>2. ASSUME began[t] = 0 PROVE Single(t, n)'
    <3>0. Fresh(t)
      BY <1>0, <2>2 DEF SecondOK
    <3>1. \A y \in Exporters : Busy(y, t)' => y = x
      BY <1>3, <3>0 DEF Fresh, Busy
    <3>2. Writing(t, n)'
      <4>1. /\ exp'[x].id = n /\ exp'[x].pc = "write" /\ made'[t] = {}
            /\ exp'[x].left = Files /\ exp'[x].cur = ""
            /\ \A f \in Files : ~ Whole(dirs'[t][f])
        BY <1>0, <1>1, <1>3, <2>n, <3>0 DEF Fresh, Whole
      <4> QED BY <3>1, <4>1 DEF Writing
    <3>3. OnDisk(t, n)'
      BY <1>0, <3>0 DEF OnDisk, Fresh, Whole
    <3>4. Reading(t, n)'
      BY <1>0, <3>0 DEF Reading, Fresh, Looking
    <3>5. OnPortal(t, n)'
      BY <1>0, <3>0 DEF OnPortal, Fresh
    <3> QED BY <3>2, <3>3, <3>4, <3>5 DEF Single
  <2> QED BY <1>0, <2>1, <2>2 DEF SecondOK
<1> QED BY <1>4, <1>5

(* An exporter goes on with its export, or ends it. *)
LEMMA SameExport ==
  ASSUME BundleInv, NEW x \in Exporters,
         Truncate(x) \/ WriteFile(x) \/ ExportFails(x) \/ Push(x) \/ NoPush(x)
  PROVE  /\ exp[x].pc # "idle"
         /\ \A y \in Exporters \ {x} : exp'[y] = exp[y]
         /\ exp'[x].pc # "idle" =>
              /\ exp'[x].id = exp[x].id /\ exp'[x].dir = exp[x].dir
              /\ exp'[x].pc = "write" => exp[x].pc = "write"
<1>0. exp \in [Exporters -> ExpTypes] /\ exp[x] \in ExpTypes /\ Idle.pc = "idle"
  BY DEF BundleInv, TypeInv, Idle
<1>1. exp[x].pc # "idle"
  BY DEF Truncate, WriteFile, ExportFails, Push, NoPush
<1>2. CASE Truncate(x)
  <2>1. PICK f : exp[x].pc = "write" /\ exp' = [exp EXCEPT ![x].cur = f]
    BY <1>2 DEF Truncate
  <2> QED BY <1>0, <2>1 DEF ExpTypes
<1>3. CASE WriteFile(x)
  <2>1. PICK l, pc : exp[x].pc = "write" /\ exp' = [exp EXCEPT ![x].left = l, ![x].cur = "", ![x].pc = pc]
    BY <1>3 DEF WriteFile
  <2> QED BY <1>0, <2>1 DEF ExpTypes
<1>4. CASE Push(x)
  <2>1. PICK r : /\ exp[x].pc = "push"
                 /\ \/ exp' = [exp EXCEPT ![x] = Idle]
                    \/ exp' = [exp EXCEPT ![x] = [exp[x] EXCEPT !.read = r]]
    BY <1>0, <1>4 DEF Push
  <2>2. CASE exp' = [exp EXCEPT ![x] = Idle]
    BY <1>0, <1>1, <2>2
  <2>3. CASE exp' = [exp EXCEPT ![x] = [exp[x] EXCEPT !.read = r]]
    BY <1>0, <2>1, <2>3 DEF ExpTypes
  <2> QED BY <2>1, <2>2, <2>3
<1>5. CASE ExportFails(x) \/ NoPush(x)
  <2>1. exp' = [exp EXCEPT ![x] = Idle]
    BY <1>5 DEF ExportFails, NoPush
  <2> QED BY <1>0, <1>1, <2>1
<1> QED BY <1>1, <1>2, <1>3, <1>4, <1>5

(* An exporter's step on the files of its directory, seen from another second. *)
LEMMA OtherSecond ==
  ASSUME SecondsInv, NEW x \in Exporters, NEW t \in Second, exp[x].dir # t,
         Truncate(x) \/ WriteFile(x) \/ ExportFails(x) \/ Push(x)
  PROVE  SecondOK(t)'
<1>0. /\ exp \in [Exporters -> ExpTypes] /\ exp[x] \in ExpTypes /\ SecondOK(t)
      /\ dirs \in [Second -> [Files -> Int]] /\ made \in [Second -> SUBSET Nat]
  BY DEF SecondsInv, BundleInv, TypeInv
<1>1. began' = began /\ reader' = reader
  BY DEF Truncate, WriteFile, ExportFails, Push, ghosts
<1>2. dirs'[t] = dirs[t] /\ made'[t] = made[t]
  BY <1>0 DEF Truncate, WriteFile, ExportFails, Push
<1>3. \A u \in portal' : u.dir = t => u \in portal
  <2>1. CASE Push(x)
    <3>1. PICK read : Sent(exp[x].dir, read, exp[x].id)
      BY <2>1 DEF Push
    <3> QED BY <3>1 DEF Sent
  <2>2. CASE ~ Push(x)
    BY <2>2 DEF Truncate, WriteFile, ExportFails
  <2> QED BY <2>1, <2>2
<1>6. \A y \in Exporters : Busy(y, t)' => Busy(y, t) /\ exp'[y] = exp[y]
  BY SameExport DEF SecondsInv, Busy
<1>7. Looking(t)' => Looking(t) /\ reader' = reader
  BY <1>1 DEF Looking
<1> QED BY <1>0, <1>1, <1>2, <1>3, <1>6, <1>7, Untouched

(* A busy exporter's second is one some export fell into. *)
LEMMA BusySecond ==
  ASSUME SecondsInv, NEW x \in Exporters, NEW t \in Second, Busy(x, t),
         began' = began, ASSUME NEW n \in Nat \ {0}, Single(t, n) PROVE Single(t, n)'
  PROVE  SecondOK(t)'
<1>1. SecondOK(t) /\ ~ Fresh(t)
  BY DEF SecondsInv, Fresh
<1>2. began'[t] # 0
  BY <1>1 DEF SecondOK
<1>3. began'[t] = 1 => \E n \in Nat \ {0} : Single(t, n)'
  BY <1>1 DEF SecondOK
<1> QED BY <1>2, <1>3 DEF SecondOK

(* The exporter that gives up its push has left everything as it is. *)
LEMMA NoPushSecond ==
  ASSUME SecondsInv, NEW x \in Exporters, NoPush(x), NEW t \in Second
  PROVE  SecondOK(t)'
<1>0. /\ exp \in [Exporters -> ExpTypes] /\ SecondOK(t) /\ exp' = [exp EXCEPT ![x] = Idle]
      /\ dirs' = dirs /\ made' = made /\ began' = began /\ reader' = reader /\ portal' = portal
  BY DEF SecondsInv, BundleInv, TypeInv, NoPush, ghosts
<1>1. exp'[x].pc = "idle" /\ \A y \in Exporters \ {x} : exp'[y] = exp[y]
  BY <1>0 DEF Idle
<1>2. \A y \in Exporters : Busy(y, t)' => Busy(y, t) /\ exp'[y] = exp[y]
  BY <1>1 DEF Busy
<1>3. Looking(t)' => Looking(t) /\ reader' = reader
  BY <1>0 DEF Looking
<1> QED BY <1>0, <1>2, <1>3, Untouched

(* One whose write fails leaves at most one more file that is not whole. *)
LEMMA ExportFailsSecond ==
  ASSUME SecondsInv, NEW x \in Exporters, ExportFails(x), NEW t \in Second, exp[x].dir = t
  PROVE  SecondOK(t)'
<1>0. /\ exp \in [Exporters -> ExpTypes] /\ exp[x] \in ExpTypes /\ exp[x].pc = "write"
      /\ dirs \in [Second -> [Files -> Int]] /\ Busy(x, t) /\ SecondOK(t)
      /\ exp' = [exp EXCEPT ![x] = Idle]
      /\ began' = began /\ made' = made /\ reader' = reader /\ portal' = portal
  BY DEF SecondsInv, BundleInv, TypeInv, ExportFails, Busy, ghosts
<1>1. exp'[x].pc = "idle" /\ \A y \in Exporters \ {x} : exp'[y] = exp[y]
  BY <1>0 DEF Idle
<1>2. \A g \in Files : dirs'[t][g] = dirs[t][g] \/ (g = exp[x].cur /\ ~ Whole(dirs'[t][g]))
  <2>1. CASE dirs' = dirs
    BY <2>1
  <2>2. CASE dirs' = [dirs EXCEPT ![t][exp[x].cur] = Mixed]
    <3>1. \A g \in Files : dirs'[t][g] = IF g = exp[x].cur THEN Mixed ELSE dirs[t][g]
      BY <1>0, <2>2
    <3> QED BY <3>1 DEF Whole
  <2> QED BY <2>1, <2>2 DEF ExportFails
<1>3. exp[x].cur # "" => exp[x].cur \in exp[x].left
  BY <1>0 DEF SecondsInv, BundleInv, ExpOK
<1>5. ASSUME NEW n \in Nat \ {0}, Single(t, n) PROVE Single(t, n)'
  <2>1. /\ \A y \in Exporters : Busy(y, t) => y = x
        /\ made[t] = {}
        /\ \A g \in exp[x].left : ~ Whole(dirs[t][g])
    BY <1>0, <1>5 DEF Single, Writing
  <2>2. \A y \in Exporters : ~ Busy(y, t)'
    BY <1>1, <2>1 DEF Busy
  <2>3. Whole(n) /\ \A g \in Files : dirs[t][g] = n => dirs'[t][g] = n
    <3>1. Whole(n)
      BY DEF Whole, Absent, Empty, Mixed
    <3>2. ASSUME NEW g \in Files, dirs[t][g] = n, g = exp[x].cur PROVE FALSE
      <4>1. g \in exp[x].left
        BY <1>3, <3>2 DEF Files
      <4> QED BY <2>1, <3>1, <3>2, <4>1
    <3> QED BY <1>2, <3>1, <3>2
  <2>4. Writing(t, n)'
    BY <2>2 DEF Writing
  <2>5. OnDisk(t, n)'
    BY <1>0, <1>2, <1>5, <2>1 DEF Single, OnDisk
  <2>6. Reading(t, n)'
    BY <1>0, <1>5, <2>3 DEF Single, Reading, Looking, AllOf, Listed, Files
  <2>7. OnPortal(t, n)'
    BY <1>0, <1>5 DEF Single, OnPortal
  <2> QED BY <2>4, <2>5, <2>6, <2>7 DEF Single
<1> QED BY <1>0, <1>5, BusySecond

(* Truncating a file that is not whole takes nothing away. *)
LEMMA TruncateSecond ==
  ASSUME SecondsInv, NEW x \in Exporters, Truncate(x), NEW t \in Second, exp[x].dir = t
  PROVE  SecondOK(t)'
<1>0. /\ exp \in [Exporters -> ExpTypes] /\ exp[x] \in ExpTypes /\ exp[x].pc = "write"
      /\ dirs \in [Second -> [Files -> Int]] /\ Busy(x, t) /\ SecondOK(t)
      /\ began' = began /\ made' = made /\ reader' = reader /\ portal' = portal
  BY DEF SecondsInv, BundleInv, TypeInv, Truncate, Busy, ghosts
<1>1. PICK f \in exp[x].left :
        dirs' = [dirs EXCEPT ![t][f] = Empty] /\ exp' = [exp EXCEPT ![x].cur = f]
  BY DEF Truncate
<1>2. f \in Files /\ dirs'[t][f] = Empty /\ \A g \in Files \ {f} : dirs'[t][g] = dirs[t][g]
  BY <1>0, <1>1 DEF ExpTypes
<1>3. /\ exp'[x].id = exp[x].id /\ exp'[x].pc = exp[x].pc /\ exp'[x].left = exp[x].left
      /\ exp'[x].dir = exp[x].dir /\ exp'[x].cur = f
      /\ \A y \in Exporters \ {x} : exp'[y] = exp[y]
  BY <1>0, <1>1 DEF ExpTypes
<1>4. ~ Whole(dirs'[t][f])
  BY <1>2 DEF Whole
<1>5. ASSUME NEW n \in Nat \ {0}, Single(t, n) PROVE Single(t, n)'
  <2>1. /\ \A y \in Exporters : Busy(y, t) => y = x
        /\ exp[x].id = n /\ made[t] = {}
        /\ \A g \in exp[x].left : ~ Whole(dirs[t][g])
        /\ \A g \in Files \ exp[x].left : dirs[t][g] = n
    BY <1>0, <1>5 DEF Single, Writing
  <2>2. \A y \in Exporters : Busy(y, t)' => y = x
    BY <1>3, <2>1 DEF Busy
  <2>3. /\ \A g \in exp[x].left : ~ Whole(dirs'[t][g])
        /\ \A g \in Files \ exp[x].left : dirs'[t][g] = n
        /\ \A g \in Files : dirs[t][g] = n => dirs'[t][g] = n
    <3>1. Whole(n)
      BY DEF Whole, Absent, Empty, Mixed
    <3>2. ~ Whole(dirs[t][f]) /\ exp[x].left \subseteq Files
      BY <1>0, <2>1 DEF ExpTypes
    <3> QED BY <1>2, <1>4, <2>1, <3>1, <3>2
  <2>4. Writing(t, n)'
    BY <1>0, <1>2, <1>3, <2>1, <2>2, <2>3 DEF Writing
  <2>5. OnDisk(t, n)'
    BY <1>0, <1>2, <1>4, <1>5, <2>1 DEF Single, OnDisk
  <2>6. Reading(t, n)'
    BY <1>0, <1>5, <2>3 DEF Single, Reading, Looking, AllOf, Listed, Files
  <2>7. OnPortal(t, n)'
    BY <1>0, <1>5 DEF Single, OnPortal
  <2> QED BY <2>4, <2>5, <2>6, <2>7 DEF Single
<1> QED BY <1>0, <1>5, BusySecond

(* A file is written; with the last one the directory is whole. *)
LEMMA WriteFileSecond ==
  ASSUME SecondsInv, NEW x \in Exporters, WriteFile(x), NEW t \in Second, exp[x].dir = t
  PROVE  SecondOK(t)'
<1> DEFINE f == exp[x].cur
           rest == exp[x].left \ {f}
           pc == IF Written(rest) THEN "push" ELSE "write"
           new == IF Written(rest) THEN made[t] \cup {exp[x].id} ELSE made[t]
<1>0. /\ exp \in [Exporters -> ExpTypes] /\ exp[x] \in ExpTypes /\ exp[x].pc = "write"
      /\ dirs \in [Second -> [Files -> Int]] /\ made \in [Second -> SUBSET Nat]
      /\ Busy(x, t) /\ SecondOK(t) /\ f # ""
      /\ began' = began /\ reader' = reader /\ portal' = portal
  BY DEF SecondsInv, BundleInv, TypeInv, WriteFile, Busy, ghosts
<1>1. /\ exp' = [exp EXCEPT ![x].left = rest, ![x].cur = "", ![x].pc = pc]
      /\ \E c \in Over(dirs[t][f], exp[x].id) : dirs' = [dirs EXCEPT ![t][f] = c]
      /\ made' = IF Written(rest) THEN [made EXCEPT ![t] = made[t] \cup {exp[x].id}] ELSE made
  BY DEF WriteFile
<1>2. made'[t] = new
  BY <1>0, <1>1
<1>3. f \in Files /\ f \in exp[x].left /\ exp[x].left \subseteq Files /\ exp[x].read = << >>
  BY <1>0 DEF ExpTypes, SecondsInv, BundleInv, ExpOK
<1>4. rest = {} <=> Written(rest)
  BY DEF Written
<1> HIDE DEF rest, pc, new, f
<1>5. /\ dirs[t][f] = Empty => dirs'[t][f] = exp[x].id
      /\ \A g \in Files \ {f} : dirs'[t][g] = dirs[t][g]
  <2>1. PICK c \in Over(dirs[t][f], exp[x].id) : dirs' = [dirs EXCEPT ![t][f] = c]
    BY <1>1
  <2>2. dirs'[t][f] = c /\ \A g \in Files \ {f} : dirs'[t][g] = dirs[t][g]
    BY <1>0, <1>3, <2>1
  <2> QED BY <2>1, <2>2 DEF Over
<1>6. /\ exp'[x].id = exp[x].id /\ exp'[x].pc = pc /\ exp'[x].left = rest
      /\ exp'[x].read = exp[x].read /\ exp'[x].cur = ""
      /\ exp'[x].dir = exp[x].dir /\ \A y \in Exporters \ {x} : exp'[y] = exp[y]
  BY <1>0, <1>1 DEF ExpTypes
<1>7. ASSUME NEW n \in Nat \ {0}, Single(t, n) PROVE Single(t, n)'
  <2>1. /\ \A y \in Exporters : Busy(y, t) => y = x
        /\ exp[x].id = n /\ made[t] = {}
        /\ \A g \in exp[x].left : ~ Whole(dirs[t][g])
        /\ \A g \in Files \ exp[x].left : dirs[t][g] = n
        /\ dirs'[t][f] = n
    BY <1>0, <1>5, <1>7 DEF Single, Writing, f
  <2>2. \A y \in Exporters : Busy(y, t)' => y = x
    BY <1>6, <2>1 DEF Busy
  <2>3. /\ \A g \in rest : ~ Whole(dirs'[t][g])
        /\ \A g \in Files \ rest : dirs'[t][g] = n
        /\ \A g \in Files : dirs[t][g] = n => dirs'[t][g] = n
    BY <1>3, <1>5, <2>1 DEF rest
  <2>4. Written(rest) => AllOf(t, n)'
    BY <1>4, <2>3 DEF AllOf
  <2>5. ~ Written(rest) => made'[t] = {} /\ exp'[x].pc = "write"
    BY <1>2, <1>6, <2>1 DEF new, pc
  <2>6. << >> \in Seq({n})
    OBVIOUS
  <2>7. Written(rest) => exp'[x].pc = "push"
    BY <1>6 DEF pc
  <2>8. Writing(t, n)'
    <3>1. CASE Written(rest)
      BY <1>3, <1>6, <2>1, <2>2, <2>4, <2>6, <2>7, <3>1 DEF Writing
    <3>2. CASE ~ Written(rest)
      BY <1>6, <2>1, <2>2, <2>3, <2>5, <3>2 DEF Writing
    <3> QED BY <3>1, <3>2
  <2>9. OnDisk(t, n)'
    BY <1>5, <1>7, <2>1, <2>4, <2>5 DEF Single, OnDisk
  <2>10. Reading(t, n)'
    BY <1>0, <1>7, <2>3 DEF Single, Reading, Looking, AllOf, Listed, Files
  <2>11. OnPortal(t, n)'
    BY <1>0, <1>7 DEF Single, OnPortal
  <2> QED BY <2>8, <2>9, <2>10, <2>11 DEF Single
<1> QED BY <1>0, <1>7, BusySecond

(* Reading one more file of n keeps what was read of n. *)
LEMMA ReadOne ==
  ASSUME NEW n, NEW r \in Seq({n})
  PROVE  Append(r, n) \in Seq({n})
BY AppendProperties

(* The next file of the whole directory goes into the archive. *)
LEMMA PushSecond ==
  ASSUME SecondsInv, NEW x \in Exporters, Push(x), NEW t \in Second, exp[x].dir = t
  PROVE  SecondOK(t)'
<1> DEFINE f == bundleFiles[Len(exp[x].read) + 1]
           read == Append(exp[x].read, dirs[t][f])
           e == IF Len(read) = Len(bundleFiles) THEN Idle ELSE [exp[x] EXCEPT !.read = read]
<1>0. /\ exp \in [Exporters -> ExpTypes] /\ exp[x] \in ExpTypes /\ exp[x].pc = "push"
      /\ Busy(x, t) /\ SecondOK(t) /\ Idle.pc = "idle"
      /\ began' = began /\ reader' = reader /\ dirs' = dirs /\ made' = made
  BY DEF SecondsInv, BundleInv, TypeInv, Push, Busy, Idle, ghosts
<1>1. exp' = [exp EXCEPT ![x] = e] /\ Sent(t, read, exp[x].id)
  BY <1>0 DEF Push
<1>2. f \in Files
  <2>1. exp[x].read \in Seq(Int) /\ Len(exp[x].read) < 3
    BY <1>0 DEF ExpTypes, SecondsInv, BundleInv, ExpOK
  <2>2. Len(exp[x].read) \in Nat
    BY <2>1, LenProperties
  <2> QED BY <2>1, <2>2, BundleFilesFacts
<1> HIDE DEF f
<1>3. e.pc # "idle" => /\ e.pc = "push" /\ e.id = exp[x].id /\ e.read = read
                       /\ e.left = exp[x].left /\ e.dir = t
  BY <1>0 DEF ExpTypes
<1> HIDE DEF e, read
<1>4. exp'[x] = e /\ \A y \in Exporters \ {x} : exp'[y] = exp[y]
  BY <1>0, <1>1
<1>5. ASSUME NEW n \in Nat \ {0}, Single(t, n) PROVE Single(t, n)'
  <2>1. /\ \A y \in Exporters : Busy(y, t) => y = x
        /\ exp[x].id = n /\ AllOf(t, n) /\ exp[x].read \in Seq({n})
    BY <1>0, <1>5 DEF Single, Writing
  <2>2. \A y \in Exporters : Busy(y, t)' => y = x
    BY <1>4, <2>1 DEF Busy
  <2>3. read \in Seq({n})
    BY <1>2, <2>1, ReadOne DEF AllOf, read
  <2>4. AllOf(t, n)'
    BY <1>0, <2>1 DEF AllOf
  <2>5. Writing(t, n)'
    BY <1>3, <1>4, <2>1, <2>2, <2>3, <2>4 DEF Writing, Busy
  <2>6. OnPortal(t, n)'
    BY <1>1, <1>5, <2>1, <2>3 DEF Single, OnPortal, Sent
  <2>7. OnDisk(t, n)' /\ Reading(t, n)'
    <3>1. Looking(t)' => Looking(t) /\ reader' = reader
      BY <1>0 DEF Looking
    <3> QED BY <1>0, <1>5, <3>1, PartsKept DEF Single
  <2> QED BY <2>5, <2>6, <2>7 DEF Single
<1> QED BY <1>0, <1>5, BusySecond

(* The reader's steps, seen from a second it does not look at afterwards. *)
LEMMA NotLooking ==
  ASSUME SecondsInv, VerifyManifest \/ VerifyFile \/ VerifyDone \/ PushVerified,
         NEW t \in Second, ~ Looking(t)', \A u \in portal' : u.dir = t => u \in portal
  PROVE  SecondOK(t)'
<1>1. SecondOK(t) /\ dirs' = dirs /\ made' = made /\ began' = began /\ exp' = exp
  BY DEF ghosts, SecondsInv, VerifyManifest, VerifyFile, VerifyDone, PushVerified
<1>2. \A x \in Exporters : Busy(x, t)' => Busy(x, t) /\ exp'[x] = exp[x]
  BY <1>1 DEF Busy
<1> QED BY <1>1, <1>2, Untouched

(* The reader's steps on the directory it goes on to look at. *)
LEMMA LookingOn ==
  ASSUME SecondsInv, VerifyManifest \/ VerifyFile \/ VerifyDone \/ PushVerified,
         NEW t \in Second, ~ Fresh(t), portal' = portal,
         ASSUME NEW n \in Nat \ {0}, Single(t, n) PROVE Reading(t, n)'
  PROVE  SecondOK(t)'
<1>1. SecondOK(t) /\ dirs' = dirs /\ made' = made /\ began' = began /\ exp' = exp
  BY DEF ghosts, SecondsInv, VerifyManifest, VerifyFile, VerifyDone, PushVerified
<1>2. \A x \in Exporters : Busy(x, t)' => Busy(x, t) /\ exp'[x] = exp[x]
  BY <1>1 DEF Busy
<1>3. ASSUME NEW n \in Nat \ {0}, Single(t, n) PROVE Single(t, n)'
  BY <1>1, <1>2, <1>3, PartsKept DEF Single
<1> QED BY <1>1, <1>3 DEF SecondOK

(* verify-bundle and push read a directory. *)
LEMMA ReaderSecond ==
  ASSUME SecondsInv, VerifyManifest \/ VerifyFile \/ VerifyDone, NEW t \in Second
  PROVE  SecondOK(t)'
<1>0. /\ reader \in ReaderTypes /\ dirs' = dirs /\ portal' = portal /\ NoReader.pc = "idle"
      /\ dirs \in [Second -> [Files -> Int]]
  BY DEF SecondsInv, BundleInv, TypeInv, VerifyManifest, VerifyFile, VerifyDone, NoReader
<1>1. CASE ~ Looking(t)'
  BY <1>0, <1>1, NotLooking
<1>2. CASE Looking(t)' /\ VerifyManifest
  <2>1. PICK d \in Second :
          /\ Whole(dirs[d]["manifest.json"])
          /\ reader' = [NoReader EXCEPT !.pc = "verify", !.dir = d, !.left = Listed,
                                        !.man = dirs[d]["manifest.json"]]
    BY <1>2 DEF VerifyManifest
  <2>2. /\ reader'.pc = "verify" /\ reader'.dir = d /\ reader'.left = Listed
        /\ reader'.man = dirs[d]["manifest.json"]
    BY <2>1 DEF NoReader
  <2>3. d = t
    BY <1>2, <2>2 DEF Looking
  <2>4. "manifest.json" \in Files
    BY DEF Files
  <2>5. ~ Fresh(t)
    BY <2>1, <2>3, <2>4 DEF Fresh, Whole
  <2>6. ASSUME NEW n \in Nat \ {0}, Single(t, n) PROVE Reading(t, n)'
    BY <1>0, <2>1, <2>2, <2>3, <2>4, <2>6 DEF Single, OnDisk, Reading
  <2> QED BY <1>0, <1>2, <2>5, <2>6, LookingOn
<1>3. CASE Looking(t)' /\ VerifyFile
  <2>0. reader.pc = "verify" /\ reader' # NoReader
    BY <1>0, <1>3 DEF VerifyFile, Looking
  <2>1. PICK f \in reader.left :
          LET c == dirs[reader.dir][f]
          IN  reader' = IF Matches(c, reader.man)
                        THEN [reader EXCEPT !.left = @ \ {f}]
                        ELSE NoReader
    BY <1>3 DEF VerifyFile
  <2>2. reader' = [reader EXCEPT !.left = reader.left \ {f}]
    BY <2>0, <2>1
  <2>3. dirs[reader.dir][f] = reader.man
    BY <2>0, <2>1 DEF Matches
  <2>4. /\ reader'.pc = "verify" /\ reader'.dir = reader.dir /\ reader'.man = reader.man
        /\ reader'.left = reader.left \ {f}
    BY <1>0, <2>0, <2>2 DEF ReaderTypes
  <2>5. reader.dir = t /\ Looking(t) /\ ~ Fresh(t)
    BY <1>3, <2>0, <2>4 DEF Looking, Fresh
  <2>6. ASSUME NEW n \in Nat \ {0}, Single(t, n) PROVE Reading(t, n)'
    BY <1>0, <2>0, <2>3, <2>4, <2>5, <2>6 DEF Single, Reading
  <2> QED BY <1>0, <1>3, <2>5, <2>6, LookingOn
<1>4. CASE Looking(t)' /\ VerifyDone
  <2>1. /\ reader.pc = "verify" /\ reader.left = {}
        /\ reader.read = << >> /\ reader' = [reader EXCEPT !.pc = "push"]
    BY <1>0, <1>4 DEF VerifyDone, Looking, SecondsInv, BundleInv, ReaderOK
  <2>2. /\ reader'.pc = "push" /\ reader'.dir = reader.dir /\ reader'.man = reader.man
        /\ reader'.read = << >>
    BY <1>0, <2>1 DEF ReaderTypes
  <2>3. reader.dir = t /\ Looking(t) /\ ~ Fresh(t)
    BY <1>4, <2>1, <2>2 DEF Looking, Fresh
  <2>4. ASSUME NEW n \in Nat \ {0}, Single(t, n) PROVE Reading(t, n)'
    <3>1. reader.man = n /\ dirs[t]["manifest.json"] = n /\ \A f \in Listed : dirs[t][f] = n
      BY <2>1, <2>3, <2>4 DEF Single, Reading
    <3>2. AllOf(t, n)'
      BY <1>0, <3>1 DEF AllOf, Files, Listed
    <3>3. << >> \in Seq({n})
      OBVIOUS
    <3> QED BY <1>0, <2>2, <3>1, <3>2, <3>3 DEF Reading
  <2> QED BY <1>0, <1>4, <2>3, <2>4, LookingOn
<1> QED BY <1>1, <1>2, <1>3, <1>4

(* A verified directory is read once more, for its archive. *)
LEMMA PushVerifiedSecond ==
  ASSUME SecondsInv, PushVerified, NEW t \in Second
  PROVE  SecondOK(t)'
<1> DEFINE d == reader.dir
           f == bundleFiles[Len(reader.read) + 1]
           read == Append(reader.read, dirs[d][f])
<1>0. /\ reader \in ReaderTypes /\ reader.pc = "push" /\ dirs' = dirs /\ NoReader.pc = "idle"
      /\ exp' = exp /\ made' = made /\ began' = began /\ SecondOK(t)
  BY DEF SecondsInv, BundleInv, TypeInv, PushVerified, NoReader, ghosts
<1>1. /\ Sent(d, read, reader.man)
      /\ \/ reader' = NoReader
         \/ reader' = [reader EXCEPT !.read = read]
  BY DEF PushVerified
<1>2. f \in Files
  <2>1. reader.read \in Seq(Int) /\ Len(reader.read) < 3
    BY <1>0 DEF ReaderTypes, SecondsInv, BundleInv, ReaderOK
  <2>2. Len(reader.read) \in Nat
    BY <2>1, LenProperties
  <2> QED BY <2>1, <2>2, BundleFilesFacts
<1> HIDE DEF f
<1>3. reader'.pc # "idle" => /\ reader'.pc = "push" /\ reader'.dir = d
                             /\ reader'.man = reader.man /\ reader'.read = read
  BY <1>0, <1>1 DEF ReaderTypes
<1>4. CASE t # d
  <2>1. ~ Looking(t)'
    BY <1>3, <1>4 DEF Looking
  <2>2. \A u \in portal' : u.dir = t => u \in portal
    BY <1>1, <1>4 DEF Sent
  <2> QED BY <2>1, <2>2, NotLooking
<1>5. CASE t = d
  <2>1. Looking(t) /\ ~ Fresh(t)
    BY <1>0, <1>5 DEF Looking, Fresh
  <2>2. ASSUME NEW n \in Nat \ {0}, Single(t, n) PROVE Single(t, n)'
    <3>1. /\ reader.man = n /\ dirs[t]["manifest.json"] = n /\ AllOf(t, n)
          /\ reader.read \in Seq({n})
      BY <1>0, <2>1, <2>2 DEF Single, Reading
    <3>2. read \in Seq({n})
      BY <1>2, <1>5, <3>1, ReadOne DEF AllOf
    <3>3. AllOf(t, n)'
      BY <1>0, <3>1 DEF AllOf
    <3> HIDE DEF read
    <3>4. Reading(t, n)'
      BY <1>0, <1>3, <3>1, <3>2, <3>3 DEF Reading, Looking
    <3>5. OnPortal(t, n)'
      BY <1>1, <1>5, <2>2, <3>1, <3>2 DEF Single, OnPortal, Sent
    <3>6. Writing(t, n)' /\ OnDisk(t, n)'
      <4>1. \A x \in Exporters : Busy(x, t)' => Busy(x, t) /\ exp'[x] = exp[x]
        BY <1>0 DEF Busy
      <4> QED BY <1>0, <2>2, <4>1, PartsKept DEF Single
    <3> QED BY <3>4, <3>5, <3>6 DEF Single
  <2> QED BY <1>0, <2>1, <2>2 DEF SecondOK
<1> QED BY <1>4, <1>5

(* The seconds stay in order over every step. *)
LEMMA SecondsStep == SecondsInv /\ [Next]_vars => SecondsInv'
<1> SUFFICES ASSUME SecondsInv, [Next]_vars PROVE SecondsInv'
  OBVIOUS
<1>1. BundleInv'
  BY BundleStep DEF SecondsInv
<1>2. ASSUME NEW t \in Second PROVE SecondOK(t)'
  <2>1. CASE Tick \/ UNCHANGED vars
    <3>1. /\ dirs' = dirs /\ exp' = exp /\ reader' = reader /\ began' = began
          /\ made' = made /\ portal' = portal /\ SecondOK(t)
      BY <2>1 DEF Tick, vars, ghosts, SecondsInv
    <3>2. \A x \in Exporters : Busy(x, t)' => Busy(x, t) /\ exp'[x] = exp[x]
      BY <3>1 DEF Busy
    <3>3. Looking(t)' => Looking(t) /\ reader' = reader
      BY <3>1 DEF Looking
    <3> QED BY <3>1, <3>2, <3>3, Untouched
  <2>2. ASSUME NEW x \in Exporters,
               \/ Export(x) \/ Truncate(x) \/ WriteFile(x)
               \/ ExportFails(x) \/ Push(x) \/ NoPush(x)
        PROVE  SecondOK(t)'
    BY <2>2, ExportSecond, ExportFailsSecond, NoPushSecond, OtherSecond, TruncateSecond,
       WriteFileSecond, PushSecond
  <2>3. CASE VerifyManifest \/ VerifyFile \/ VerifyDone
    BY <2>3, ReaderSecond
  <2>4. CASE PushVerified
    BY <2>4, PushVerifiedSecond
  <2> QED BY <2>1, <2>2, <2>3, <2>4 DEF Next
<1> QED BY <1>1, <1>2 DEF SecondsInv

(* Initially no second has an export. *)
LEMMA SecondsInit == Init => SecondsInv
<1> SUFFICES ASSUME Init PROVE SecondsInv
  OBVIOUS
<1>1. ASSUME NEW t \in Second PROVE SecondOK(t)
  <2>1. began[t] = 0
    BY DEF Init
  <2>2. \A x \in Exporters : ~ Busy(x, t)
    <3>1. Idle.pc = "idle"
      BY DEF Idle
    <3> QED BY <3>1 DEF Init, Busy
  <2>3. ~ Looking(t)
    <3>1. NoReader.pc = "idle"
      BY DEF NoReader
    <3> QED BY <3>1 DEF Init, Looking
  <2>4. made[t] = {} /\ portal = {} /\ \A f \in Files : dirs[t][f] = Absent
    BY DEF Init
  <2>5. Fresh(t)
    BY <2>2, <2>3, <2>4 DEF Fresh
  <2> QED BY <2>1, <2>5 DEF SecondOK
<1> QED BY <1>1, BundleInit DEF SecondsInv

(* Every reachable state has its seconds in order. *)
LEMMA SecondsAlways == Spec => []SecondsInv
BY SecondsInit, SecondsStep, PTL DEF Spec

-----------------------------------------------------------------------------
(* Exports are numbered as they begin. *)
Counted ==
  /\ \A t \in Second : last[t] <= count /\ made[t] \subseteq 1..count
  /\ \A x \in Exporters : exp[x].pc # "idle" => exp[x].id \in 1..count

(***************************************************************************)
(* A second whose exports took turns: the one that writes began last, what *)
(* it has written is its own, what it has opened is empty, and when it has *)
(* returned all is its own.                                                *)
(***************************************************************************)
Turns(t) ==
  ~ shared[t] =>
    /\ \A x, y \in Exporters : Writes(x, t) /\ Writes(y, t) => x = y
    /\ \A x \in Exporters : Writes(x, t) =>
         /\ exp[x].id = last[t]
         /\ last[t] \notin made[t]
         /\ \A f \in Files \ exp[x].left : dirs[t][f] = last[t]
         /\ exp[x].cur # "" => dirs[t][exp[x].cur] = Empty
    /\ last[t] \in made[t] => AllOf(t, last[t])

TurnsInv == BundleInv /\ Counted /\ \A t \in Second : Turns(t)

(* What a step does not touch of second t stays in turn. *)
LEMMA TurnKept ==
  ASSUME NEW t, Turns(t), dirs'[t] = dirs[t], made'[t] = made[t],
         last'[t] = last[t], shared'[t] = shared[t],
         \A x \in Exporters : Writes(x, t)' => Writes(x, t) /\ exp'[x] = exp[x]
  PROVE  Turns(t)'
BY DEF Turns, AllOf

(* An export that begins is the last one of its second. *)
LEMMA ExportTurn ==
  ASSUME TurnsInv, NEW x \in Exporters, Export(x)
  PROVE  Counted' /\ \A t \in Second : Turns(t)'
<1> DEFINE e == [Idle EXCEPT !.pc = "write", !.id = count + 1, !.dir = now, !.left = Files]
<1>0. /\ exp \in [Exporters -> ExpTypes] /\ count \in Nat /\ now \in Second
      /\ last \in [Second -> Nat] /\ shared \in [Second -> BOOLEAN]
      /\ made \in [Second -> SUBSET Nat] /\ exp[x].pc = "idle"
      /\ dirs' = dirs /\ made' = made /\ count' = count + 1
      /\ last' = [last EXCEPT ![now] = count + 1]
      /\ shared' = [shared EXCEPT ![now] = @ \/ \E y \in Exporters : Writes(y, now)]
  BY DEF TurnsInv, BundleInv, TypeInv, Export
<1>1. e.pc = "write" /\ e.id = count + 1 /\ e.dir = now /\ e.left = Files /\ e.cur = ""
  BY DEF Idle
<1>2. exp' = [exp EXCEPT ![x] = e]
  BY DEF Export
<1> HIDE DEF e
<1>3. exp'[x] = e /\ \A y \in Exporters \ {x} : exp'[y] = exp[y]
  BY <1>0, <1>2
<1>4. Counted'
  <2>1. 1..count \subseteq 1..count' /\ count + 1 \in 1..count'
    BY <1>0
  <2>2. ASSUME NEW t \in Second PROVE last'[t] <= count' /\ made'[t] \subseteq 1..count'
    <3>1. last[t] <= count /\ last[t] \in Nat /\ made[t] \subseteq 1..count
      BY <1>0 DEF TurnsInv, Counted
    <3>2. last'[t] = last[t] \/ last'[t] = count + 1
      BY <1>0
    <3>3. last'[t] <= count'
      BY <1>0, <3>1, <3>2
    <3> QED BY <1>0, <2>1, <3>1, <3>3
  <2>3. \A y \in Exporters : exp'[y].pc # "idle" => exp'[y].id \in 1..count'
    BY <1>1, <1>3, <2>1 DEF TurnsInv, Counted
  <2> QED BY <2>2, <2>3 DEF Counted
<1>5. ASSUME NEW t \in Second, t # now PROVE Turns(t)'
  <2>1. last'[t] = last[t] /\ shared'[t] = shared[t]
    BY <1>0, <1>5
  <2>2. \A y \in Exporters : Writes(y, t)' => Writes(y, t) /\ exp'[y] = exp[y]
    BY <1>1, <1>3, <1>5 DEF Writes
  <2> QED BY <1>0, <2>1, <2>2, TurnKept DEF TurnsInv
<1>6. ASSUME NEW t \in Second, t = now PROVE Turns(t)'
  <2>t. t = now
    BY <1>6
  <2>1. SUFFICES ASSUME ~ shared'[t]
                 PROVE  /\ \A y, z \in Exporters : Writes(y, t)' /\ Writes(z, t)' => y = z
                        /\ \A y \in Exporters : Writes(y, t)' =>
                             /\ exp'[y].id = last'[t]
                             /\ last'[t] \notin made'[t]
                             /\ \A f \in Files \ exp'[y].left : dirs'[t][f] = last'[t]
                             /\ exp'[y].cur # "" => dirs'[t][exp'[y].cur] = Empty
                        /\ last'[t] \notin made'[t]
    BY DEF Turns
  <2>2. \A y \in Exporters : ~ Writes(y, t)
    BY <1>0, <2>1, <2>t
  <2>3. \A y \in Exporters : Writes(y, t)' => y = x
    <3>1. \A y \in Exporters : Writes(y, t)' <=> exp'[y].pc = "write" /\ exp'[y].dir = t
      BY DEF Writes
    <3> QED BY <1>3, <2>2, <3>1 DEF Writes
  <2>4. last'[t] = count + 1 /\ last'[t] \notin made'[t]
    <3>1. made[t] \subseteq 1..count
      BY <1>0 DEF TurnsInv, Counted
    <3> QED BY <1>0, <2>t, <3>1
  <2> QED BY <1>1, <1>3, <2>3, <2>4
<1> QED BY <1>4, <1>5, <1>6

(* The other steps leave every second in turn that they do not write into. *)
LEMMA OtherTurn ==
  ASSUME TurnsInv, Next, \A x \in Exporters : ~ Export(x), NEW t \in Second,
         \A x \in Exporters :
           Truncate(x) \/ WriteFile(x) \/ ExportFails(x) => exp[x].dir # t
  PROVE  Turns(t)'
<1>0. /\ exp \in [Exporters -> ExpTypes] /\ Turns(t)
      /\ dirs \in [Second -> [Files -> Int]] /\ made \in [Second -> SUBSET Nat]
  BY DEF TurnsInv, BundleInv, TypeInv
<1>1. CASE UNCHANGED << dirs, exp, ghosts, made >>
  BY <1>0, <1>1, TurnKept DEF ghosts, Writes
<1>2. ASSUME NEW x \in Exporters, Push(x) \/ NoPush(x) PROVE Turns(t)'
  <2>1. UNCHANGED << dirs, ghosts, made >> /\ exp[x].pc = "push"
    BY <1>2 DEF Push, NoPush
  <2>2. exp'[x].pc # "write" /\ \A y \in Exporters \ {x} : exp'[y] = exp[y]
    BY <1>2, <2>1, SameExport DEF TurnsInv
  <2>3. \A y \in Exporters : Writes(y, t)' => Writes(y, t) /\ exp'[y] = exp[y]
    BY <2>2 DEF Writes
  <2> QED BY <1>0, <2>1, <2>3, TurnKept DEF ghosts
<1>3. ASSUME NEW x \in Exporters, Truncate(x) \/ WriteFile(x) \/ ExportFails(x)
      PROVE  Turns(t)'
  <2>1. UNCHANGED ghosts /\ exp[x].dir # t /\ exp[x] \in ExpTypes
    BY <1>0, <1>3 DEF Truncate, WriteFile, ExportFails
  <2>2. dirs'[t] = dirs[t] /\ made'[t] = made[t]
    BY <1>0, <1>3, <2>1 DEF Truncate, WriteFile, ExportFails
  <2>3. (exp'[x].pc = "idle" \/ exp'[x].dir = exp[x].dir)
        /\ \A y \in Exporters \ {x} : exp'[y] = exp[y]
    BY <1>3, SameExport DEF TurnsInv
  <2>4. \A y \in Exporters : Writes(y, t)' => Writes(y, t) /\ exp'[y] = exp[y]
    BY <2>1, <2>3 DEF Writes
  <2> QED BY <1>0, <2>1, <2>2, <2>4, TurnKept DEF ghosts
<1>4. CASE Tick \/ VerifyManifest \/ VerifyFile \/ VerifyDone \/ PushVerified
  BY <1>1, <1>4 DEF Tick, VerifyManifest, VerifyFile, VerifyDone, PushVerified
<1> QED BY <1>2, <1>3, <1>4 DEF Next

(* The export whose turn it is opens its next file. *)
LEMMA TruncateTurn ==
  ASSUME TurnsInv, NEW x \in Exporters, Truncate(x), NEW t \in Second, exp[x].dir = t
  PROVE  Turns(t)'
<1>0. /\ exp \in [Exporters -> ExpTypes] /\ exp[x] \in ExpTypes
      /\ dirs \in [Second -> [Files -> Int]] /\ Writes(x, t) /\ Turns(t)
      /\ last' = last /\ shared' = shared /\ made' = made
  BY DEF TurnsInv, BundleInv, TypeInv, Truncate, Writes, ghosts
<1>1. PICK f \in exp[x].left :
        dirs' = [dirs EXCEPT ![t][f] = Empty] /\ exp' = [exp EXCEPT ![x].cur = f]
  BY DEF Truncate
<1>2. f \in Files /\ dirs'[t][f] = Empty /\ \A g \in Files \ {f} : dirs'[t][g] = dirs[t][g]
  BY <1>0, <1>1 DEF ExpTypes
<1>3. /\ exp'[x].id = exp[x].id /\ exp'[x].pc = exp[x].pc /\ exp'[x].left = exp[x].left
      /\ exp'[x].dir = exp[x].dir /\ exp'[x].cur = f
      /\ \A y \in Exporters \ {x} : exp'[y] = exp[y]
  BY <1>0, <1>1 DEF ExpTypes
<1>4. ASSUME ~ shared[t]
      PROVE  /\ \A y \in Exporters : Writes(y, t)' => y = x
             /\ exp'[x].id = last[t] /\ last[t] \notin made[t]
             /\ \A g \in Files \ exp'[x].left : dirs'[t][g] = last[t]
             /\ dirs'[t][exp'[x].cur] = Empty
  <2>1. /\ \A y \in Exporters : Writes(y, t) => y = x
        /\ exp[x].id = last[t] /\ last[t] \notin made[t]
        /\ \A g \in Files \ exp[x].left : dirs[t][g] = last[t]
    BY <1>0, <1>4 DEF Turns
  <2>2. \A y \in Exporters : Writes(y, t)' => y = x
    <3>1. \A y \in Exporters : Writes(y, t)' <=> exp'[y].pc = "write" /\ exp'[y].dir = t
      BY DEF Writes
    <3> QED BY <1>3, <2>1, <3>1 DEF Writes
  <2>3. \A g \in Files \ exp'[x].left : dirs'[t][g] = last[t]
    BY <1>1, <1>2, <1>3, <2>1
  <2> QED BY <1>2, <1>3, <2>1, <2>2, <2>3
<1> QED BY <1>0, <1>4 DEF Turns

(* It writes it: into an empty file only its own content. *)
LEMMA WriteFileTurn ==
  ASSUME TurnsInv, NEW x \in Exporters, WriteFile(x), NEW t \in Second, exp[x].dir = t
  PROVE  Turns(t)'
<1> DEFINE f == exp[x].cur
           rest == exp[x].left \ {f}
           pc == IF Written(rest) THEN "push" ELSE "write"
           new == IF Written(rest) THEN made[t] \cup {exp[x].id} ELSE made[t]
<1>0. /\ exp \in [Exporters -> ExpTypes] /\ exp[x] \in ExpTypes
      /\ dirs \in [Second -> [Files -> Int]] /\ made \in [Second -> SUBSET Nat]
      /\ Writes(x, t) /\ Turns(t) /\ f # ""
      /\ last' = last /\ shared' = shared
  BY DEF TurnsInv, BundleInv, TypeInv, WriteFile, Writes, ghosts
<1>1. /\ exp' = [exp EXCEPT ![x].left = rest, ![x].cur = "", ![x].pc = pc]
      /\ \E c \in Over(dirs[t][f], exp[x].id) : dirs' = [dirs EXCEPT ![t][f] = c]
      /\ made' = IF Written(rest) THEN [made EXCEPT ![t] = made[t] \cup {exp[x].id}] ELSE made
  BY DEF WriteFile
<1>2. made'[t] = new
  BY <1>0, <1>1
<1>3. f \in Files
  BY <1>0 DEF ExpTypes
<1>4. rest = {} <=> Written(rest)
  BY DEF Written
<1>r. Files \ rest = (Files \ exp[x].left) \cup {f}
  BY <1>3
<1>w. exp[x].cur = f
  OBVIOUS
<1> HIDE DEF rest, pc, new, f
<1>5. /\ dirs[t][f] = Empty => dirs'[t][f] = exp[x].id
      /\ \A g \in Files \ {f} : dirs'[t][g] = dirs[t][g]
  <2>1. PICK c \in Over(dirs[t][f], exp[x].id) : dirs' = [dirs EXCEPT ![t][f] = c]
    BY <1>1
  <2>2. dirs'[t][f] = c /\ \A g \in Files \ {f} : dirs'[t][g] = dirs[t][g]
    BY <1>0, <1>3, <2>1
  <2> QED BY <2>1, <2>2 DEF Over
<1>6. /\ exp'[x].id = exp[x].id /\ exp'[x].pc = pc /\ exp'[x].left = rest
      /\ exp'[x].cur = ""
      /\ exp'[x].dir = exp[x].dir /\ \A y \in Exporters \ {x} : exp'[y] = exp[y]
  BY <1>0, <1>1 DEF ExpTypes
<1>7. ASSUME ~ shared[t]
      PROVE  /\ \A y \in Exporters : Writes(y, t)' => y = x /\ ~ Written(rest)
             /\ exp'[x].id = last[t]
             /\ ~ Written(rest) => last[t] \notin made'[t]
             /\ \A g \in Files \ rest : dirs'[t][g] = last[t]
             /\ Written(rest) => AllOf(t, last[t])'
  <2>1. /\ \A y \in Exporters : Writes(y, t) => y = x
        /\ exp[x].id = last[t] /\ last[t] \notin made[t]
        /\ \A g \in Files \ exp[x].left : dirs[t][g] = last[t]
        /\ dirs[t][f] = Empty
    BY <1>0, <1>7, <1>w DEF Turns
  <2>2. \A y \in Exporters : Writes(y, t)' => y = x /\ ~ Written(rest)
    BY <1>6, <2>1 DEF Writes, pc
  <2>3. \A g \in Files \ rest : dirs'[t][g] = last[t]
    BY <1>5, <1>r, <2>1
  <2>4. Written(rest) => AllOf(t, last[t])'
    BY <1>0, <1>4, <2>3 DEF AllOf
  <2>5. ~ Written(rest) => last[t] \notin made'[t]
    BY <1>2, <2>1 DEF new
  <2> QED BY <1>6, <2>1, <2>2, <2>3, <2>4, <2>5
<1>8. ASSUME ~ shared[t], last[t] \in made'[t] PROVE Written(rest)
  BY <1>7, <1>8
<1> QED BY <1>0, <1>6, <1>7, <1>8 DEF Turns

(* It fails and leaves no bundle. *)
LEMMA ExportFailsTurn ==
  ASSUME TurnsInv, NEW x \in Exporters, ExportFails(x), NEW t \in Second, exp[x].dir = t
  PROVE  Turns(t)'
<1>0. /\ exp \in [Exporters -> ExpTypes] /\ Writes(x, t) /\ Turns(t)
      /\ exp' = [exp EXCEPT ![x] = Idle]
      /\ last' = last /\ shared' = shared /\ made' = made
  BY DEF TurnsInv, BundleInv, TypeInv, ExportFails, Writes, ghosts
<1>1. exp'[x].pc = "idle" /\ \A y \in Exporters \ {x} : exp'[y] = exp[y]
  BY <1>0 DEF Idle
<1>2. ASSUME ~ shared[t]
      PROVE  (\A y \in Exporters : ~ Writes(y, t)') /\ last[t] \notin made[t]
  BY <1>0, <1>1, <1>2 DEF Turns, Writes
<1> QED BY <1>0, <1>2 DEF Turns

(* Every step. *)
LEMMA TurnsStep == TurnsInv /\ [Next]_vars => TurnsInv'
<1> SUFFICES ASSUME TurnsInv, [Next]_vars PROVE TurnsInv'
  OBVIOUS
<1>1. BundleInv'
  BY BundleStep DEF TurnsInv
<1>2. CASE UNCHANGED vars
  BY <1>1, <1>2 DEF vars, TurnsInv, Counted, Turns, Writes, AllOf
<1>3. ASSUME NEW x \in Exporters, Export(x) PROVE TurnsInv'
  BY <1>1, <1>3, ExportTurn DEF TurnsInv
<1>4. CASE Next /\ \A x \in Exporters : ~ Export(x)
  <2>1. last' = last /\ count' = count
    BY <1>4 DEF Next, Tick, Truncate, WriteFile, ExportFails, Push, NoPush, VerifyManifest,
                VerifyFile, VerifyDone, PushVerified, ghosts
  <2>2. \A t \in Second : made'[t] \subseteq 1..count
    <3>1. CASE made' = made
      BY <3>1 DEF TurnsInv, Counted
    <3>2. CASE made' # made
      <4>1. PICK x \in Exporters : WriteFile(x)
        BY <1>4, <3>2 DEF Next, Tick, Truncate, ExportFails, Push, NoPush, VerifyManifest,
                          VerifyFile, VerifyDone, PushVerified, ghosts
      <4>2. /\ made' = [made EXCEPT ![exp[x].dir] = made[exp[x].dir] \cup {exp[x].id}]
            /\ exp[x].pc = "write"
        BY <3>2, <4>1 DEF WriteFile
      <4>3. exp[x].id \in 1..count
        BY <4>2 DEF TurnsInv, Counted
      <4>4. \A t \in Second : made[t] \subseteq 1..count
        BY DEF TurnsInv, Counted
      <4> QED BY <4>2, <4>3, <4>4 DEF TurnsInv, BundleInv, TypeInv
    <3> QED BY <3>1, <3>2
  <2>3. \A x \in Exporters : exp'[x].pc # "idle" => exp'[x].id \in 1..count
    <3>1. CASE exp' = exp
      BY <3>1 DEF TurnsInv, Counted
    <3>2. ASSUME NEW x \in Exporters,
                 Truncate(x) \/ WriteFile(x) \/ ExportFails(x) \/ Push(x) \/ NoPush(x)
          PROVE  \A y \in Exporters : exp'[y].pc # "idle" => exp'[y].id \in 1..count
      BY <3>2, SameExport DEF TurnsInv, Counted
    <3> QED BY <1>4, <3>1, <3>2 DEF Next, Tick, VerifyManifest, VerifyFile, VerifyDone,
                                    PushVerified
  <2>4. Counted'
    BY <2>1, <2>2, <2>3 DEF TurnsInv, Counted
  <2>5. ASSUME NEW t \in Second PROVE Turns(t)'
    <3>1. CASE \E x \in Exporters : (Truncate(x) \/ WriteFile(x) \/ ExportFails(x))
                                    /\ exp[x].dir = t
      BY <3>1, TruncateTurn, WriteFileTurn, ExportFailsTurn
    <3>2. CASE \A x \in Exporters : Truncate(x) \/ WriteFile(x) \/ ExportFails(x)
                                      => exp[x].dir # t
      BY <1>4, <3>2, OtherTurn
    <3> QED BY <3>1, <3>2
  <2> QED BY <1>1, <2>4, <2>5 DEF TurnsInv
<1> QED BY <1>2, <1>3, <1>4 DEF Next

(* Initially no export has begun. *)
LEMMA TurnsInit == Init => TurnsInv
<1> SUFFICES ASSUME Init PROVE TurnsInv
  OBVIOUS
<1>1. Idle.pc = "idle"
  BY DEF Idle
<1>2. Counted
  BY <1>1 DEF Init, Counted
<1>3. ASSUME NEW t \in Second PROVE Turns(t)
  <2>1. made[t] = {} /\ \A x \in Exporters : ~ Writes(x, t)
    BY <1>1 DEF Init, Writes
  <2> QED BY <2>1 DEF Turns
<1> QED BY <1>2, <1>3, BundleInit DEF TurnsInv

(***************************************************************************)
(* The bundle an auditor can verify, README.md:15: for any number of       *)
(* exporters, seconds and exports, the directory that Export returned is   *)
(* that export's whole bundle from then on, also over what earlier exports *)
(* left there, unless another export was writing into it meanwhile or a    *)
(* later one begins.                                                       *)
(***************************************************************************)
THEOREM ExportedAlwaysVerifies == Spec => []ExportedVerifies
<1>1. TurnsInv => ExportedVerifies
  <2> SUFFICES ASSUME TurnsInv, NEW t \in Second, ~ shared[t], last[t] \in made[t]
               PROVE  dirs[t]["manifest.json"] = last[t] /\ Verifies(t)
    BY DEF ExportedVerifies
  <2>1. \A f \in Files : dirs[t][f] = last[t]
    BY DEF TurnsInv, Turns, AllOf
  <2>2. last[t] \in 1..count
    BY DEF TurnsInv, Counted
  <2> QED BY <2>1, <2>2 DEF Verifies, Whole, Matches, Absent, Empty, Mixed, Files, Listed
<1> QED BY <1>1, TurnsInit, TurnsStep, PTL DEF Spec

(***************************************************************************)
(* What ExportAndPush and `push` send of such a directory is one export,   *)
(* the one that was made or verified, whatever other exports do meanwhile. *)
(***************************************************************************)
THEOREM UploadedAlwaysWhole == Spec => []UploadedWhole
<1>1. SecondsInv => UploadedWhole
  <2> SUFFICES ASSUME SecondsInv, NEW u \in portal, began[u.dir] = 1,
                      NEW i \in 1..Len(u.files)
               PROVE  u.files[i] = u.as
    BY DEF UploadedWhole, Alone
  <2>1. u.dir \in Second
    BY DEF SecondsInv, BundleInv, TypeInv
  <2>2. PICK n \in Nat \ {0} : Single(u.dir, n)
    BY <2>1 DEF SecondsInv, SecondOK
  <2>3. u.as = n /\ u.files \in Seq({n})
    BY <2>2 DEF Single, OnPortal
  <2>4. u.files[i] \in {n}
    BY <2>3, ElementOfSeq
  <2> QED BY <2>3, <2>4
<1> QED BY <1>1, SecondsAlways, PTL
=============================================================================
