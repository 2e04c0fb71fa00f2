------------------------------- MODULE Wiring -------------------------------
(***************************************************************************)
(* Engines coming up (internal/shells/wiring, evidence/signing.go): each   *)
(* process, a daemon or an engine of the operator, parses its document,    *)
(* configures the collectors, opens the store, loads the signing key or    *)
(* makes it, and builds the pusher.  It is tried again until it is up.     *)
(* All are configured with one key path; the file holds no key, a key (a   *)
(* number), or the beginning of one.                                       *)
(***************************************************************************)
EXTENDS Config, FiniteSets

CONSTANTS Setups,     \* which processes there may be: for each of them its
                      \* frontend, "file" or "policy", and its document
          MaxFaults   \* bound: processes killed and stores that do not open

AllProcs == UNION {DOMAIN s : s \in Setups}

ASSUME WiringAssumption == MaxFaults \in Nat
ASSUME SetupsAssumption ==
  \A s \in Setups : \A p \in DOMAIN s :
    s[p].front \in {"file", "policy"} /\ s[p].doc \in Documents

Missing == 0
Partial == -1    \* truncated, or not written to the end

VARIABLES
  setup,    \* one of Setups
  cfg,      \* the core.Config each makes of it, whenever it starts
  kube,     \* whether each process has a configuration of a cluster
  caThere,  \* the portal's CA file is mounted
  pc,       \* what each process does next
  handles,  \* store files each process has open
  file,     \* the key file
  key,      \* the key each process has loaded or made
  keys,     \* keys made so far
  faults,   \* faults so far
  used,       \* ghost: keys that engines were built with
  overlapped, \* ghost: two processes were making a key at the same time
  cut         \* ghost: a process died writing the key

conf == << setup, cfg, kube >>
keyVars == << file, key, keys, used, overlapped, cut >>
vars == << setup, cfg, kube, caThere, pc, handles, file, key, keys, faults, used,
           overlapped, cut >>

Procs == DOMAIN setup

Parsed(front, doc) == IF front = "file" THEN ParseConfig(doc) ELSE Translate(AsSpec(doc))

(***************************************************************************)
(* The operator lives in a cluster; the others have the factories for one  *)
(* when a configuration of a cluster resolves.                             *)
(***************************************************************************)
MayReach(front) == IF front = "policy" THEN {TRUE} ELSE BOOLEAN

Init ==
  /\ setup \in Setups
  /\ cfg = [p \in Procs |-> Parsed(setup[p].front, setup[p].doc)]
  /\ kube \in [Procs -> BOOLEAN]
  /\ \A p \in Procs : kube[p] \in MayReach(setup[p].front)
  /\ caThere = FALSE
  /\ pc = [p \in Procs |-> "down"]
  /\ handles = [p \in Procs |-> 0]
  /\ file = Missing
  /\ key = [p \in Procs |-> Missing]
  /\ keys = 0
  /\ faults = 0
  /\ used = {}
  /\ overlapped = FALSE
  /\ cut = FALSE

GoTo(p, label) == pc' = [pc EXCEPT ![p] = label]
-----------------------------------------------------------------------------
(* Mutant: a Build that failed is not tried again. *)
ConfigureOnce(p) ==
  /\ pc[p] = "down"
  /\ GoTo(p, IF cfg[p].ok /\ Registrable(cfg[p], kube[p]) THEN "open" ELSE "refused")
  /\ UNCHANGED << conf, caThere, handles, keyVars, faults >>

(* The document, then the registry: everything that needs no file. *)
Configure(p) ==
  /\ pc[p] \in {"down", "failed"}
  /\ GoTo(p, IF cfg[p].ok /\ Registrable(cfg[p], kube[p]) THEN "open" ELSE "refused")
  /\ UNCHANGED << conf, caThere, handles, keyVars, faults >>

(* OpenFileStore; without a key path there is no signing. *)
OpenStore(p) ==
  /\ pc[p] = "open"
  /\ handles' = [handles EXCEPT ![p] = @ + 1]
  /\ GoTo(p, IF cfg[p].keyPath = "" THEN "push" ELSE "load")
  /\ UNCHANGED << conf, caThere, keyVars, faults >>

OpenFails(p) ==
  /\ pc[p] = "open"
  /\ faults < MaxFaults
  /\ faults' = faults + 1
  /\ GoTo(p, "failed")
  /\ UNCHANGED << conf, caThere, handles, keyVars >>

(* Mutant: a Build that fails leaves its store open. *)
FailOpen(p) == GoTo(p, "failed") /\ UNCHANGED handles

(* A later step of Build fails: the store is closed again. *)
Fail(p) == GoTo(p, "failed") /\ handles' = [handles EXCEPT ![p] = @ - 1]

(* It found no key file and has not written its own yet. *)
Generating(p) == pc[p] \in {"create", "write"}

(***************************************************************************)
(* LoadSigningKey: a key is used, a file that does not parse is an error,  *)
(* and only a missing file leads on to generating one.                     *)
(***************************************************************************)
Load(p) ==
  /\ pc[p] = "load"
  /\ \/ /\ file = Missing
        /\ GoTo(p, "stat")
        /\ UNCHANGED << handles, key, used >>
     \/ /\ file > 0
        /\ GoTo(p, "push")
        /\ key' = [key EXCEPT ![p] = file]
        /\ used' = used \cup {file}
        /\ UNCHANGED handles
     \/ /\ file = Partial
        /\ Fail(p)
        /\ UNCHANGED << key, used >>
  /\ UNCHANGED << conf, caThere, file, keys, overlapped, cut, faults >>

(* GenerateSigningKey: an existing file is not overwritten. *)
Stat(p) ==
  /\ pc[p] = "stat"
  /\ \/ /\ file = Missing
        /\ keys' = keys + 1
        /\ key' = [key EXCEPT ![p] = keys']
        /\ GoTo(p, "create")
        /\ overlapped' = (overlapped \/ \E q \in Procs : Generating(q))
        /\ UNCHANGED handles
     \/ /\ file # Missing
        /\ Fail(p)
        /\ UNCHANGED << key, keys, overlapped >>
  /\ UNCHANGED << conf, caThere, file, used, cut, faults >>

(* os.WriteFile: open and truncate, *)
Create(p) ==
  /\ pc[p] = "create"
  /\ file' = Partial
  /\ GoTo(p, "write")
  /\ UNCHANGED << conf, caThere, handles, key, keys, used, overlapped, cut, faults >>

(* Mutant: the new key is not kept. *)
BlockNone(p) == Missing

(* Mutant: the key is written without its end. *)
BlockCut(p) == Partial

(* What the file holds when p has written its key. *)
Block(p) == key[p]

(* then write. *)
Write(p) ==
  /\ pc[p] = "write"
  /\ file' = Block(p)
  /\ used' = used \cup {key[p]}
  /\ GoTo(p, "push")
  /\ UNCHANGED << conf, caThere, handles, key, keys, overlapped, cut, faults >>

(* push.New, when the document has a push block: the last thing to fail. *)
Finish(p) ==
  /\ pc[p] = "push"
  /\ IF cfg[p].push.url => Pushable(cfg[p].push, caThere)
     THEN GoTo(p, "up") /\ UNCHANGED handles
     ELSE Fail(p)
  /\ UNCHANGED << conf, caThere, keyVars, faults >>

(***************************************************************************)
(* The process ends or is killed, at any point, or fails writing the key.  *)
(* An engine that is up is also closed when its policy changes.            *)
(***************************************************************************)
Exit(p) ==
  /\ pc[p] \notin {"down", "refused"}
  /\ faults < MaxFaults
  /\ faults' = faults + 1
  /\ GoTo(p, "down")
  /\ handles' = [handles EXCEPT ![p] = 0]
  /\ key' = [key EXCEPT ![p] = Missing]
  /\ cut' = (cut \/ pc[p] = "write")
  /\ UNCHANGED << conf, caThere, file, keys, used, overlapped >>

(* The mount of a CA file that some document names arrives late. *)
Mount ==
  /\ ~caThere
  /\ \E p \in Procs : cfg[p].ok /\ cfg[p].push.url /\ cfg[p].push.ca
  /\ caThere' = TRUE
  /\ UNCHANGED << conf, pc, handles, keyVars, faults >>

(* What a process does by itself. *)
BuildStep(p) ==
  \/ Configure(p) \/ OpenStore(p)
  \/ Load(p) \/ Stat(p) \/ Create(p) \/ Write(p)
  \/ Finish(p)

Next == Mount \/ \E p \in Procs : BuildStep(p) \/ OpenFails(p) \/ Exit(p)

(* systemd restarts the daemon and the operator requeues; mounts arrive. *)
Fairness == WF_vars(Mount) /\ \A p \in AllProcs : WF_vars(p \in Procs /\ BuildStep(p))

Spec == Init /\ [][Next]_vars /\ Fairness
-----------------------------------------------------------------------------
(***************************************************************************)
(* signing.go:12, "refusing to overwrite an existing key": unless two      *)
(* processes were generating a key at the same time, one key signs all     *)
(* bundles, whichever processes made them and however often they were      *)
(* started, killed and started again.                                      *)
(***************************************************************************)
OneKeySigns == ~overlapped => Cardinality(used) <= 1

(***************************************************************************)
(* wiring.go:140, the key is loaded, "generating it on first run": unless  *)
(* a write of the key was cut short, no process is left with a file that   *)
(* it can neither load nor replace, even when several start together.      *)
(***************************************************************************)
Startable == ~cut => (file # Partial \/ \E p \in Procs : pc[p] = "write")

(***************************************************************************)
(* The operator builds again and again in one process: whichever step of   *)
(* Build fails, only an engine that is up, or coming up, has a store open. *)
(***************************************************************************)
NoStoreLeft ==
  \A p \in Procs :
    handles[p] = IF pc[p] \in {"down", "failed", "refused", "open"} THEN 0 ELSE 1

(***************************************************************************)
(* What a running engine does.  A path that the document leaves out is the *)
(* frontend's own and not compared.                                        *)
(***************************************************************************)
Behaviour(p) ==
  [storePath |-> IF setup[p].doc.storePath = "" THEN "" ELSE cfg[p].storePath,
   exportDir |-> IF setup[p].doc.exportDir = "" THEN "" ELSE cfg[p].exportDir,
   interval |-> cfg[p].interval, rotate |-> cfg[p].rotate, keyPath |-> cfg[p].keyPath,
   push |-> cfg[p].push,
   collectors |-> [n \in EnabledIn(cfg[p]) |-> cfg[p].collectors[n].settings]]

(* Collectors are enabled that need a cluster. *)
NeedsCluster(c) == ~(EnabledIn(c) \subseteq Factories(FALSE))

(* Only ParseConfig refuses it. *)
StricterFile(doc) ==
  \/ doc.form # "known"
  \/ ~IsInjective(Names(doc.entries))
  \/ doc.rotate # 0 /\ doc.rotate < Day

(***************************************************************************)
(* "all shells expose identical behavior for the same YAML" (wiring.go:3): *)
(* engines of one document behave the same, whichever frontend it came     *)
(* through, and when one is up no other is refused, but for a daemon or    *)
(* CLI that has no cluster for a collector which needs one, and for what   *)
(* the file's frontend alone refuses: a file with nothing in it, an        *)
(* unknown field, a collector listed twice, an age below 24 h.             *)
(***************************************************************************)
FrontendsAgree ==
  \A p, q \in Procs :
    LET doc == setup[p].doc IN
    pc[p] = "up" /\ doc = setup[q].doc =>
      /\ pc[q] = "up" => Behaviour(p) = Behaviour(q)
      /\ pc[q] = "refused" =>
           /\ setup[q].front = "file"
           /\ \/ ~kube[q] /\ NeedsCluster(cfg[p])
              \/ setup[p].front = "policy" /\ StricterFile(doc)

(* The document of p asks for nothing that Build refuses. *)
Sound(p) ==
  /\ p \in Procs
  /\ cfg[p].ok /\ Registrable(cfg[p], kube[p])
  /\ cfg[p].push.url => Pushable(cfg[p].push, TRUE)

(***************************************************************************)
(* "so a daemon can start before its secret mount" (push.go:38): a process *)
(* with a document that can be built comes up, whatever others do to the   *)
(* key at the same time, once kills cease and mounts are there, unless a   *)
(* write of the key was cut short.                                         *)
(***************************************************************************)
ComesUp ==
  \A p \in AllProcs :
    Sound(p) => <>(cut \/ []<>(p \in Procs /\ pc[p] = "up"))
=============================================================================
