------------------------------- MODULE Report -------------------------------
(***************************************************************************)
(* Collection cycles and what a bundle's report.md tells an auditor of     *)
(* them: Scheduler.RunOnce runs the collectors (module Collectors) and     *)
(* turns what they return into records, Mapping.Apply gives them the       *)
(* controls of mapping/dora/dora.yaml, and Exporter.renderReport groups    *)
(* them.                                                                   *)
(***************************************************************************)
EXTENDS Collectors

CONSTANTS MaxCycles,  \* bound: collection cycles
          Cap         \* targets listed per control: 10 in the code

ASSUME ReportBounds == MaxCycles \in Nat /\ Cap \in Nat \ {0}

VARIABLES
  cycle,    \* the number of the cycle
  idx,      \* index of the collector RunOnce is at
  active,   \* its Collect is running
  recs,     \* the records of the store
  gaps,     \* ghost: failed collections since the chain began
  stepped   \* ghost: the wall clock has been set back

vars == << envVars, collecting, cycle, idx, active, recs, gaps, stepped >>

(* The rules of dora.yaml. *)
Rule(collector, type, controls) ==
  [collector |-> collector, type |-> type, controls |-> controls]

Rules ==
  { Rule("tlsscan", "tls/endpoint", {"9.2"}),
    Rule("certlifecycle", "cert-manager/certificate", {"9.4c", "8.1"}),
    Rule("certlifecycle", "cert-manager/issuer", {"9.4c"}),
    Rule("rbacposture", "rbac/cluster-role", {"9.4d"}),
    Rule("rbacposture", "rbac/binding", {"9.4d"}),
    Rule("rbacposture", "rbac/service-account", {"9.4d", "8.1"}),
    Rule("provenance", "workload/image", {"9.3", "8.1"}),
    Rule("provenance", "admission/policy", {"9.3"}) }
  \cup {Rule(c, "evidenced/collector-run", {"10.1", "6.1"}) :
          c \in {"tlsscan", "certlifecycle", "rbacposture", "provenance"}}

(* Mapping.Apply; the ids are sorted and unique, which a set is. *)
Apply(collector, type) ==
  UNION {r.controls : r \in {q \in Rules : q.collector = collector /\ q.type = type}}

Rec(collector, r) ==
  [collector |-> collector, type |-> r.type, name |-> r.name, failed |-> r.failed,
   at |-> r.at, controls |-> Apply(collector, r.type)]

(* Registry.All: collectors run in the order of their ids. *)
Registry ==
  LET Enabled(c) == IF c \in cfg.enabled THEN << c >> ELSE << >>
  IN  Enabled("certlifecycle") \o Enabled("provenance") \o Enabled("rbacposture")
        \o Enabled("tlsscan")

Init ==
  /\ CollectorsInit
  /\ cycle = 1
  /\ idx = 1
  /\ active = FALSE
  /\ recs = << >>
  /\ gaps = {}
  /\ stepped = FALSE
-----------------------------------------------------------------------------
Collect ==
  /\ ~active
  /\ idx <= Len(Registry)
  /\ Begin(Registry[idx])
  /\ active' = TRUE
  /\ UNCHANGED << cycle, idx, recs, gaps, stepped >>

CollectorCall ==
  /\ Call
  /\ UNCHANGED << cycle, idx, active, recs, gaps, stepped >>

(* Collect returned; its records are dropped once they are in the store. *)
Returned ==
  /\ active' = FALSE
  /\ idx' = idx + 1
  /\ calls' = << >>
  /\ out' = << >>
  /\ held' = << >>
  /\ UNCHANGED << cfg, world, now, changes, cycle, stepped >>

CollectOk ==
  /\ active
  /\ calls = << >>
  /\ recs' = recs \o [i \in DOMAIN out |-> Rec(Registry[idx], out[i])]
  /\ gaps' = gaps \cup {[collector |-> Registry[idx], at |-> out[i].at, name |-> out[i].name] :
                          i \in {k \in DOMAIN out : out[k].failed}}
  /\ Returned
  /\ UNCHANGED fails

(* Mutant: a collector that fails leaves no record. *)
FailureRecordNone(c) == << >>

(* RunOnce's record of a collector that returned an error. *)
FailureRecord(c) ==
  << Rec(c, [type |-> "evidenced/collector-run", name |-> << c >>, failed |-> TRUE,
             at |-> now]) >>

(* A List call fails: Collect returns nil and the error. *)
CollectFails ==
  /\ calls # << >>
  /\ Head(calls).res # "endpoint"
  /\ fails < MaxFails
  /\ fails' = fails + 1
  /\ recs' = recs \o FailureRecord(Registry[idx])
  /\ gaps' = gaps \cup
       {[collector |-> Registry[idx], at |-> now, name |-> << Registry[idx] >>]}
  /\ Returned

(* Kubernetes and the endpoints go on meanwhile. *)
WorldChanges ==
  /\ Change
  /\ UNCHANGED << cycle, idx, active, recs, gaps, stepped >>

(***************************************************************************)
(* The next cycle; it may begin a new chain with a rotation record.  Half  *)
(* a day has passed, or the clock was set back.                            *)
(***************************************************************************)
NextCycle ==
  /\ idx > Len(Registry)
  /\ cycle < MaxCycles
  /\ cycle' = cycle + 1
  /\ idx' = 1
  /\ now' \in {now + 1, now - 1}
  /\ stepped' = (stepped \/ now' < now)
  /\ \/ UNCHANGED << recs, gaps >>
     \/ /\ recs' = << [collector |-> "evidenced", type |-> "evidenced/chain-rotation",
                       name |-> << "store" >>, failed |-> FALSE, at |-> now',
                       controls |-> {}] >>
        /\ gaps' = {}
  /\ UNCHANGED << cfg, world, changes, fails, collecting, active >>

Next == Collect \/ CollectorCall \/ CollectOk \/ CollectFails \/ WorldChanges \/ NextCycle

Spec == Init /\ [][Next]_vars
-----------------------------------------------------------------------------
(* renderReport: the records of the failures section, by their place, *)
FailuresSection == {i \in DOMAIN recs : recs[i].failed}

(* those under a control, *)
ByControl(id) == {i \in DOMAIN recs : id \in recs[i].controls}

Target(r) == << r.type, r.name >>

(* Mutant: the first record of a target is kept. *)
NewerNever(r, cur) == FALSE

(* r.CollectedAt.After(cur.CollectedAt) *)
Newer(r, cur) == r.at > cur.at

(* and of each target the record that no later one replaced, *)
Latest(places) ==
  {k \in places :
     \A j \in places :
       Target(recs[j]) = Target(recs[k]) =>
         IF j < k THEN Newer(recs[k], recs[j]) ELSE ~Newer(recs[j], recs[k])}

(***************************************************************************)
(* newest first, at most max: as the map is ranged over in random order    *)
(* and the sort is not stable, records of one time come in any order.      *)
(***************************************************************************)
latestPerTarget(places, max) ==
  { SubSeq(s, 1, IF Len(s) < max THEN Len(s) ELSE max) :
      s \in {q \in SetToSeqs(Latest(places)) :
               \A i, j \in DOMAIN q : i < j => recs[q[i]].at >= recs[q[j]].at} }

AllControls == UNION {r.controls : r \in Rules}
-----------------------------------------------------------------------------
(* A collector has made all its calls and returns `out' without an error. *)
Returning == active /\ calls = << >>

(* What the documentation says each collector looks at. *)
Covers(col, o) ==
  \/ col = "provenance" /\ o.res \in Workloads \cup {"webhook"}
  \/ col = "rbacposture" /\ o.res \in {"clusterrole", "clusterrolebinding", "serviceaccount"}
  \/ col = "certlifecycle" /\ o.res \in {"certificate", "Issuer", "ClusterIssuer"}
  \/ col = "tlsscan" /\ o.res = "endpoint"

InScope(o) ==
  \/ o.res \notin Workloads \cup {"certificate", "Issuer"}
  \/ cfg.namespaces = << >>
  \/ o.ns \in ToSet(cfg.namespaces)

(* What Kubernetes lets a role do. *)
Permits(role, verb, resource) ==
  \E r \in role.rules : /\ {verb, "*"} \cap r.verbs # {}
                        /\ {resource, "*"} \cap r.resources # {}

Worrying(role) ==
  \/ \E r \in role.rules : "*" \in r.verbs \cup r.resources \cup r.apiGroups
  \/ \E v \in {"get", "list", "watch"} : Permits(role, v, "secrets")

(* Whether documentation promises a record for an object with contents c. *)
Noteworthy(o, c) ==
  \/ o.res = "endpoint"
  \/ /\ c # Absent
     /\ o.res = "clusterrole" => Worrying(c)
     /\ o.res = "clusterrolebinding" => c.roleRef = "cluster-admin"

(* days is the number of whole days left at time at, or of whole days gone. *)
DaysRight(days, at, notAfter) ==
  /\ days > 0 => at + 2 * days \in {notAfter, notAfter - 1}
  /\ days < 0 => at + 2 * days \in {notAfter, notAfter + 1}
  /\ days = 0 => at - notAfter \in -1..1

(* Record r is about object o and says what is so when it has contents c. *)
Says(r, o, c) ==
  CASE o.res \in Workloads ->
         /\ r.type = "workload/image" /\ r.name = << o.ns, o.name >> /\ r.obs.kind = o.res
         /\ r.obs.allDigestPinned <=> \A i \in DOMAIN c.containers : c.containers[i].digest
         /\ Len(r.obs.images) = Len(c.containers)
    [] o.res = "webhook" ->
         /\ r.type = "admission/policy" /\ o.name \in r.obs.hooks
         /\ c.engines # {} => r.obs.signatureVerificationDetected
    [] o.res = "clusterrole" ->
         /\ r.type = "rbac/cluster-role" /\ r.name = << o.name >>
         /\ r.obs.secretsRead <=> \E v \in {"get", "list", "watch"} : Permits(c, v, "secrets")
    [] o.res = "clusterrolebinding" ->
         r.type = "rbac/binding" /\ r.name = << o.name >> /\ r.obs.subjects = c.subjects
    [] o.res = "serviceaccount" ->
         /\ r.type = "rbac/service-account" /\ o.ns \in DOMAIN r.obs.perNamespace
         /\ r.obs.total <= Cardinality({s \in cfg.objects : /\ s.res = "serviceaccount"
                                                            /\ held[s] # {Absent}})
    [] o.res = "certificate" ->
         /\ r.type = "cert-manager/certificate" /\ r.name = << o.ns, o.name >>
         /\ r.obs.notAfter = c.notAfter /\ DOMAIN r.obs.days = DOMAIN c.notAfter
         /\ \A i \in DOMAIN c.notAfter : DaysRight(r.obs.days[i], r.at, c.notAfter[i])
    [] o.res \in {"Issuer", "ClusterIssuer"} ->
         r.type = "cert-manager/issuer" /\ r.obs.scope = o.res /\ Last(r.name) = o.name
    [] o.res = "endpoint" ->
         /\ r.type = "tls/endpoint" /\ r.name = << o.ns >> /\ r.failed = (c = Absent)
         /\ ~r.failed => /\ r.obs.notAfter = c.expiry
                         /\ DaysRight(r.obs.days, r.at, c.expiry)

(***************************************************************************)
(* "for every Deployment, StatefulSet and DaemonSet" (docs/collectors/     *)
(* provenance.md:8), "every subject" (rbacposture.md:15) and so on: though *)
(* the calls of a collection are made one after the other while objects    *)
(* come, go and change, an object in scope that stayed as it was from the  *)
(* first call to the last has its record, which says what the object is.   *)
(***************************************************************************)
EverythingSeen ==
  Returning =>
    \A o \in cfg.objects :
      Covers(Registry[idx], o) /\ InScope(o) /\ held[o] = {world[o]} /\ Noteworthy(o, world[o])
        => \E i \in DOMAIN out : Says(out[i], o, world[o])

(***************************************************************************)
(* No record is invented: it says what was so of some object of the scope  *)
(* at some moment of the collection; a summary names what was there.       *)
(***************************************************************************)
NothingInvented ==
  Returning =>
    \A i \in DOMAIN out :
      CASE out[i].type = "admission/policy" ->
             \A n \in out[i].obs.hooks : \E o \in cfg.objects :
               o.res = "webhook" /\ o.name = n /\ held[o] # {Absent}
        [] out[i].type = "rbac/service-account" ->
             \A n \in DOMAIN out[i].obs.perNamespace : \E o \in cfg.objects :
               o.res = "serviceaccount" /\ o.ns = n /\ held[o] # {Absent}
        [] OTHER ->
             \E o \in cfg.objects : \E c \in held[o] :
               /\ Covers(Registry[idx], o) /\ InScope(o) /\ Noteworthy(o, c)
               /\ Says(out[i], o, c)

(* Workloads of two kinds and one name have one target, t (see README.md). *)
Twins(t) ==
  \E o, p \in cfg.objects :
    /\ {o.res, p.res} \subseteq Workloads /\ o.res # p.res
    /\ t = << "workload/image", Qualified(o) >> /\ Qualified(p) = Qualified(o)

(***************************************************************************)
(* The report (exporter.go:180) takes records with one target for records  *)
(* of one object: those of a collection have targets of their own, objects *)
(* of one name in other namespaces and of another scope notwithstanding.   *)
(***************************************************************************)
TargetsIdentify ==
  Returning =>
    \A i, j \in DOMAIN out :
      i # j /\ Target(out[i]) = Target(out[j]) =>
        Twins(Target(out[i])) /\ out[i].obs.kind # out[j].obs.kind

(***************************************************************************)
(* Under every control, in every order the report may come out in, no      *)
(* target left out by the cap was seen after one that is listed, and, if   *)
(* the clock was never set back, each target is listed with what was last  *)
(* recorded of it.                                                         *)
(***************************************************************************)
SectionCurrent ==
  idx > Len(Registry) =>
    \A id \in AllControls :
      \A found \in latestPerTarget(ByControl(id), Cap) :
        /\ \A i \in DOMAIN found :
             \/ stepped
             \/ Twins(Target(recs[found[i]]))
             \/ \A k \in ByControl(id) :
                  Target(recs[k]) = Target(recs[found[i]]) => k <= found[i]
        /\ \A k \in ByControl(id) :
             \/ \E i \in DOMAIN found : Target(recs[found[i]]) = Target(recs[k])
             \/ Len(found) = Cap /\ \A i \in DOMAIN found : recs[found[i]].at >= recs[k].at

(***************************************************************************)
(* README.md:39, "a monitoring gap is a fact an auditor needs": each       *)
(* failed collection of the chain is in the report's failures section, and *)
(* where endpoints fail, each of them, by its name.                        *)
(***************************************************************************)
GapsReported ==
  \A g \in gaps : \E i \in FailuresSection :
    recs[i].collector = g.collector /\ recs[i].at = g.at /\ recs[i].name = g.name

(***************************************************************************)
(* README.md:39-40, collection failures are "recorded as evidence          *)
(* (Articles 10(1), 6(1))": every failed record carries those controls.    *)
(***************************************************************************)
FailuresMapped ==
  \A i \in DOMAIN recs : recs[i].failed => {"10.1", "6.1"} \subseteq recs[i].controls
=============================================================================
