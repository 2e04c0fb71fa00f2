----------------------------- MODULE Collectors -----------------------------
(***************************************************************************)
(* The four collectors.  provenance, rbacposture and certlifecycle make    *)
(* one List call after another against a cluster that changes meanwhile,   *)
(* and return nothing when one of them fails; tlsscan shakes hands with    *)
(* one endpoint after another, and an endpoint that does not answer is a   *)
(* failed record.  Module Report runs them in cycles.                      *)
(*                                                                         *)
(* An object is [res, ns, name]: what List calls find.  An endpoint is an  *)
(* object too; its address is its place.  `world' gives each object its    *)
(* contents, of which the model has the fields that an observation depends *)
(* on; fields that are copied as they are have one, `spec'.                *)
(***************************************************************************)
EXTENDS Integers, Sequences, FiniteSets, SequencesExt

CONSTANTS
  Contents,    \* the contents an object may have: Contents[o], for each object
  Configs,     \* the configurations: [enabled, namespaces, objects]
  MaxChanges,  \* bound: changes of the cluster or of an endpoint
  MaxFails     \* bound: List calls that fail

Objects == DOMAIN Contents
Absent == [res |-> "none"]  \* deleted, or an endpoint that does not answer
All == "all"                \* NamespaceAll: no namespace has this name

Workloads == {"Deployment", "StatefulSet", "DaemonSet"}
Namespaced == Workloads \cup {"certificate", "Issuer", "serviceaccount"}
ClusterScoped == {"webhook", "clusterrole", "clusterrolebinding", "ClusterIssuer"}

(* What Kubernetes and the endpoints can hold. *)
ASSUME ObjectsAssumption ==
  \A o \in Objects :
    /\ o \in [res : Namespaced \cup ClusterScoped \cup {"endpoint"}, ns : STRING, name : STRING]
    /\ o.ns # All
    /\ o.res \in ClusterScoped => o.ns = ""
    /\ o.res = "endpoint" => o.name = ""
    /\ Absent \notin Contents[o]
    /\ \A c \in Contents[o] :
         /\ o.res \in Workloads => c.containers \in Seq(ToSet(c.containers))
         /\ o.res = "certificate" => c.notAfter \in Seq(Int)
         /\ o.res = "endpoint" => c.expiry \in Int

ASSUME CollectorsAssumption ==
  /\ MaxChanges \in Nat /\ MaxFails \in Nat
  /\ \A c \in Configs : /\ c.objects \subseteq Objects
                        /\ IsFiniteSet(c.objects)
                        /\ c.namespaces \in Seq(STRING)
                        /\ IsInjective(c.namespaces) /\ All \notin ToSet(c.namespaces)

VARIABLES
  cfg,      \* the configuration of this process
  world,    \* the contents of each object
  now,      \* the wall clock, in half days
  changes,  \* changes so far
  fails,    \* failed calls so far
  calls,    \* the calls the running collector has still to make
  out,      \* the records it has so far
  held      \* ghost: the contents an object has had since it began

collecting == << calls, out, held >>
envVars == << cfg, world, now, changes, fails >>
-----------------------------------------------------------------------------
(* Which calls a collector makes. *)

(* Mutant: the configured namespaces are not looked at. *)
namespacesIgnored(nss) == << All >>

namespaces(nss) == IF nss = << >> THEN << All >> ELSE nss

(* In each namespace, a call for each of the kinds. *)
ListIn(nss, kinds) ==
  [i \in 1 .. Len(nss) * Len(kinds) |->
    [res |-> kinds[1 + ((i - 1) % Len(kinds))],
     ns |-> nss[1 + ((i - 1) \div Len(kinds))]]]

Endpoints == SetToSeq({o.ns : o \in {e \in cfg.objects : e.res = "endpoint"}})

CallsOf(col) ==
  LET nss == namespaces(cfg.namespaces) IN
  CASE col = "provenance" ->
         ListIn(nss, << "Deployment", "StatefulSet", "DaemonSet" >>)
           \o ListIn(<< All >>, << "webhook" >>)
    [] col = "rbacposture" ->
         ListIn(<< All >>, << "clusterrole", "clusterrolebinding", "serviceaccount" >>)
    [] col = "certlifecycle" ->
         ListIn(nss, << "certificate" >>) \o ListIn(nss, << "Issuer" >>)
           \o ListIn(<< All >>, << "ClusterIssuer" >>)
    [] col = "tlsscan" -> ListIn(Endpoints, << "endpoint" >>)

(* What a call selects, whether it is there or not. *)
Selects(call, o) == o.res = call.res /\ call.ns \in {All, o.ns}

Items(call) == {o \in cfg.objects : Selects(call, o) /\ world[o] # Absent}
-----------------------------------------------------------------------------
(* What they record of what they find. *)

(* Strings are joined with a slash, which no Kubernetes name contains. *)
Qualified(o) == << o.ns, o.name >>

Observed(type, name, obs) ==
  [type |-> type, name |-> name, failed |-> FALSE, at |-> now, obs |-> obs]

(***************************************************************************)
(* An image is [first, host, digest]: what comes before its first slash,   *)
(* or "" if it has none; whether that contains a dot or a colon or is      *)
(* localhost; and whether a digest is named.                               *)
(***************************************************************************)
registryOf(image) ==
  IF image.first # "" /\ image.host THEN image.first ELSE "docker.io"

(* Init containers are not looked at. *)
workloadRecord(o, c) ==
  Observed("workload/image", Qualified(o),
    [kind |-> o.res,
     images |-> [i \in DOMAIN c.containers |->
                   [registry |-> registryOf(c.containers[i]),
                    pinned |-> c.containers[i].digest]],
     allDigestPinned |-> \A i \in DOMAIN c.containers : c.containers[i].digest])

(* The contents of a webhook configuration: the engines its name contains. *)
admissionRecord(hooks) ==
  LET engines == UNION {world[h].engines : h \in hooks}
  IN  Observed("admission/policy", << "cluster-wide" >>,
        [hooks |-> {h.name : h \in hooks}, engines |-> engines,
         signatureVerificationDetected |-> engines # {}])

(* Mutant: a wildcard is not looked for among the resources. *)
readsSecretsNamed(rule) ==
  /\ "secrets" \in rule.resources
  /\ rule.verbs \cap {"get", "list", "watch", "*"} # {}

readsSecrets(rule) ==
  /\ {"secrets", "*"} \cap rule.resources # {}
  /\ rule.verbs \cap {"get", "list", "watch", "*"} # {}

analyzeRole(o, c) ==
  [builtin           |-> c.system,
   rules             |-> Cardinality(c.rules),
   wildcardVerbs     |-> \E r \in c.rules : "*" \in r.verbs,
   wildcardResources |-> \E r \in c.rules : "*" \in r.resources,
   wildcardAPIGroups |-> \E r \in c.rules : "*" \in r.apiGroups,
   secretsRead       |-> \E r \in c.rules : readsSecrets(r)]

Privileged(obs) ==
  obs.wildcardVerbs \/ obs.wildcardResources \/ obs.wildcardAPIGroups \/ obs.secretsRead

roleRecord(o, c) == Observed("rbac/cluster-role", << o.name >>, analyzeRole(o, c))

bindingRecord(o, c) == Observed("rbac/binding", << o.name >>, c)

(* The service-account summary. *)
saSummary(sas) ==
  LET in == {s.ns : s \in sas}
  IN  Observed("rbac/service-account", << "cluster-wide" >>,
        [total |-> Cardinality(sas), namespaces |-> Cardinality(in),
         perNamespace |-> [n \in in |-> Cardinality({s \in sas : s.ns = n})]])

(* int(d.Hours() / 24) cuts towards zero. *)
Days(notAfter) ==
  IF notAfter >= now THEN (notAfter - now) \div 2 ELSE -((now - notAfter) \div 2)

(* The first condition of type Ready counts. *)
readyCondition(conditions) ==
  LET ready == SelectSeq(conditions, LAMBDA k : k.type = "Ready")
  IN  IF ready = << >> THEN "Unknown" ELSE Head(ready).status

(* nestedTime: << t >>, or << >> if there is none yet or it cannot be parsed. *)
certRecord(o, c) ==
  Observed("cert-manager/certificate", Qualified(o),
    [spec |-> c.spec, notAfter |-> c.notAfter,
     days |-> [i \in DOMAIN c.notAfter |-> Days(c.notAfter[i])],
     ready |-> readyCondition(c.conditions)])

(* Backends are looked for in this order; keys is the set of keys of spec. *)
issuerType(keys) ==
  LET known == SelectSeq(<< "acme", "ca", "vault", "selfSigned", "venafi" >>,
                         LAMBDA t : t \in keys)
  IN  IF known = << >> THEN "unknown" ELSE Head(known)

(* Mutant: the namespace of an issuer is left out of its name. *)
issuerNameBare(o) == << o.name >>

issuerName(o) == IF o.res = "Issuer" THEN Qualified(o) ELSE << o.name >>

issuerRecord(o, c) ==
  Observed("cert-manager/issuer", issuerName(o),
    [scope |-> o.res, issuerType |-> issuerType(c.keys),
     ready |-> readyCondition(c.conditions)])

(***************************************************************************)
(* The handshake, or its failure.  `version' is 10 to 13; `trusted' and    *)
(* `hostname' are what x509 says of the chain and of the name.             *)
(***************************************************************************)
scan(endpoint, c) ==
  IF c = Absent
  THEN [type |-> "tls/endpoint", name |-> << endpoint >>, failed |-> TRUE, at |-> now,
        obs |-> "error"]
  ELSE Observed("tls/endpoint", << endpoint >>,
         [version |-> c.version, minTls12Enforced |-> c.version >= 12, spec |-> c.spec,
          notAfter |-> c.expiry, days |-> Days(c.expiry),
          hostnameMatches |-> c.hostname, chainTrusted |-> c.trusted /\ c.hostname])

(* A record of each item, in the order in which the call returned them. *)
Each(Rec(_, _), items) ==
  LET seq == SetToSeq(items) IN [i \in DOMAIN seq |-> Rec(seq[i], world[seq[i]])]

(* What the loops over a call's items append. *)
RecordsOf(call) ==
  LET items == Items(call) IN
  CASE call.res \in Workloads -> Each(workloadRecord, items)
    [] call.res = "webhook" -> << admissionRecord(items) >>
    [] call.res = "clusterrole" ->
         Each(roleRecord, {o \in items : Privileged(analyzeRole(o, world[o]))})
    [] call.res = "clusterrolebinding" ->
         Each(bindingRecord, {o \in items : world[o].roleRef = "cluster-admin"})
    [] call.res = "serviceaccount" -> << saSummary(items) >>
    [] call.res = "certificate" -> Each(certRecord, items)
    [] call.res \in {"Issuer", "ClusterIssuer"} -> Each(issuerRecord, items)
    [] call.res = "endpoint" ->
         << scan(call.ns, world[CHOOSE o \in cfg.objects : Selects(call, o)]) >>
-----------------------------------------------------------------------------
CollectorsInit ==
  /\ cfg \in Configs
  /\ world \in {w \in [cfg.objects -> {Absent} \cup UNION {Contents[o] : o \in cfg.objects}] :
                 \A o \in cfg.objects : w[o] \in Contents[o] \cup {Absent}}
  /\ now = 1
  /\ changes = 0
  /\ fails = 0
  /\ calls = << >>
  /\ out = << >>
  /\ held = << >>

(* Collect is called. *)
Begin(col) ==
  /\ calls' = CallsOf(col)
  /\ out' = << >>
  /\ held' = [o \in cfg.objects |-> {world[o]}]
  /\ UNCHANGED envVars

(* The next call returns; an endpoint's failure is a result too. *)
Call ==
  /\ calls # << >>
  /\ out' = out \o RecordsOf(Head(calls))
  /\ calls' = Tail(calls)
  /\ UNCHANGED << envVars, held >>

(* An object is created, changed or deleted; an endpoint goes away or comes. *)
Change ==
  /\ changes < MaxChanges
  /\ changes' = changes + 1
  /\ \E o \in cfg.objects : \E c \in (Contents[o] \cup {Absent}) \ {world[o]} :
       /\ world' = [world EXCEPT ![o] = c]
       /\ held' = [x \in DOMAIN held |-> held[x] \cup {world'[x]}]
  /\ UNCHANGED << cfg, now, fails, calls, out >>
=============================================================================
