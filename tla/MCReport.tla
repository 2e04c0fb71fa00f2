------------------------------ MODULE MCReport ------------------------------
(***************************************************************************)
(* Small clusters for module Report: one or more per collector, one for    *)
(* the two kinds of failure, and one with what the code does not tell      *)
(* apart, workloads of two kinds with one name (see README.md).            *)
(***************************************************************************)
EXTENDS Report, TLC

Obj(res, ns, name) == [res |-> res, ns |-> ns, name |-> name]
Img(first, host, digest) == [first |-> first, host |-> host, digest |-> digest]
Pod(images) == [containers |-> images]
Role(verbs, resources) ==
  [system |-> FALSE,
   rules |-> {[verbs |-> verbs, resources |-> resources, apiGroups |-> {"core"}]}]
Cert(notAfter) ==  \* << >> before it is issued
  [spec |-> "s", notAfter |-> notAfter,
   conditions |-> << [type |-> "Issuing", status |-> "False"],
                     [type |-> "Ready", status |-> "True"] >>]
Iss(keys) == [keys |-> keys, conditions |-> << >>]
Server(version, expiry) ==
  [version |-> version, spec |-> "s", expiry |-> expiry, hostname |-> TRUE, trusted |-> TRUE]

MCContents ==
  Obj("Deployment", "a", "web") :>
      {Pod(<< Img("ghcr.io", TRUE, TRUE), Img("", FALSE, FALSE) >>),
       Pod(<< Img("library", FALSE, TRUE) >>)}
  @@ Obj("StatefulSet", "a", "web") :> {Pod(<< Img("", FALSE, FALSE) >>)}
  @@ Obj("DaemonSet", "b", "web") :> {Pod(<< Img("", FALSE, FALSE) >>)}
  @@ Obj("webhook", "", "kyverno") :> {[engines |-> {"kyverno"}]}
  @@ Obj("webhook", "", "quota") :> {[engines |-> {}]}
  @@ Obj("clusterrole", "", "r1") :>
      {Role({"get"}, {"secrets"}), Role({"get"}, {"*"}), Role({"create"}, {"secrets"})}
  @@ Obj("clusterrolebinding", "", "b1") :>
      {[roleRef |-> "cluster-admin", subjects |-> {"u"}],
       [roleRef |-> "view", subjects |-> {"u"}]}
  @@ Obj("serviceaccount", "a", "s1") :> {[spec |-> "s"]}
  @@ Obj("serviceaccount", "b", "s1") :> {[spec |-> "s"]}
  @@ Obj("certificate", "a", "c") :> {Cert(<< 0 >>), Cert(<< 4 >>), Cert(<< >>)}
  @@ Obj("certificate", "b", "c") :> {Cert(<< 2 >>)}
  @@ Obj("Issuer", "a", "ca") :> {Iss({"ca"})}
  @@ Obj("ClusterIssuer", "", "ca") :> {Iss({"acme", "ca"}), Iss({})}
  @@ Obj("endpoint", "e1", "") :> {Server(10, 0), Server(13, 2)}
  @@ Obj("endpoint", "e2", "") :> {Server(12, 9)}

Of(kinds) == {o \in DOMAIN MCContents : o.res \in kinds}

MCConfigs ==
  { [enabled |-> {"provenance"}, namespaces |-> << >>,
     objects |-> Of({"Deployment", "DaemonSet", "webhook"})],
    [enabled |-> {"provenance"}, namespaces |-> << "b", "a" >>,
     objects |-> Of({"StatefulSet", "DaemonSet"})],
    [enabled |-> {"provenance"}, namespaces |-> << "a" >>,
     objects |-> Of({"Deployment", "DaemonSet"})],
    [enabled |-> {"rbacposture"}, namespaces |-> << >>,
     objects |-> Of({"clusterrole", "clusterrolebinding", "serviceaccount"})],
    [enabled |-> {"certlifecycle"}, namespaces |-> << "a", "b" >>,
     objects |-> Of({"certificate", "Issuer", "ClusterIssuer"})],
    [enabled |-> {"certlifecycle", "tlsscan"}, namespaces |-> << >>,
     objects |-> Of({"endpoint"}) \cup {Obj("certificate", "b", "c")}],
    [enabled |-> {"provenance"}, namespaces |-> << >>,
     objects |-> {Obj("Deployment", "a", "web"), Obj("StatefulSet", "a", "web")}] }
=============================================================================
