------------------------------ MODULE MCWiring ------------------------------
(* Documents that differ from one another in what each frontend looks at. *)
EXTENDS Wiring, TLC

Doc(interval, rotate, keyPath, push, entries) ==
  [form |-> "known", storePath |-> "", exportDir |-> "", interval |-> interval,
   rotate |-> rotate, keyPath |-> keyPath, push |-> push, entries |-> entries]

Entry(name, enabled, settings) == [name |-> name, enabled |-> enabled, settings |-> settings]

Scan == Entry("tlsscan", TRUE, "ok")
Portal(host, tokenFile, ca) ==
  [url |-> TRUE, host |-> host, tokenEnv |-> TRUE, tokenFile |-> tokenFile, ca |-> ca]

InCluster == Doc(Minute, Day, "", NoPush, << Entry("provenance", TRUE, "misspelt"), Scan >>)

MCDocuments ==
  { Doc(0, 0, "key", NoPush, << Scan >>),
    InCluster,
    Doc(Hour, Hour, "key", NoPush, << Scan >>),
    Doc(Hour, -Day, "", NoPush, << Scan >>),
    Doc(Minute - 1, 0, "key", NoPush, << >>),
    Doc(0, 0, "key", Portal("tls", FALSE, TRUE), << Entry("rbacposture", FALSE, "none") >>),
    Doc(0, 0, "key", Portal("tls", TRUE, FALSE), << Scan >>),
    Doc(0, 0, "key", Portal("plain", FALSE, FALSE), << Scan >>),
    Doc(0, 0, "", NoPush, << Entry("tlsscan", TRUE, "none") >>),
    Doc(0, 0, "", NoPush, << Entry("tlsscan", FALSE, "none"), Scan >>),
    Doc(0, 0, "", NoPush, << Entry("", FALSE, "none"), Scan >>),
    [Doc(0, 2 * Day, "key", NoPush, << Scan >>) EXCEPT !.form = "unknown"],
    [Doc(0, 0, "", NoPush, << >>) EXCEPT !.form = "blank"],
    [Doc(0, 0, "key", NoPush, << Scan >>) EXCEPT !.storePath = "store", !.exportDir = "dir"] }

(***************************************************************************)
(* A file and a policy that say the same; or three processes on one key,   *)
(* or two files of which one may be read where there is no cluster.        *)
(***************************************************************************)
Both(d) == "p" :> [front |-> "file", doc |-> d] @@ "q" :> [front |-> "policy", doc |-> d]

Plain == Doc(0, 0, "key", NoPush, << Scan >>)

MCSetups ==
  {Both(d) : d \in MCDocuments} \cup
  {Both(Plain) @@ "r" :> [front |-> "policy", doc |-> Plain],
   Both(InCluster) @@ "r" :> [front |-> "file", doc |-> InCluster]}
=============================================================================
