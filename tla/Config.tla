------------------------------- MODULE Config -------------------------------
(***************************************************************************)
(* One configuration schema, two frontends: the YAML file that daemon and  *)
(* CLI read (internal/core/config.go) and the EvidencePolicy that the      *)
(* operator translates (Translate in internal/shells/operator).            *)
(*                                                                         *)
(* A document is what either says: "" and 0 stand for what it leaves out,  *)
(* `entries' for the collectors it lists, [name, enabled, settings].  Its  *)
(* `form' is "unknown" when it has a field the schema does not have, and   *)
(* "blank" for a file with nothing in it.  Times are in seconds.           *)
(***************************************************************************)
EXTENDS Integers, Sequences, SequencesExt

Minute == 60
Hour   == 60 * Minute
Day    == 24 * Hour

Refused == [ok |-> FALSE]

Or(value, empty, default) == IF value = empty THEN default ELSE value

Names(entries) == [i \in DOMAIN entries |-> entries[i].name]

(* A map made by assigning the entries in turn: the last of a name counts. *)
AsMap(entries) ==
  [n \in ToSet(Names(entries)) |->
     LET i == CHOOSE k \in DOMAIN entries :
                entries[k].name = n /\ \A j \in DOMAIN entries : j > k => entries[j].name # n
     IN  [enabled |-> entries[i].enabled, settings |-> entries[i].settings]]

Filled(doc, store, dir) ==
  [ok         |-> TRUE,
   storePath  |-> Or(doc.storePath, "", store),
   exportDir  |-> Or(doc.exportDir, "", dir),
   interval   |-> Or(doc.interval, 0, Hour),
   rotate     |-> Or(doc.rotate, 0, 30 * Day),
   keyPath    |-> doc.keyPath,
   push       |-> doc.push,
   collectors |-> AsMap(doc.entries)]

(* applyDefaults, relative to the directory the process runs in. *)
applyDefaults(doc) == Filled(doc, "evidence.jsonl", "reports")

validate(cfg) == cfg.interval >= Minute /\ cfg.rotate >= Day

(* ParseConfig: no YAML, an unknown field or a repeated key fail to decode. *)
ParseConfig(doc) ==
  IF \/ doc.form # "known"
     \/ ~IsInjective(Names(doc.entries))
     \/ ~validate(applyDefaults(doc))
  THEN Refused ELSE applyDefaults(doc)

(***************************************************************************)
(* An EvidencePolicySpec with the content of a document: it has no flag to *)
(* list a collector and not enable it, the API server drops unknown fields *)
(* and a spec may be empty.  The entries that stay keep their places, of   *)
(* which only the order counts.                                            *)
(***************************************************************************)
AsSpec(doc) ==
  [doc EXCEPT !.form = "known",
              !.entries = Restrict(@, {k \in DOMAIN @ : @[k].enabled})]

(* Mutant: the store is always the one on the operator's own volume. *)
TranslateNoPath(spec) ==
  LET cfg == Filled([spec EXCEPT !.storePath = ""], "/var/lib/evidenced/evidence.jsonl",
                    "/var/lib/evidenced/reports")
  IN  IF "" \in ToSet(Names(spec.entries)) \/ cfg.interval < Minute THEN Refused ELSE cfg

(* Translate. *)
Translate(spec) ==
  LET cfg == Filled(spec, "/var/lib/evidenced/evidence.jsonl", "/var/lib/evidenced/reports")
  IN  IF "" \in ToSet(Names(spec.entries)) \/ cfg.interval < Minute THEN Refused ELSE cfg
-----------------------------------------------------------------------------
(* What wiring.Build does with it, as far as it does not touch a file. *)

(***************************************************************************)
(* A factory's answer.  Settings are "none", "ok", "bad" when they do not  *)
(* decode, or "misspelt": the settings block is not decoded strictly, so   *)
(* that a key nobody knows is dropped.  tlsscan insists on endpoints.      *)
(***************************************************************************)
Configurable(name, settings) ==
  IF name = "tlsscan" THEN settings = "ok" ELSE settings # "bad"

(* The factories: tlsscan's is built in, the others need a cluster. *)
Factories(kube) ==
  {"tlsscan"} \cup (IF kube THEN {"certlifecycle", "provenance", "rbacposture"} ELSE {})

EnabledIn(cfg) == {n \in DOMAIN cfg.collectors : cfg.collectors[n].enabled}

Registrable(cfg, kube) ==
  \A n \in EnabledIn(cfg) :
    n \in Factories(kube) /\ Configurable(n, cfg.collectors[n].settings)

NoPush == [url |-> FALSE]

(***************************************************************************)
(* A push block, whose `host' is "tls", "loopback", "plain" or "" by the   *)
(* URL, and a document with or without one.                                *)
(***************************************************************************)
Portals == [url : {TRUE}, host : {"tls", "loopback", "plain", ""},
            tokenEnv : BOOLEAN, tokenFile : BOOLEAN, ca : BOOLEAN]

Entries == [name : STRING, enabled : BOOLEAN, settings : {"none", "ok", "bad", "misspelt"}]

Documents ==
  [form : {"known", "unknown", "blank"}, storePath : STRING, exportDir : STRING, interval : Int, rotate : Int,
   keyPath : STRING, push : {NoPush} \cup Portals, entries : Seq(Entries)]

(* push.New. *)
Pushable(push, caThere) ==
  /\ push.host \in {"tls", "loopback"}
  /\ push.tokenEnv # push.tokenFile
  /\ push.ca => caThere
=============================================================================
