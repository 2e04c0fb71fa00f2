------------------------- MODULE FileStoreRefinement -------------------------
(***************************************************************************)
(* FileStore implements EvidenceLog: a line is a record of the chain as    *)
(* soon as it is complete in the file, an archive is a segment once the    *)
(* rename has happened, and Append's nil is the acknowledgement.           *)
(***************************************************************************)
EXTENDS FileStore

Log == INSTANCE EvidenceLog WITH
         Slots    <- Times,
         current  <- file.recs,
         archived <- [t \in Times |-> archives[t].recs],
         acked    <- acked

(***************************************************************************)
(* For a shell that exits on a store error (daemon, CLI), every step of    *)
(* store.go - failed and partial writes, crashes and power loss between    *)
(* any two system calls included - is a step of the log or changes nothing *)
(* in it.                                                                  *)
(***************************************************************************)
ImplementsLog == Log!Spec
=============================================================================
