------------------------------ MODULE MCDaemon ------------------------------
(* Two collectors, of the four the program has, in the order of their IDs. *)
EXTENDS Daemon

MCCollectors == << "rbacposture", "tlsscan" >>
=============================================================================
