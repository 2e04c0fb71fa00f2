----------------------------- MODULE DaemonLoop -----------------------------
(***************************************************************************)
(* The control flow of the daemon shell (internal/shells/daemon): build    *)
(* the engine, run a cycle, then wait for the ticker or for the signal.    *)
(* systemd starts it again after a failure (Restart=on-failure) unless it  *)
(* was asked to stop.  No data: module Daemon adds it, implements this,    *)
(* and has the fairness.                                                   *)
(***************************************************************************)
EXTENDS Integers

CONSTANT MaxFaults  \* bound: failures and crashes that still happen

VARIABLES phase,      \* "down", "build", "cycle", "wait" or "stopped"
          cancelled,  \* the signal was received: ctx is done
          ticker,     \* the ticker exists (made after the first cycle)
          tick,       \* a tick waits in the ticker's channel (capacity 1)
          faults      \* failures so far

vars == << phase, cancelled, ticker, tick, faults >>

Init ==
  /\ phase = "down"
  /\ cancelled = FALSE
  /\ ticker = FALSE
  /\ tick = FALSE
  /\ faults = 0

(* systemd starts the process. *)
Start ==
  /\ phase = "down"
  /\ phase' = "build"
  /\ UNCHANGED << cancelled, ticker, tick, faults >>

BuildOk ==
  /\ phase = "build"
  /\ phase' = "cycle"
  /\ UNCHANGED << cancelled, ticker, tick, faults >>

(* Build refuses what it finds on disk, as it will again. *)
BuildRefused ==
  /\ phase = "build"
  /\ phase' = "down"
  /\ UNCHANGED << cancelled, ticker, tick, faults >>

(* cycle() returned nil: the first time round the ticker is made now. *)
CycleOk ==
  /\ phase = "cycle"
  /\ phase' = "wait"
  /\ ticker' = TRUE
  /\ UNCHANGED << cancelled, tick, faults >>

(***************************************************************************)
(* The process ends with an error, or is killed.  It comes back, unless    *)
(* the signal was systemd's request to stop.                               *)
(***************************************************************************)
Dies ==
  /\ phase \in {"build", "cycle", "wait"}
  /\ faults < MaxFaults
  /\ faults' = faults + 1
  /\ phase' = IF cancelled THEN "stopped" ELSE "down"
  /\ ticker' = FALSE
  /\ tick' = FALSE
  /\ UNCHANGED cancelled

(* An interval passes.  A tick nobody has taken yet absorbs the next one. *)
TickerFires ==
  /\ ticker
  /\ phase \in {"cycle", "wait"}
  /\ ~tick
  /\ tick' = TRUE
  /\ UNCHANGED << phase, cancelled, ticker, faults >>

(* The two ready cases of the select. *)
TakeTick ==
  /\ phase = "wait"
  /\ tick
  /\ tick' = FALSE
  /\ phase' = "cycle"
  /\ UNCHANGED << cancelled, ticker, faults >>

TakeDone ==
  /\ phase = "wait"
  /\ cancelled
  /\ phase' = "stopped"
  /\ ticker' = FALSE
  /\ tick' = FALSE
  /\ UNCHANGED << cancelled, faults >>

(***************************************************************************)
(* systemctl stop.  Before NotifyContext is in place the signal ends the   *)
(* process at once; afterwards it only cancels ctx.                        *)
(***************************************************************************)
Signal ==
  /\ ~cancelled
  /\ phase # "stopped"
  /\ cancelled' = TRUE
  /\ phase' = IF phase \in {"down", "build"} THEN "stopped" ELSE phase
  /\ UNCHANGED << ticker, tick, faults >>

Next ==
  \/ Start \/ BuildOk \/ BuildRefused \/ CycleOk \/ Dies
  \/ TickerFires \/ TakeTick \/ TakeDone
  \/ Signal

SafeSpec == Init /\ [][Next]_vars
=============================================================================
