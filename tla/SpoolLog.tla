------------------------------ MODULE SpoolLog ------------------------------
(***************************************************************************)
(* What a spool promises its callers, whatever instances of it run: one    *)
(* log of observations that only grows, and one acknowledged position in   *)
(* it that only advances ("EFFECTIVELY_ONCE_AFTER_DURABLE_LOCAL_SPOOL_     *)
(* COMMIT", src/extension/src/spool.ts).                                   *)
(***************************************************************************)
EXTENDS Naturals, Sequences

CONSTANT Ids  \* raw observation identities

VARIABLES
  log,  \* the observations in the order of their sequences
  ack   \* the number of acknowledged ones

LogInit == log = <<>> /\ ack = 0

(* An observation has one place in the log. *)
Grow ==
  /\ \E id \in Ids :
       /\ \A k \in DOMAIN log : log[k] # id
       /\ log' = Append(log, id)
  /\ UNCHANGED ack

Acknowledge ==
  /\ ack' \in (ack + 1)..Len(log)
  /\ UNCHANGED log

LogNext == Grow \/ Acknowledge

LogSpec == LogInit /\ [][LogNext]_<<log, ack>>
=============================================================================
