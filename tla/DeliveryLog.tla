---------------------------- MODULE DeliveryLog ----------------------------
(***************************************************************************)
(* What delivery promises, whatever happens to the connections, the worker *)
(* and the receiver: positions of one stream are spooled, then stored by   *)
(* the receiver, then confirmed by it, then acknowledged in the spool;     *)
(* each stage only advances, and never past the one before it.             *)
(***************************************************************************)
EXTENDS Naturals

VARIABLES spooled, applied, confirmed, acked

LogInit == spooled = 0 /\ applied = 0 /\ confirmed = 0 /\ acked = 0

Add == spooled' = spooled + 1 /\ UNCHANGED <<applied, confirmed, acked>>

(* The receiver stores some of what is spooled and may confirm it. *)
Store ==
  /\ applied' \in applied..spooled
  /\ confirmed' \in confirmed..applied'
  /\ UNCHANGED <<spooled, acked>>

Acknowledge ==
  /\ acked' \in acked..confirmed
  /\ UNCHANGED <<spooled, applied, confirmed>>

LogNext == Add \/ Store \/ Acknowledge

LogSpec == LogInit /\ [][LogNext]_<<spooled, applied, confirmed, acked>>
=============================================================================
