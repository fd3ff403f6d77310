------------------------------ MODULE MCPolling ------------------------------
(***************************************************************************)
(* Values of the constants of Polling for TLC: rows 1 and 2 form an        *)
(* ordered group, row 3 has no aggregate_id, rows 1 to 3 share one         *)
(* aggregate_type.                                                         *)
(***************************************************************************)
EXTENDS Polling

MCaggregateType == [e \in Ids |-> "orders"]
MCaggregateId == [e \in Ids |-> IF e = 3 THEN NoGroup ELSE "cart"]

\* One ordered group only.
MCOneGroup == [e \in Ids |-> "cart"]

=============================================================================
