----------------------------- MODULE MCJetStream -----------------------------
(***************************************************************************)
(* Values of the constants of JetStream for TLC: rows with the same        *)
(* payload, which share a message id.                                      *)
(***************************************************************************)
EXTENDS JetStream

MCpayload == [r \in Rows |-> "ordered"]

=============================================================================
