-------------------------- MODULE MCPollingAttempts --------------------------
(***************************************************************************)
(* PollingAttempts with the values of the constants of MCPolling.          *)
(***************************************************************************)
EXTENDS TLC, MCPolling, PollingAttempts

\* No action and no property of the run names a worker.
Interchangeable == Permutations(Workers)

=============================================================================
