----------------------------- MODULE PollerLoop -----------------------------
(***************************************************************************)
(* What the loop of OutboxPolling does with its context and its batch, all *)
(* else left out.  No batch is taken once the context is cancelled; a      *)
(* batch that is taken is drained before anything else happens, cancelled  *)
(* or not; and the loop returns only because of its context.  Each worker  *)
(* of Polling implements this specification, and so does the poller of     *)
(* Lifecycle, whose signals never kill the process while the loop runs: it *)
(* is why Lifecycle may do without the rows.                               *)
(***************************************************************************)
CONSTANT Killable      \* whether the process can die while the loop runs

VARIABLES
    pc,                \* where the loop stands
    busy,              \* whether a row of the batch is still to be finished
    cancelled          \* whether the context of the loop is cancelled

lvars == <<pc, busy, cancelled>>

LInit ==
    /\ pc = "down"
    /\ busy = FALSE
    /\ cancelled = FALSE

\* The process, or its errgroup, starts the loop, with a context that may be
\* cancelled by then.
Begin ==
    /\ pc = "down"
    /\ pc' = "poll"
    /\ cancelled' \in BOOLEAN
    /\ busy' = FALSE

CancelContext ==
    /\ pc # "down"
    /\ cancelled' = TRUE
    /\ UNCHANGED <<pc, busy>>

TakeBatch ==
    /\ pc = "poll"
    /\ ~cancelled
    /\ pc' = "working"
    /\ busy' = TRUE
    /\ UNCHANGED cancelled

FindNothing ==
    /\ pc = "poll"
    /\ pc' = "select"
    /\ UNCHANGED <<busy, cancelled>>

\* The last row is finished, and the loop goes on, at once or later.
Drain ==
    /\ pc = "working"
    /\ busy' = FALSE
    /\ pc' \in {"working", "select"}
    /\ UNCHANGED cancelled

ResumePolling ==
    /\ pc = "select"
    /\ pc' = "poll"
    /\ UNCHANGED <<busy, cancelled>>

Return ==
    /\ pc = "select"
    /\ cancelled
    /\ pc' = "down"
    /\ UNCHANGED <<busy, cancelled>>

Die ==
    /\ Killable /\ pc # "down"
    /\ pc' = "down"
    /\ busy' = FALSE
    /\ UNCHANGED cancelled

LNext ==
    \/ Begin \/ CancelContext \/ TakeBatch \/ FindNothing
    \/ Drain \/ ResumePolling \/ Return \/ Die

LSpec == LInit /\ [][LNext]_lvars

=============================================================================
