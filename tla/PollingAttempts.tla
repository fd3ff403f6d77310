--------------------------- MODULE PollingAttempts ---------------------------
(***************************************************************************)
(* Polling with a history of the attempts: how often Publish has returned  *)
(* an error for a row, whichever worker called it.  The history restricts  *)
(* nothing, so that every behaviour of Polling is one of this module; it   *)
(* states what retry_count is for when several workers write it.           *)
(***************************************************************************)
EXTENDS Polling

VARIABLE
    failures           \* failures[e]: failed calls of Publish for row e, in any
                       \* worker, counted up to MaxRetryCount

avars == <<vars, failures>>

FailuresOK == failures \in [Ids -> 0 .. MaxRetryCount]

AInit == Init /\ failures = [e \in Ids |-> 0]

\* A call of Publish for row e returns an error.
PublishFails(e) ==
    \E w \in Workers : stage[w][e] # "failed" /\ stage'[w][e] = "failed"

ANext ==
    /\ Next
    /\ failures' = [e \in Ids |-> IF PublishFails(e) /\ failures[e] < MaxRetryCount
                                    THEN failures[e] + 1 ELSE failures[e]]

ASpec == AInit /\ [][ANext]_avars

-----------------------------------------------------------------------------
\* A row is given up only after MaxRetryCount calls of Publish have failed for
\* it, although workers that overlap write counts of their own snapshots over
\* each other's: a race may grant a row more attempts, never fewer, and neither
\* a wait, an unknown destination nor a failed transaction counts as one.
GivenUpOnlyAfterAllAttempts ==
    \A e \in exhausted : failures[e] >= MaxRetryCount

\* The worker, whatever its processes, snapshots and transactions do, shows the
\* application and the broker only what the contract allows.
Contract == INSTANCE OutboxContract WITH
    Before <- Predecessors,
    Excluded <- Filtered,
    MaxAttempts <- MaxRetryCount,
    committed <- {e \in Ids : row[e] # "absent"},
    failed <- failures,
    givenUp <- exhausted,
    archived <- {e \in Ids : row[e] = "archived"}

ImplementsContract == Contract!CSpec

=============================================================================
