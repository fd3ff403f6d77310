------------------------------- MODULE Polling -------------------------------
(***************************************************************************)
(* The polling worker of the outbox: processes that read rows of the       *)
(* outbox table in batches, publish each one to a message broker and write *)
(* the outcome back (pkg/service/polling, pkg/domain/outbox and the        *)
(* repository in pkg/infrastructure/repository/outbox).                    *)
(*                                                                         *)
(* A worker is one process.  A poll takes a snapshot of the eligible rows, *)
(* runs one goroutine per <<aggregate_type, aggregate_id>> group, waits    *)
(* for all of them, and then waits for the ticker or for its context to be *)
(* cancelled.  Between the publication of a message and the transaction    *)
(* that records it anything may happen: a crash, a cancelled context, a    *)
(* lost answer, a database error, a write of another worker.               *)
(*                                                                         *)
(* Time is relative: retryIn is what is left until the retry_at column, in *)
(* seconds, and Tick makes it smaller.  retry_count NULL is 0 and retry_at *)
(* NULL is 0 seconds left: the code makes no difference between them.      *)
(***************************************************************************)
EXTENDS Integers, FiniteSets

CONSTANTS
    Workers,           \* the worker processes that share the table
    Ids,               \* the primary keys the application will use
    aggregateType,     \* the aggregate_type column of each row
    aggregateId,       \* the aggregate_id column of each row
    NoGroup,           \* the empty aggregate_id
    Filtered,          \* rows the whitelist, blacklist or skipEvents exclude
    Unresolved,        \* rows whose destination the backend does not know
    MaxRetryCount,     \* outbox.retryCount
    FindEventLimit,    \* outbox.findEventLimit
    RetryBackOff,      \* outbox.retryBackOff, in milliseconds
    MaxStarts          \* bound: incarnations of one worker

ASSUME IdsAssumption == Ids \subseteq Nat /\ IsFiniteSet(Ids)
ASSUME ColumnsAssumption ==
    DOMAIN aggregateType = Ids /\ DOMAIN aggregateId = Ids
ASSUME MaxRetryCountAssumption == MaxRetryCount \in Nat \ {0}
ASSUME FindEventLimitAssumption == FindEventLimit \in Nat \ {0}
ASSUME MaxStartsAssumption == MaxStarts \in Nat

(***************************************************************************)
(* The delay before the next attempt: backoff * 2 ^ attempt, truncated to  *)
(* whole seconds.                                                          *)
(***************************************************************************)
NextRetryDuration(attempt) == (RetryBackOff * 2 ^ attempt) \div 1000

ASSUME RetryBackOffAssumption ==
    \A attempt \in 1 .. MaxRetryCount : NextRetryDuration(attempt) \in Nat

VARIABLES
    \* The outbox table.
    row,               \* row[e]: has the application committed, archived row e
    retryCount,        \* the retry_count column
    retryIn,           \* seconds left until the retry_at column
    sent,              \* the rows whose sent_at column is set
    \* The broker.
    delivered,         \* rows whose message the broker has stored
    stray,             \* requests given up by their sender and still under way
    \* The worker processes.
    pc,                \* where the polling loop of each worker stands
    cancelled,         \* whether the context of each worker is cancelled
    starts,            \* how often each worker has been started
    stage,             \* stage[w][e]: what worker w has done with row e
    snapCount,         \* the retry_count that worker w holds in memory
    snapRetryIn,       \* the retry_at that worker w holds in memory
    \* History.
    exhausted          \* rows whose stored retry_count ever reached the maximum

table == <<row, retryCount, retryIn, sent>>
broker == <<delivered, stray>>
process == <<pc, cancelled, starts>>
batch == <<stage, snapCount, snapRetryIn>>
vars == <<table, broker, process, batch, exhausted>>

RowStates == {"absent", "present", "archived"}
Stages == {"idle",     \* not in the batch, or done with
           "queued",   \* read by FindEvents, its goroutine is not there yet
           "sent",     \* the request is on its way to the broker
           "stored",   \* the broker has stored it, the answer is on its way
           "ok",       \* Publish returned nil, sent_at is not written yet
           "failed"}   \* Publish returned an error, retry_* not written yet
InFlight == {"sent", "stored", "ok", "failed"}

TypeOK ==
    /\ row \in [Ids -> RowStates]
    /\ retryCount \in [Ids -> 0 .. MaxRetryCount]
    /\ retryIn \in [Ids -> Nat]
    /\ sent \subseteq Ids
    /\ delivered \subseteq Ids
    /\ stray \subseteq Ids
    /\ pc \in [Workers -> {"down", "poll", "working", "select"}]
    /\ cancelled \in [Workers -> BOOLEAN]
    /\ starts \in [Workers -> 0 .. MaxStarts]
    /\ stage \in [Workers -> [Ids -> Stages]]
    /\ snapCount \in [Workers -> [Ids -> 0 .. MaxRetryCount]]
    /\ snapRetryIn \in [Workers -> [Ids -> Nat]]
    /\ exhausted \subseteq Ids

-----------------------------------------------------------------------------
(***************************************************************************)
(* Groups.  Rows without an aggregate_id share one goroutine per type but  *)
(* promise no order among themselves.                                      *)
(***************************************************************************)
Ordered(e) == aggregateId[e] # NoGroup
SameGroup(d, e) == /\ aggregateId[d] = aggregateId[e]
                   /\ aggregateType[d] = aggregateType[e]
Predecessors(e) == {d \in Ids : d < e /\ Ordered(e) /\ SameGroup(d, e)}

\* Mutant: the condition on retry_count is forgotten.
EligibleForever == {e \in Ids : row[e] = "present" /\ e \notin Filtered}

\* The batch SELECT returns: the FindEventLimit smallest eligible ids.
Eligible == {e \in Ids : /\ row[e] = "present"
                         /\ retryCount[e] < MaxRetryCount
                         /\ e \notin Filtered}
\* Mutant: an off-by-one in the LIMIT.
FoundOneMore == {e \in Eligible :
                   Cardinality({d \in Eligible : d < e}) <= FindEventLimit}

Found == {e \in Eligible :
            Cardinality({d \in Eligible : d < e}) < FindEventLimit}

\* Mutant: a goroutine per row instead of one per group.
TurnUnlessQueued(w, e) ==
    /\ stage[w][e] = "queued"
    /\ \A d \in Ids : SameGroup(d, e) /\ stage[w][d] = "queued" => d >= e

\* The goroutine of a group takes the queued row with the smallest id, and
\* does so only when it is done with the row before.
Turn(w, e) ==
    /\ stage[w][e] = "queued"
    /\ \A d \in Ids : SameGroup(d, e) =>
          /\ stage[w][d] \notin InFlight
          /\ stage[w][d] = "queued" => d >= e

\* Mutants: an off-by-one in the comparison with the clock; a group that goes
\* on after a failure.
CanNotRetryLate(w, e) == snapRetryIn[w][e] > 1
LeavingAlone(e, isOk) == {e}

\* retry_at, as read by FindEvents, is still to come.
CanNotRetry(w, e) == snapRetryIn[w][e] > 0

\* Rows that leave the batch when publishEvent returns isOk for row e: row e,
\* and the rest of an ordered group when isOk is false.
Leaving(e, isOk) ==
    {d \in Ids : d = e \/ (~isOk /\ Ordered(e) /\ SameGroup(d, e))}

Finish(w, e, isOk) ==
    LET out == Leaving(e, isOk) IN
    /\ stage' = [stage EXCEPT ![w] =
                   [d \in Ids |-> IF d \in out THEN "idle" ELSE stage[w][d]]]
    /\ snapCount' = [snapCount EXCEPT ![w] =
                   [d \in Ids |-> IF d \in out THEN 0 ELSE snapCount[w][d]]]
    /\ snapRetryIn' = [snapRetryIn EXCEPT ![w] =
                   [d \in Ids |-> IF d \in out THEN 0 ELSE snapRetryIn[w][d]]]

\* Mutants: the count is increased twice; the count is not increased.
RetryTwice(w, e) ==
    /\ snapCount' = [snapCount EXCEPT ![w][e] = @ + 2]
    /\ snapRetryIn' = [snapRetryIn EXCEPT ![w][e] =
                         NextRetryDuration(snapCount[w][e] + 1)]
RetryUncounted(w, e) ==
    /\ snapRetryIn' = [snapRetryIn EXCEPT ![w][e] =
                         NextRetryDuration(snapCount[w][e])]
    /\ UNCHANGED snapCount

\* Event.Retry: count first, then the delay for the new count.
Retry(w, e) ==
    /\ snapCount' = [snapCount EXCEPT ![w][e] = @ + 1]
    /\ snapRetryIn' = [snapRetryIn EXCEPT ![w][e] =
                         NextRetryDuration(snapCount[w][e] + 1)]

EmptyBatch(w) ==
    /\ stage' = [stage EXCEPT ![w] = [e \in Ids |-> "idle"]]
    /\ snapCount' = [snapCount EXCEPT ![w] = [e \in Ids |-> 0]]
    /\ snapRetryIn' = [snapRetryIn EXCEPT ![w] = [e \in Ids |-> 0]]

SetStage(w, e, s) == stage' = [stage EXCEPT ![w][e] = s]

-----------------------------------------------------------------------------
Init ==
    /\ row = [e \in Ids |-> "absent"]
    /\ retryCount = [e \in Ids |-> 0]
    /\ retryIn = [e \in Ids |-> 0]
    /\ sent = {}
    /\ delivered = {}
    /\ stray = {}
    /\ pc = [w \in Workers |-> "down"]
    /\ cancelled = [w \in Workers |-> FALSE]
    /\ starts = [w \in Workers |-> 0]
    /\ stage = [w \in Workers |-> [e \in Ids |-> "idle"]]
    /\ snapCount = [w \in Workers |-> [e \in Ids |-> 0]]
    /\ snapRetryIn = [w \in Workers |-> [e \in Ids |-> 0]]
    /\ exhausted = {}

(***************************************************************************)
(* The application, the clock and the broker.                              *)
(***************************************************************************)
\* A row becomes visible to the workers.  The rows of one ordered group are
\* committed in the order of their ids: what the application must see to.
Insert(e) ==
    /\ row[e] = "absent"
    /\ \A d \in Predecessors(e) : row[d] # "absent"
    /\ row' = [row EXCEPT ![e] = "present"]
    /\ UNCHANGED <<retryCount, retryIn, sent, broker, process, batch, exhausted>>

\* The application archives rows whose sent_at is set, nobody else's.
Archive(e) ==
    /\ row[e] = "present"
    /\ e \in sent
    /\ row' = [row EXCEPT ![e] = "archived"]
    /\ UNCHANGED <<retryCount, retryIn, sent, broker, process, batch, exhausted>>

Less(n) == IF n > 0 THEN n - 1 ELSE 0

Tick ==
    /\ \/ \E e \in Ids : retryIn[e] > 0
       \/ \E w \in Workers, e \in Ids : snapRetryIn[w][e] > 0
    /\ retryIn' = [e \in Ids |-> Less(retryIn[e])]
    /\ snapRetryIn' = [w \in Workers |-> [e \in Ids |-> Less(snapRetryIn[w][e])]]
    /\ UNCHANGED <<row, retryCount, sent, broker, process, stage, snapCount,
                   exhausted>>

\* A request whose sender gave up on it reaches the broker after all.
StrayLands(e) ==
    /\ e \in stray
    /\ stray' = stray \ {e}
    /\ delivered' = delivered \cup {e}
    /\ UNCHANGED <<table, process, batch, exhausted>>

BrokerStores(w, e) ==
    /\ stage[w][e] = "sent"
    /\ SetStage(w, e, "stored")
    /\ delivered' = delivered \cup {e}
    /\ UNCHANGED <<table, stray, process, snapCount, snapRetryIn, exhausted>>

(***************************************************************************)
(* The life of a process and its polling loop.                             *)
(***************************************************************************)
Start(w) ==
    /\ pc[w] = "down"
    /\ starts[w] < MaxStarts
    /\ pc' = [pc EXCEPT ![w] = "poll"]
    /\ cancelled' = [cancelled EXCEPT ![w] = FALSE]
    /\ starts' = [starts EXCEPT ![w] = @ + 1]
    /\ UNCHANGED <<table, broker, batch, exhausted>>

\* The process dies; its memory is lost, its requests may still arrive.
Crash(w) ==
    /\ pc[w] # "down"
    /\ starts[w] < MaxStarts
    /\ pc' = [pc EXCEPT ![w] = "down"]
    /\ stray' = stray \cup {e \in Ids : stage[w][e] = "sent"}
    /\ EmptyBatch(w)
    /\ UNCHANGED <<table, delivered, cancelled, starts, exhausted>>

\* SIGTERM or an interrupt cancels the context the loop was started with.
Cancel(w) ==
    /\ pc[w] # "down"
    /\ ~cancelled[w]
    /\ starts[w] < MaxStarts
    /\ cancelled' = [cancelled EXCEPT ![w] = TRUE]
    /\ UNCHANGED <<table, broker, pc, starts, batch, exhausted>>

FindEvents(w) ==
    /\ pc[w] = "poll"
    /\ ~cancelled[w]
    /\ pc' = [pc EXCEPT ![w] = IF Found = {} THEN "select" ELSE "working"]
    /\ stage' = [stage EXCEPT ![w] =
                   [e \in Ids |-> IF e \in Found THEN "queued" ELSE "idle"]]
    /\ snapCount' = [snapCount EXCEPT ![w] =
                   [e \in Ids |-> IF e \in Found THEN retryCount[e] ELSE 0]]
    /\ snapRetryIn' = [snapRetryIn EXCEPT ![w] =
                   [e \in Ids |-> IF e \in Found THEN retryIn[e] ELSE 0]]
    /\ UNCHANGED <<table, broker, cancelled, starts, exhausted>>

\* The query fails, always so with a cancelled context; the loop only logs.
FindEventsFails(w) ==
    /\ pc[w] = "poll"
    /\ pc' = [pc EXCEPT ![w] = "select"]
    /\ UNCHANGED <<table, broker, cancelled, starts, batch, exhausted>>

\* Mutant: a goroutine calls wg.Add itself, when Wait has perhaps returned.
WaitGroupDoneAtOnce(w) ==
    /\ pc[w] = "working"
    /\ pc' = [pc EXCEPT ![w] = "select"]
    /\ UNCHANGED <<table, broker, cancelled, starts, batch, exhausted>>

\* wg.Wait returns: every goroutine of the poll is done.
WaitGroupDone(w) ==
    /\ pc[w] = "working"
    /\ \A e \in Ids : stage[w][e] = "idle"
    /\ pc' = [pc EXCEPT ![w] = "select"]
    /\ UNCHANGED <<table, broker, cancelled, starts, batch, exhausted>>

\* The ticker has fired.  With the context cancelled as well, select takes
\* either branch.
Resume(w) ==
    /\ pc[w] = "select"
    /\ pc' = [pc EXCEPT ![w] = "poll"]
    /\ UNCHANGED <<table, broker, cancelled, starts, batch, exhausted>>

Stop(w) ==
    /\ pc[w] = "select"
    /\ cancelled[w]
    /\ pc' = [pc EXCEPT ![w] = "down"]
    /\ UNCHANGED <<table, broker, cancelled, starts, batch, exhausted>>

(***************************************************************************)
(* publishEvent, step by step.                                             *)
(***************************************************************************)
\* "waiting for the retry": nothing is published, nothing is written.
WaitForRetry(w, e) ==
    /\ Turn(w, e)
    /\ CanNotRetry(w, e)
    /\ Finish(w, e, FALSE)
    /\ UNCHANGED <<table, broker, process, exhausted>>

\* NotFoundKeyError: the row is left alone until a later poll.
SkipUnresolved(w, e) ==
    /\ Turn(w, e)
    /\ ~CanNotRetry(w, e)
    /\ e \in Unresolved
    /\ Finish(w, e, FALSE)
    /\ UNCHANGED <<table, broker, process, exhausted>>

PublishSend(w, e) ==
    /\ Turn(w, e)
    /\ ~CanNotRetry(w, e)
    /\ ~cancelled[w]
    /\ SetStage(w, e, "sent")
    /\ UNCHANGED <<table, broker, process, snapCount, snapRetryIn, exhausted>>

\* Mutant: Publish blocks when the context is cancelled.
PublishRejectedUnlessCancelled(w, e) ==
    /\ Turn(w, e)
    /\ ~CanNotRetry(w, e)
    /\ ~cancelled[w]
    /\ SetStage(w, e, "failed")
    /\ Retry(w, e)
    /\ UNCHANGED <<table, broker, process, exhausted>>

\* Publish fails before anything is sent: no backend for the service, a
\* refused connection, a cancelled context.
PublishRejected(w, e) ==
    /\ Turn(w, e)
    /\ ~CanNotRetry(w, e)
    /\ SetStage(w, e, "failed")
    /\ Retry(w, e)
    /\ UNCHANGED <<table, broker, process, exhausted>>

PublishOK(w, e) ==
    /\ stage[w][e] = "stored"
    /\ SetStage(w, e, "ok")
    /\ UNCHANGED <<table, broker, process, snapCount, snapRetryIn, exhausted>>

\* Mutant: the error of a request that left is swallowed.
PublishErrorIgnored(w, e) ==
    /\ stage[w][e] \in {"sent", "stored"}
    /\ stray' = IF stage[w][e] = "sent" THEN stray \cup {e} ELSE stray
    /\ SetStage(w, e, "ok")
    /\ UNCHANGED <<table, delivered, process, snapCount, snapRetryIn, exhausted>>

\* Publish returns an error although the request left: it may still arrive,
\* or it has arrived and only its answer is lost.
PublishError(w, e) ==
    /\ stage[w][e] \in {"sent", "stored"}
    /\ stray' = IF stage[w][e] = "sent" THEN stray \cup {e} ELSE stray
    /\ SetStage(w, e, "failed")
    /\ Retry(w, e)
    /\ UNCHANGED <<table, delivered, process, exhausted>>

\* Mutant: sent_at is set whatever Publish returned.
TxUpdateSentAtAlways(w, e, isOk) ==
    /\ stage[w][e] \in {"ok", "failed"}
    /\ ~cancelled[w]
    /\ sent' = IF row[e] = "present" THEN sent \cup {e} ELSE sent
    /\ Finish(w, e, isOk)
    /\ UNCHANGED <<row, retryCount, retryIn, broker, process, exhausted>>

\* The transaction that sets sent_at commits; isOk is false when its answer
\* is lost.  An UPDATE of an archived row changes nothing and is no error.
TxUpdateSentAt(w, e, isOk) ==
    /\ stage[w][e] = "ok"
    /\ ~cancelled[w]
    /\ sent' = IF row[e] = "present" THEN sent \cup {e} ELSE sent
    /\ Finish(w, e, isOk)
    /\ UNCHANGED <<row, retryCount, retryIn, broker, process, exhausted>>

\* The transaction that writes the values held in memory to retry_count and
\* retry_at commits.
TxUpdateRetry(w, e) ==
    /\ stage[w][e] = "failed"
    /\ ~cancelled[w]
    /\ IF row[e] = "present"
         THEN /\ retryCount' = [retryCount EXCEPT ![e] = snapCount[w][e]]
              /\ retryIn' = [retryIn EXCEPT ![e] = snapRetryIn[w][e]]
              /\ exhausted' = IF snapCount[w][e] >= MaxRetryCount
                                THEN exhausted \cup {e} ELSE exhausted
         ELSE UNCHANGED <<retryCount, retryIn, exhausted>>
    /\ Finish(w, e, FALSE)
    /\ UNCHANGED <<row, sent, broker, process>>

\* Mutant: a failed transaction does not stop the group.
TxFailsSilently(w, e) ==
    /\ stage[w][e] \in {"ok", "failed"}
    /\ Finish(w, e, TRUE)
    /\ UNCHANGED <<table, broker, process, exhausted>>

\* Mutant: a failed transaction counts as a failed attempt.
TxFailsCounted(w, e) ==
    /\ stage[w][e] = "ok"
    /\ row[e] = "present"
    /\ retryCount' = [retryCount EXCEPT ![e] = snapCount[w][e] + 1]
    /\ exhausted' = IF snapCount[w][e] + 1 >= MaxRetryCount
                      THEN exhausted \cup {e} ELSE exhausted
    /\ Finish(w, e, FALSE)
    /\ UNCHANGED <<row, retryIn, sent, broker, process>>

\* The transaction fails and is rolled back, always so with a cancelled
\* context.
TxFails(w, e) ==
    /\ stage[w][e] \in {"ok", "failed"}
    /\ Finish(w, e, FALSE)
    /\ UNCHANGED <<table, broker, process, exhausted>>

-----------------------------------------------------------------------------
LoopStep(w) ==
    \/ Start(w) \/ Crash(w) \/ Cancel(w) \/ Stop(w) \/ Resume(w)
    \/ FindEvents(w) \/ FindEventsFails(w) \/ WaitGroupDone(w)

PublishStep(w, e) ==
    \/ WaitForRetry(w, e) \/ SkipUnresolved(w, e)
    \/ PublishSend(w, e) \/ PublishRejected(w, e)
    \/ BrokerStores(w, e) \/ PublishOK(w, e) \/ PublishError(w, e)
    \/ \E isOk \in BOOLEAN : TxUpdateSentAt(w, e, isOk)
    \/ TxUpdateRetry(w, e) \/ TxFails(w, e)

Environment ==
    \/ Tick
    \/ \E e \in Ids : Insert(e) \/ Archive(e) \/ StrayLands(e)

Next ==
    \/ Environment
    \/ \E w \in Workers : LoopStep(w)
    \/ \E w \in Workers, e \in Ids : PublishStep(w, e)

Spec == Init /\ [][Next]_vars

(***************************************************************************)
(* Fairness.  The scheduler, the clock and the ticker keep going; a killed *)
(* process is started again; every Publish and every transaction returns   *)
(* (the clients have timeouts).  The database does not fail for ever: a    *)
(* query or a transaction tried again and again succeeds once (SF).  The   *)
(* application archives the rows it finds published.  Publish itself may   *)
(* fail for ever, and select may prefer the ticker, but not for ever.      *)
(***************************************************************************)
Fairness ==
    /\ WF_vars(Tick)
    /\ \A e \in Ids : WF_vars(Archive(e))
    /\ \A w \in Workers :
          /\ WF_vars(Start(w))
          /\ WF_vars(FindEvents(w) \/ FindEventsFails(w))
          /\ SF_vars(FindEvents(w))
          /\ WF_vars(WaitGroupDone(w))
          /\ WF_vars(Resume(w))
          /\ SF_vars(Stop(w))
          /\ \A e \in Ids : /\ WF_vars(PublishStep(w, e))
                            /\ SF_vars(TxUpdateSentAt(w, e, TRUE))
                            /\ SF_vars(TxUpdateRetry(w, e))

FairSpec == Spec /\ Fairness

-----------------------------------------------------------------------------
(***************************************************************************)
(* Properties.                                                             *)
(***************************************************************************)
\* sent_at is written only after the broker has stored the message: neither a
\* lost answer, a crash nor another worker's failure marks a row as published.
\* The application may archive such rows, if the broker keeps each message it
\* acknowledges (JetStream acknowledges a duplicate of another row as well).
SentMeansDelivered == sent \subseteq delivered

\* Whether a later row of the group may be published: the row was delivered,
\* has used up its attempts, or is excluded from the query.
Settled(e) == e \in delivered \cup exhausted \cup Filtered

\* A message that is, or still can be, at the broker.
Released(e) ==
    \/ e \in delivered \cup stray
    \/ \E w \in Workers : stage[w][e] \in {"sent", "stored", "ok"}

\* The messages of one group reach the broker for the first time in the order
\* of their ids, whatever fails, is retried, or runs in parallel: no message
\* leaves a worker while a smaller id of its group is still to be delivered.
GroupOrder ==
    \A e \in Ids : Released(e) => \A d \in Predecessors(e) : Settled(d)

\* A row is published only while it is due and has attempts left according to
\* the table as it is NOW, although the worker decides from its snapshot: true
\* as long as one worker process runs at a time.
PublishOnlyWhenDue ==
    [][\A w \in Workers, e \in Ids :
          stage[w][e] = "queued" /\ stage'[w][e] \in {"sent", "failed"}
             => retryIn[e] = 0 /\ retryCount[e] < MaxRetryCount]_vars

\* No failed attempt is lost or counted twice: the absolute value a worker
\* writes is the stored value plus one, so that a row is given up after exactly
\* MaxRetryCount recorded failures.
RetryCountOnlyIncrements ==
    [][\A e \in Ids : retryCount'[e] \in {retryCount[e], retryCount[e] + 1}]_vars

\* A worker never holds more than FindEventLimit rows, and so never runs more
\* goroutines: a batch is not added to while rows of the last one are left.
InBatch(w) == {e \in Ids : stage[w][e] # "idle"}
BatchBound == \A w \in Workers : Cardinality(InBatch(w)) <= FindEventLimit

Loop(w) == INSTANCE PollerLoop WITH
    Killable <- TRUE,
    pc <- pc[w],
    busy <- InBatch(w) # {},
    cancelled <- cancelled[w]

\* Whatever the goroutines of a batch and the writes of other workers do, the
\* loop of each worker takes no batch with a cancelled context, and goes past
\* wg.Wait only when no row of its batch is left in between.
ImplementsLoop ==
    /\ \A w \in Workers : Loop(w)!LInit
    /\ [][\A w \in Workers : [Loop(w)!LNext]_(Loop(w)!lvars)]_vars

\* A committed row is delivered in the end, or has used up its attempts: no
\* row waits for ever behind failing, waiting or published rows, across
\* crashes and restarts.
EventuallySettled ==
    \A e \in Ids : row[e] = "present" ~> Settled(e)

\* A cancelled worker stops: it drains the batch it holds, and the random
\* choice between ticker and context does not keep it polling.
CancelledStops ==
    \A w \in Workers : cancelled[w] ~> pc[w] = "down"

=============================================================================
