------------------------ MODULE PollingAttemptsProofs ------------------------
(***************************************************************************)
(* Proofs about PollingAttempts, for every number of workers: a row is     *)
(* given up only after all its attempts, and the worker implements         *)
(* OutboxContract.  They rest on the inductive invariant of PollingProofs, *)
(* and on two lemmas about a step of Polling: where a count in memory, and *)
(* one in the table, can come from.                                        *)
(***************************************************************************)
EXTENDS PollingAttempts, PollingProofs

\* No count, in memory or in the table, is ahead of the failures.
AttemptsInv ==
    /\ FailuresOK
    /\ \A w \in Workers, e \in Ids :
          stage[w][e] # "idle" => snapCount[w][e] <= failures[e]
    /\ \A e \in Ids : retryCount[e] <= failures[e]
    /\ GivenUpOnlyAfterAllAttempts

USE DEF RowStates, Stages, InFlight, table, broker, process, batch

\* A count in memory is the one it was, the one FindEvents has read, or one
\* more because Publish has failed.
LEMMA CountInMemory ==
    ASSUME TypeOK, BatchInv, [Next]_vars, NEW v \in Workers, NEW d \in Ids,
           stage'[v][d] # "idle"
    PROVE  \/ stage[v][d] # "idle" /\ snapCount'[v][d] = snapCount[v][d]
           \/ snapCount'[v][d] = retryCount[d]
           \/ /\ stage[v][d] # "idle" /\ snapCount'[v][d] = snapCount[v][d] + 1
              /\ PublishFails(d)
<1> DEFINE Goal ==
      \/ stage[v][d] # "idle" /\ snapCount'[v][d] = snapCount[v][d]
      \/ snapCount'[v][d] = retryCount[d]
      \/ /\ stage[v][d] # "idle" /\ snapCount'[v][d] = snapCount[v][d] + 1
         /\ PublishFails(d)
<1>1. CASE UNCHANGED vars \/ Environment
  BY <1>1 DEF vars, Environment, Tick, Insert, Archive, StrayLands
<1>2. ASSUME NEW w \in Workers, LoopStep(w)
      PROVE  Goal
  <2>1. CASE Crash(w)
    BY <2>1, EmptyBatchEffect DEF Crash
  <2>2. CASE FindEvents(w)
    BY <2>2, FindEventsEffect
  <2> QED
    BY <1>2, <2>1, <2>2 DEF LoopStep, Start, Cancel, Stop, Resume,
       FindEventsFails, WaitGroupDone
<1>3. ASSUME NEW w \in Workers, NEW e \in Ids, PublishStep(w, e)
      PROVE  Goal
  <2>1. ASSUME NEW isOk \in BOOLEAN, Finish(w, e, isOk)
        PROVE  Goal
    BY <2>1, FinishEffect
  <2>2. CASE \/ WaitForRetry(w, e) \/ SkipUnresolved(w, e)
             \/ TxUpdateRetry(w, e) \/ TxFails(w, e)
             \/ \E isOk \in BOOLEAN : TxUpdateSentAt(w, e, isOk)
    BY <2>1, <2>2 DEF WaitForRetry, SkipUnresolved, TxUpdateRetry, TxFails,
       TxUpdateSentAt
  <2>3. CASE PublishSend(w, e) \/ BrokerStores(w, e) \/ PublishOK(w, e)
    <3>1. PICK s \in Stages : SetStage(w, e, s)
      BY <2>3 DEF PublishSend, BrokerStores, PublishOK
    <3>2. /\ stage[w][e] # "idle" /\ snapCount' = snapCount
      BY <2>3 DEF PublishSend, BrokerStores, PublishOK, Turn
    <3> QED
      BY <3>1, <3>2, SetStageEffect
  <2>4. CASE PublishRejected(w, e) \/ PublishError(w, e)
    <3>1. /\ stage[w][e] \in {"queued", "sent", "stored"}
          /\ SetStage(w, e, "failed")
          /\ Retry(w, e)
      BY <2>4 DEF PublishRejected, PublishError, Turn
    <3>2. /\ stage'[w][e] = "failed"
          /\ \A u \in Workers, c \in Ids :
                u # w \/ c # e => stage'[u][c] = stage[u][c]
      BY <3>1, SetStageEffect
    <3>3. /\ snapCount'[w][e] = snapCount[w][e] + 1
          /\ \A u \in Workers, c \in Ids :
                u # w \/ c # e => snapCount'[u][c] = snapCount[u][c]
      BY <3>1, RetryEffect
    <3>4. PublishFails(e)
      BY <3>1, <3>2 DEF PublishFails
    <3> QED
      BY <3>1, <3>2, <3>3, <3>4
  <2> QED
    BY <1>3, <2>2, <2>3, <2>4 DEF PublishStep
<1> QED
  BY <1>1, <1>2, <1>3 DEF Next

\* A count in the table is the one it was, or one that a worker holds in memory;
\* a row is given up only with such a count.
LEMMA CountInTable ==
    ASSUME TypeOK, [Next]_vars, NEW d \in Ids
    PROVE  /\ \/ retryCount'[d] = retryCount[d]
              \/ \E v \in Workers : /\ stage[v][d] # "idle"
                                    /\ retryCount'[d] = snapCount[v][d]
           /\ d \in exhausted' =>
                 \/ d \in exhausted
                 \/ \E v \in Workers : /\ stage[v][d] # "idle"
                                       /\ snapCount[v][d] >= MaxRetryCount
<1>1. CASE UNCHANGED vars \/ Environment
  BY <1>1 DEF vars, Environment, Tick, Insert, Archive, StrayLands
<1>2. ASSUME NEW w \in Workers, LoopStep(w)
      PROVE  UNCHANGED <<retryCount, exhausted>>
  BY <1>2 DEF LoopStep, Start, Crash, Cancel, Stop, Resume, FindEvents,
              FindEventsFails, WaitGroupDone
<1>3. ASSUME NEW w \in Workers, NEW e \in Ids, PublishStep(w, e),
             ~TxUpdateRetry(w, e)
      PROVE  UNCHANGED <<retryCount, exhausted>>
  BY <1>3 DEF PublishStep, WaitForRetry, SkipUnresolved, PublishSend,
     PublishRejected, BrokerStores, PublishOK, PublishError, TxUpdateSentAt, TxFails
<1>4. ASSUME NEW w \in Workers, NEW e \in Ids, TxUpdateRetry(w, e)
      PROVE  /\ stage[w][e] # "idle"
             /\ \/ retryCount'[d] = retryCount[d]
                \/ d = e /\ retryCount'[d] = snapCount[w][e]
             /\ d \in exhausted' =>
                   \/ d \in exhausted
                   \/ d = e /\ snapCount[w][e] >= MaxRetryCount
  BY <1>4 DEF TxUpdateRetry, TypeOK
<1> QED
  BY <1>1, <1>2, <1>3, <1>4 DEF Next

LEMMA AttemptsStep ==
    ASSUME IInv, AttemptsInv, [ANext]_avars
    PROVE  AttemptsInv'
<1>1. [Next]_vars
  BY DEF ANext, avars
<1>2. TypeOK /\ BatchInv /\ TypeOK'
  BY <1>1, NextIInv DEF IInv
<1>3. ASSUME NEW e \in Ids
      PROVE  /\ failures[e] \in 0 .. MaxRetryCount /\ failures'[e] \in 0 .. MaxRetryCount
             /\ failures[e] <= failures'[e]
             /\ PublishFails(e) /\ ANext => \/ failures'[e] = failures[e] + 1
                                            \/ failures'[e] = MaxRetryCount
  BY ConstantFacts DEF ANext, avars, AttemptsInv, FailuresOK
<1>4. FailuresOK'
  BY ConstantFacts DEF ANext, avars, AttemptsInv, FailuresOK
<1>5. ASSUME NEW v \in Workers, NEW d \in Ids, stage'[v][d] # "idle"
      PROVE  snapCount'[v][d] <= failures'[d]
  <2>1. /\ snapCount[v][d] \in Nat /\ retryCount[d] \in Nat
        /\ snapCount'[v][d] \in 0 .. MaxRetryCount
    BY <1>2, ConstantFacts DEF TypeOK
  <2>2. CASE stage[v][d] # "idle" /\ snapCount'[v][d] = snapCount[v][d]
    BY <2>1, <2>2, <1>3 DEF AttemptsInv
  <2>3. CASE snapCount'[v][d] = retryCount[d]
    BY <2>1, <2>3, <1>3 DEF AttemptsInv
  <2>4. CASE /\ stage[v][d] # "idle" /\ snapCount'[v][d] = snapCount[v][d] + 1
             /\ PublishFails(d)
    <3>1. ANext
      BY <2>4 DEF PublishFails, avars, vars, batch
    <3>2. snapCount[v][d] <= failures[d]
      BY <2>4 DEF AttemptsInv
    <3> QED
      BY <2>1, <2>4, <3>1, <3>2, <1>3, ConstantFacts
  <2> QED
    BY <1>1, <1>2, <1>5, <2>2, <2>3, <2>4, CountInMemory
<1>6. ASSUME NEW d \in Ids
      PROVE  retryCount'[d] <= failures'[d]
  <2>1. \A v \in Workers : stage[v][d] # "idle" =>
           snapCount[v][d] \in Nat /\ snapCount[v][d] <= failures[d]
    BY <1>2, ConstantFacts DEF TypeOK, AttemptsInv
  <2>2. retryCount[d] \in Nat /\ retryCount[d] <= failures[d]
    BY <1>2, ConstantFacts DEF TypeOK, AttemptsInv
  <2>3. retryCount'[d] \in Nat /\ retryCount'[d] <= failures[d]
    BY <1>1, <1>2, <2>1, <2>2, CountInTable
  <2> QED
    BY <2>3, <1>3
<1>7. ASSUME NEW d \in exhausted'
      PROVE  failures'[d] >= MaxRetryCount
  <2>1. d \in Ids
    BY <1>2 DEF TypeOK
  <2>2. \A v \in Workers : stage[v][d] # "idle" =>
           snapCount[v][d] \in Nat /\ snapCount[v][d] <= failures[d]
    BY <1>2, <2>1, ConstantFacts DEF TypeOK, AttemptsInv
  <2>3. d \in exhausted => failures[d] >= MaxRetryCount
    BY DEF AttemptsInv, GivenUpOnlyAfterAllAttempts
  <2>4. failures[d] >= MaxRetryCount
    BY <1>1, <1>2, <1>3, <2>1, <2>2, <2>3, CountInTable, ConstantFacts
  <2> QED
    BY <1>3, <2>1, <2>4, ConstantFacts
<1> QED
  BY <1>4, <1>5, <1>6, <1>7 DEF AttemptsInv, GivenUpOnlyAfterAllAttempts

LEMMA AttemptsInvariance == ASpec => [](IInv /\ AttemptsInv)
<1>1. AInit => IInv /\ AttemptsInv
  <2> SUFFICES ASSUME AInit PROVE IInv /\ AttemptsInv
    OBVIOUS
  <2>1. Init /\ failures = [e \in Ids |-> 0]
    BY DEF AInit
  <2> QED
    BY <2>1, InitIInv, ConstantFacts
       DEF Init, AttemptsInv, FailuresOK, GivenUpOnlyAfterAllAttempts
<1>2. IInv /\ AttemptsInv /\ [ANext]_avars => (IInv /\ AttemptsInv)'
  <2>1. [ANext]_avars => [Next]_vars
    BY DEF ANext, avars
  <2> QED
    BY <2>1, NextIInv, AttemptsStep
<1> QED
  BY <1>1, <1>2, PTL DEF ASpec

\* A row is given up only after as many failed calls of Publish as
\* outbox.retryCount says, for every number of workers that overlap, crash and
\* write counts of old snapshots over each other's.
THEOREM AttemptsSafe == ASpec => []GivenUpOnlyAfterAllAttempts
<1>1. IInv /\ AttemptsInv => GivenUpOnlyAfterAllAttempts
  BY DEF AttemptsInv
<1> QED
  BY <1>1, AttemptsInvariance, PTL

-----------------------------------------------------------------------------
(***************************************************************************)
(* The contract.                                                           *)
(***************************************************************************)
LEMMA ContractInit == AInit => Contract!CInit
BY DEF AInit, Init, Contract!CInit

\* What stays as it is under a step the contract does not see.
LEMMA ContractStutter ==
    ASSUME UNCHANGED <<row, delivered, exhausted, failures>>
    PROVE  UNCHANGED Contract!cvars
BY DEF Contract!cvars

\* A row whose predecessors are settled has its turn in the contract.
LEMMA TurnOfContract ==
    ASSUME NEW e \in Ids, row[e] # "absent", \A d \in Predecessors(e) : Settled(d)
    PROVE  Contract!HasTurn(e)
BY DEF Settled, Contract!HasTurn, Contract!Owed

\* Only Publish itself fails an attempt, of one row, and the rows in front of it
\* are settled by then.
LEMMA FailureInTurn ==
    ASSUME IInv, [Next]_vars, NEW e \in Ids, PublishFails(e)
    PROVE  /\ Contract!HasTurn(e)
           /\ \A d \in Ids : PublishFails(d) => d = e
           /\ UNCHANGED <<row, delivered, exhausted>>
<1>a. TypeOK /\ BatchInv /\ OrderInv
  BY DEF IInv
<1>1. PICK v \in Workers, d \in Ids :
         /\ PublishSend(v, d) \/ PublishRejected(v, d) \/ BrokerStores(v, d)
            \/ PublishOK(v, d) \/ PublishError(v, d)
  <2>1. ~(UNCHANGED vars \/ Environment)
    BY DEF vars, Environment, Tick, Insert, Archive, StrayLands, PublishFails
  <2>2. ASSUME NEW u \in Workers, LoopStep(u)
        PROVE  FALSE
    <3>1. CASE Crash(u)
      BY <3>1, <1>a, EmptyBatchEffect DEF Crash, PublishFails
    <3>2. CASE FindEvents(u)
      BY <3>2, <1>a, FindEventsEffect DEF PublishFails
    <3> QED
      BY <2>2, <3>1, <3>2 DEF LoopStep, Start, Cancel, Stop, Resume,
         FindEventsFails, WaitGroupDone, PublishFails
  <2>3. ASSUME NEW u \in Workers, NEW c \in Ids, NEW isOk \in BOOLEAN,
               Finish(u, c, isOk)
        PROVE  FALSE
    BY <2>3, <1>a, FinishEffect DEF PublishFails
  <2> QED
    BY ZenonT(30), <2>1, <2>2, <2>3 DEF Next, PublishStep, WaitForRetry, SkipUnresolved,
       TxUpdateSentAt, TxUpdateRetry, TxFails
<1>2. PICK s \in Stages : SetStage(v, d, s)
  BY <1>1 DEF PublishSend, PublishRejected, BrokerStores, PublishOK, PublishError
<1>3. \A c \in Ids : PublishFails(c) => c = d /\ stage'[v][d] = "failed"
  BY <1>2, <1>a, SetStageEffect DEF PublishFails
<1>4. d = e /\ s = "failed"
  BY <1>2, <1>3, <1>a, SetStageEffect
<1>5. PublishRejected(v, e) \/ PublishError(v, e)
  <2>1. stage'[v][e] = "failed"
    BY <1>3, <1>4
  <2>2. ~PublishSend(v, e)
    BY <2>1, <1>a, SetStageEffect DEF PublishSend
  <2>3. ~BrokerStores(v, e)
    BY <2>1, <1>a, SetStageEffect DEF BrokerStores
  <2>4. ~PublishOK(v, e)
    BY <2>1, <1>a, SetStageEffect DEF PublishOK
  <2> QED
    BY <1>1, <1>4, <2>2, <2>3, <2>4
<1>6. row[e] # "absent"
  BY <1>5, <1>a DEF PublishRejected, PublishError, Turn, BatchInv
<1>7. \A c \in Predecessors(e) : Settled(c)
  <2>1. CASE PublishRejected(v, e)
    BY <2>1, <1>a, TurnInOrder DEF PublishRejected
  <2>2. CASE PublishError(v, e)
    BY <2>2, <1>a DEF PublishError, OrderInv
  <2> QED
    BY <1>5, <2>1, <2>2
<1>8. UNCHANGED <<row, delivered, exhausted>>
  BY <1>5 DEF PublishRejected, PublishError
<1> QED
  BY <1>3, <1>4, <1>6, <1>7, <1>8, TurnOfContract

\* A step in which no call of Publish fails.
LEMMA QuietStep ==
    ASSUME IInv, AttemptsInv, [Next]_vars, failures' = failures
    PROVE  [Contract!CNext]_Contract!cvars
<1> DEFINE Committed == {d \in Ids : row[d] # "absent"}
           Archived == {d \in Ids : row[d] = "archived"}
<1>1. CASE UNCHANGED vars \/ Tick
  BY <1>1, ContractStutter DEF vars, Tick
<1>2. ASSUME NEW e \in Ids, Insert(e)
      PROVE  Contract!Commit(e)
  <2>1. /\ e \notin Committed /\ Committed' = Committed \cup {e}
        /\ Archived' = Archived
    BY <1>2 DEF Insert, IInv, TypeOK
  <2>2. Predecessors(e) \subseteq Committed
    BY <1>2 DEF Insert, Predecessors
  <2> QED
    BY <1>2, <2>1, <2>2 DEF Insert, Contract!Commit
<1>3. ASSUME NEW e \in Ids, Archive(e)
      PROVE  Contract!Discard(e)
  <2>1. Committed' = Committed /\ Archived' = Archived \cup {e}
    BY <1>3 DEF Archive, IInv, TypeOK
  <2>2. e \in delivered
    BY <1>3 DEF Archive, IInv, DeliveryInv
  <2> QED
    BY <1>3, <2>1, <2>2 DEF Archive, Contract!Discard
<1>4. ASSUME NEW e \in Ids, StrayLands(e)
      PROVE  Contract!Deliver(e)
  <2>1. row[e] # "absent" /\ \A d \in Predecessors(e) : Settled(d)
    BY <1>4 DEF StrayLands, IInv, DeliveryInv, OrderInv
  <2> QED
    BY <1>4, <2>1, TurnOfContract DEF StrayLands, Contract!Deliver
<1>5. ASSUME NEW w \in Workers, LoopStep(w)
      PROVE  UNCHANGED <<row, delivered, exhausted>>
  BY <1>5 DEF LoopStep, Start, Crash, Cancel, Stop, Resume, FindEvents,
              FindEventsFails, WaitGroupDone
<1>6. ASSUME NEW w \in Workers, NEW e \in Ids, PublishStep(w, e)
      PROVE  \/ Contract!Deliver(e) \/ Contract!GiveUp(e)
             \/ UNCHANGED Contract!cvars
  <2>1. ASSUME stage[w][e] \in InFlight
        PROVE  Contract!HasTurn(e)
    BY <2>1, TurnOfContract DEF IInv, BatchInv, OrderInv
  <2>2. CASE BrokerStores(w, e)
    <3>1. /\ stage[w][e] \in InFlight
          /\ UNCHANGED <<row, exhausted>> /\ delivered' = delivered \cup {e}
      BY <2>2 DEF BrokerStores
    <3> QED
      BY <2>1, <3>1 DEF Contract!Deliver
  <2>3. CASE TxUpdateRetry(w, e)
    <3>1. /\ stage[w][e] = "failed"
          /\ UNCHANGED <<row, delivered>>
          /\ \/ exhausted' = exhausted \cup {e} /\ snapCount[w][e] >= MaxRetryCount
             \/ exhausted' = exhausted
      BY <2>3 DEF TxUpdateRetry
    <3>2. snapCount[w][e] >= MaxRetryCount => failures[e] >= MaxRetryCount
      BY <3>1, ConstantFacts DEF AttemptsInv, FailuresOK, IInv, TypeOK
    <3> QED
      BY <2>1, <3>1, <3>2, ContractStutter DEF Contract!GiveUp
  <2>4. ASSUME ~BrokerStores(w, e), ~TxUpdateRetry(w, e)
        PROVE  UNCHANGED <<row, delivered, exhausted>>
    BY <1>6, <2>4 DEF PublishStep, WaitForRetry, SkipUnresolved, PublishSend,
       PublishRejected, PublishOK, PublishError, TxUpdateSentAt, TxFails
  <2> QED
    BY <2>2, <2>3, <2>4, ContractStutter
<1> QED
  BY <1>1, <1>2, <1>3, <1>4, <1>5, <1>6, ContractStutter
     DEF Next, Environment, Contract!CNext

LEMMA ContractStep ==
    ASSUME IInv, AttemptsInv, [ANext]_avars
    PROVE  [Contract!CNext]_Contract!cvars
<1>a. [Next]_vars
  BY DEF ANext, avars
<1>1. ASSUME NEW e \in Ids, PublishFails(e)
      PROVE  Contract!FailAttempt(e) \/ UNCHANGED Contract!cvars
  <2>1. /\ Contract!HasTurn(e)
        /\ \A d \in Ids : PublishFails(d) => d = e
        /\ UNCHANGED <<row, delivered, exhausted>>
    BY <1>1, <1>a, FailureInTurn
  <2>2. ANext
    BY <1>1 DEF PublishFails, avars, vars, batch
  <2>3. failures \in [Ids -> 0 .. MaxRetryCount]
    BY DEF AttemptsInv, FailuresOK
  <2>4. CASE failures[e] < MaxRetryCount
    <3>1. failures' = [failures EXCEPT ![e] = @ + 1]
      BY <1>1, <2>1, <2>2, <2>3, <2>4 DEF ANext
    <3> QED
      BY <2>1, <2>4, <3>1 DEF Contract!FailAttempt
  <2>5. CASE ~(failures[e] < MaxRetryCount)
    <3>1. failures' = failures
      BY <1>1, <2>1, <2>2, <2>3, <2>5 DEF ANext
    <3> QED
      BY <2>1, <3>1, ContractStutter
  <2> QED
    BY <2>4, <2>5
<1>2. ASSUME \A e \in Ids : ~PublishFails(e)
      PROVE  [Contract!CNext]_Contract!cvars
  <2>1. failures' = failures
    BY <1>2 DEF ANext, avars, AttemptsInv, FailuresOK
  <2> QED
    BY <1>a, <2>1, QuietStep
<1> QED
  BY <1>1, <1>2 DEF Contract!CNext

\* The polling worker implements the contract: at-least-once delivery in group
\* order or MaxRetryCount failures, and rows archived only after delivery, for
\* every number of workers.
THEOREM PollingImplementsContract == ASpec => ImplementsContract
<1>1. ASpec => [](IInv /\ AttemptsInv)
  BY AttemptsInvariance
<1> QED
  BY <1>1, ContractInit, ContractStep, PTL
     DEF ASpec, Contract!CSpec, ImplementsContract

========================================
