---------------------------- MODULE PollingProofs ----------------------------
(***************************************************************************)
(* Proofs about Polling, for every number of workers and rows and every    *)
(* value of the limits: type correctness, sent_at only after delivery, the *)
(* order of first deliveries inside a group, the size of a batch, and that *)
(* the loop of a worker implements PollerLoop.  For one worker also: what  *)
(* the table says of a row is what the worker acts on.                     *)
(***************************************************************************)
EXTENDS Polling, FiniteSetTheorems, TLAPS

\* A batch belongs to a worker that is working on it.
BatchInv ==
    /\ \A w \in Workers, e \in Ids : stage[w][e] # "idle" =>
          /\ pc[w] = "working"
          /\ row[e] # "absent"
    /\ \A w \in Workers, e \in Ids :
          stage[w][e] \in {"queued", "sent", "stored"} =>
             snapCount[w][e] < MaxRetryCount

\* What is known to be delivered, and what is never lost again.
DeliveryInv ==
    /\ sent \subseteq delivered
    /\ \A w \in Workers, e \in Ids :
          stage[w][e] \in {"stored", "ok"} => e \in delivered
    /\ \A e \in Ids : row[e] = "archived" => e \in sent
    /\ \A e \in Ids : retryCount[e] >= MaxRetryCount => e \in exhausted
    /\ \A e \in delivered \cup stray \cup exhausted : row[e] # "absent"

\* Why no row overtakes: the rows before it in its group are settled, or are
\* still in the same batch, and in that case the row has not had its turn.
OrderInv ==
    /\ \A e \in Ids : row[e] # "absent" =>
          \A d \in Predecessors(e) : row[d] # "absent"
    /\ \A w \in Workers, e \in Ids : stage[w][e] = "queued" =>
          \A d \in Predecessors(e) : Settled(d) \/ stage[w][d] # "idle"
    /\ \A w \in Workers, e \in Ids : stage[w][e] \in InFlight =>
          \A d \in Predecessors(e) : Settled(d)
    /\ \A e \in delivered \cup stray \cup exhausted :
          \A d \in Predecessors(e) : Settled(d)

IInv == TypeOK /\ BatchInv /\ DeliveryInv /\ OrderInv

-----------------------------------------------------------------------------
USE DEF RowStates, Stages, InFlight, table, broker, process, batch

\* The named facts on the constants, in one place.
LEMMA ConstantFacts ==
    /\ Ids \subseteq Nat
    /\ MaxRetryCount \in Nat \ {0}
    /\ MaxStarts \in Nat
    /\ \A n \in 1 .. MaxRetryCount : NextRetryDuration(n) \in Nat
BY IdsAssumption, MaxRetryCountAssumption, MaxStartsAssumption,
   RetryBackOffAssumption

\* What Finish does to the rows of the batch.
LEMMA FinishEffect ==
    ASSUME TypeOK, NEW w \in Workers, NEW e \in Ids, NEW isOk \in BOOLEAN,
           Finish(w, e, isOk)
    PROVE  /\ stage' \in [Workers -> [Ids -> Stages]]
           /\ snapCount' \in [Workers -> [Ids -> 0 .. MaxRetryCount]]
           /\ snapRetryIn' \in [Workers -> [Ids -> Nat]]
           /\ \A v \in Workers, d \in Ids :
                 \/ stage'[v][d] = "idle"
                 \/ /\ stage'[v][d] = stage[v][d]
                    /\ snapCount'[v][d] = snapCount[v][d]
                    /\ snapRetryIn'[v][d] = snapRetryIn[v][d]
           /\ \A v \in Workers, d \in Ids : v # w => stage'[v][d] = stage[v][d]
           /\ \A d \in Ids : d \notin Leaving(e, isOk) =>
                 stage'[w][d] = stage[w][d]
           /\ \A d \in Leaving(e, isOk) : stage'[w][d] = "idle"
<1> DEFINE out == Leaving(e, isOk)
<1>1. out \subseteq Ids
  BY DEF Leaving
<1>2. /\ stage' = [stage EXCEPT ![w] =
                     [d \in Ids |-> IF d \in out THEN "idle" ELSE stage[w][d]]]
      /\ snapCount' = [snapCount EXCEPT ![w] =
                     [d \in Ids |-> IF d \in out THEN 0 ELSE snapCount[w][d]]]
      /\ snapRetryIn' = [snapRetryIn EXCEPT ![w] =
                     [d \in Ids |-> IF d \in out THEN 0 ELSE snapRetryIn[w][d]]]
  BY DEF Finish
<1> HIDE DEF out
<1>3. /\ stage' \in [Workers -> [Ids -> Stages]]
      /\ snapRetryIn' \in [Workers -> [Ids -> Nat]]
  BY <1>2 DEF TypeOK
<1>4. snapCount' \in [Workers -> [Ids -> 0 .. MaxRetryCount]]
  BY <1>2, ConstantFacts DEF TypeOK
<1>5. \A v \in Workers, d \in Ids :
         \/ stage'[v][d] = "idle"
         \/ /\ stage'[v][d] = stage[v][d]
            /\ snapCount'[v][d] = snapCount[v][d]
            /\ snapRetryIn'[v][d] = snapRetryIn[v][d]
  BY <1>2 DEF TypeOK
<1>6. /\ \A v \in Workers, d \in Ids : v # w => stage'[v][d] = stage[v][d]
      /\ \A d \in Ids : d \notin out => stage'[w][d] = stage[w][d]
      /\ \A d \in out : stage'[w][d] = "idle"
  BY <1>1, <1>2 DEF TypeOK
<1> QED
  BY <1>3, <1>4, <1>5, <1>6 DEF out

\* The same for the other updates of the batch.
LEMMA SetStageEffect ==
    ASSUME TypeOK, NEW w \in Workers, NEW e \in Ids, NEW s \in Stages,
           SetStage(w, e, s)
    PROVE  /\ stage' \in [Workers -> [Ids -> Stages]]
           /\ stage'[w][e] = s
           /\ \A v \in Workers, d \in Ids :
                 v # w \/ d # e => stage'[v][d] = stage[v][d]
BY DEF SetStage, TypeOK

LEMMA RetryEffect ==
    ASSUME TypeOK, BatchInv, NEW w \in Workers, NEW e \in Ids, Retry(w, e),
           stage[w][e] \in {"queued", "sent", "stored"}
    PROVE  /\ snapCount' \in [Workers -> [Ids -> 0 .. MaxRetryCount]]
           /\ snapRetryIn' \in [Workers -> [Ids -> Nat]]
           /\ snapCount'[w][e] = snapCount[w][e] + 1
           /\ \A v \in Workers, d \in Ids : v # w \/ d # e =>
                 /\ snapCount'[v][d] = snapCount[v][d]
                 /\ snapRetryIn'[v][d] = snapRetryIn[v][d]
<1> DEFINE n == snapCount[w][e] + 1
<1>1. snapCount[w][e] \in 0 .. MaxRetryCount /\ snapCount[w][e] < MaxRetryCount
  BY DEF TypeOK, BatchInv
<1>2. n \in 1 .. MaxRetryCount /\ n \in 0 .. MaxRetryCount
  BY <1>1, ConstantFacts
<1>3. NextRetryDuration(n) \in Nat
  BY <1>2, ConstantFacts
<1>4. /\ snapCount' = [snapCount EXCEPT ![w][e] = n]
      /\ snapRetryIn' = [snapRetryIn EXCEPT ![w][e] = NextRetryDuration(n)]
  BY DEF Retry
<1>5. snapCount'[w][e] = snapCount[w][e] + 1
  BY <1>4 DEF TypeOK
<1> HIDE DEF n
<1> QED
  BY <1>2, <1>3, <1>4, <1>5 DEF TypeOK

LEMMA EmptyBatchEffect ==
    ASSUME TypeOK, NEW w \in Workers, EmptyBatch(w)
    PROVE  /\ stage' \in [Workers -> [Ids -> Stages]]
           /\ snapCount' \in [Workers -> [Ids -> 0 .. MaxRetryCount]]
           /\ snapRetryIn' \in [Workers -> [Ids -> Nat]]
           /\ \A d \in Ids : stage'[w][d] = "idle"
           /\ \A v \in Workers, d \in Ids : v # w =>
                 /\ stage'[v][d] = stage[v][d]
                 /\ snapCount'[v][d] = snapCount[v][d]
<1>1. 0 \in 0 .. MaxRetryCount
  BY ConstantFacts
<1> QED
  BY <1>1 DEF EmptyBatch, TypeOK

LEMMA FindEventsEffect ==
    ASSUME TypeOK, NEW w \in Workers, FindEvents(w)
    PROVE  /\ pc' \in [Workers -> {"down", "poll", "working", "select"}]
           /\ stage' \in [Workers -> [Ids -> Stages]]
           /\ snapCount' \in [Workers -> [Ids -> 0 .. MaxRetryCount]]
           /\ snapRetryIn' \in [Workers -> [Ids -> Nat]]
           /\ \A d \in Ids :
                 \/ d \notin Found /\ stage'[w][d] = "idle"
                 \/ /\ d \in Found
                    /\ stage'[w][d] = "queued"
                    /\ snapCount'[w][d] = retryCount[d]
                    /\ snapRetryIn'[w][d] = retryIn[d]
                    /\ pc'[w] = "working"
           /\ \A v \in Workers, d \in Ids : v # w =>
                 /\ pc'[v] = pc[v]
                 /\ stage'[v][d] = stage[v][d]
                 /\ snapCount'[v][d] = snapCount[v][d]
<1>1. 0 \in 0 .. MaxRetryCount
  BY ConstantFacts
<1>2. pc' = [pc EXCEPT ![w] = IF Found = {} THEN "select" ELSE "working"]
  BY DEF FindEvents
<1>3. stage' = [stage EXCEPT ![w] =
                  [d \in Ids |-> IF d \in Found THEN "queued" ELSE "idle"]]
  BY DEF FindEvents
<1>4. snapCount' = [snapCount EXCEPT ![w] =
                  [d \in Ids |-> IF d \in Found THEN retryCount[d] ELSE 0]]
  BY DEF FindEvents
<1>5. snapRetryIn' = [snapRetryIn EXCEPT ![w] =
                  [d \in Ids |-> IF d \in Found THEN retryIn[d] ELSE 0]]
  BY DEF FindEvents
<1>6. pc' \in [Workers -> {"down", "poll", "working", "select"}]
  BY <1>2 DEF TypeOK
<1>7. stage' \in [Workers -> [Ids -> Stages]]
  BY <1>3 DEF TypeOK
<1>8. snapCount' \in [Workers -> [Ids -> 0 .. MaxRetryCount]]
  BY <1>1, <1>4 DEF TypeOK
<1>9. snapRetryIn' \in [Workers -> [Ids -> Nat]]
  BY <1>5 DEF TypeOK
<1>10. ASSUME NEW d \in Ids
       PROVE  \/ d \notin Found /\ stage'[w][d] = "idle"
              \/ /\ d \in Found
                 /\ stage'[w][d] = "queued"
                 /\ snapCount'[w][d] = retryCount[d]
                 /\ snapRetryIn'[w][d] = retryIn[d]
                 /\ pc'[w] = "working"
  BY <1>2, <1>3, <1>4, <1>5 DEF TypeOK
<1>11. ASSUME NEW v \in Workers, NEW d \in Ids, v # w
       PROVE  /\ pc'[v] = pc[v]
              /\ stage'[v][d] = stage[v][d]
              /\ snapCount'[v][d] = snapCount[v][d]
  BY <1>2, <1>3, <1>4, <1>11 DEF TypeOK
<1> QED
  BY <1>6, <1>7, <1>8, <1>9, <1>10, <1>11

-----------------------------------------------------------------------------
(***************************************************************************)
(* Types.                                                                  *)
(***************************************************************************)
LEMMA TypeInit == Init => TypeOK
BY ConstantFacts DEF Init, TypeOK

LEMMA TypeStep ==
    ASSUME TypeOK, BatchInv, [Next]_vars
    PROVE  TypeOK'
<1>1. CASE UNCHANGED vars
  BY <1>1 DEF vars, TypeOK
<1>2. CASE Tick
  BY <1>2 DEF Tick, Less, TypeOK
<1>3. ASSUME NEW e \in Ids, Insert(e) \/ Archive(e) \/ StrayLands(e)
      PROVE  TypeOK'
  BY <1>3 DEF Insert, Archive, StrayLands, TypeOK
<1>4. ASSUME NEW w \in Workers, LoopStep(w)
      PROVE  TypeOK'
  <2>1. CASE Start(w)
    BY <2>1, ConstantFacts DEF Start, TypeOK
  <2>2. CASE Crash(w)
    <3>1. EmptyBatch(w)
      BY <2>2 DEF Crash
    <3> QED
      BY <2>2, <3>1, EmptyBatchEffect DEF Crash, TypeOK
  <2>3. CASE Cancel(w) \/ Stop(w) \/ Resume(w)
    BY <2>3 DEF Cancel, Stop, Resume, TypeOK
  <2>4. CASE FindEvents(w)
    <3>1. UNCHANGED <<table, broker, cancelled, starts, exhausted>>
      BY <2>4 DEF FindEvents
    <3> QED
      BY <2>4, <3>1, FindEventsEffect DEF TypeOK
  <2>5. CASE FindEventsFails(w) \/ WaitGroupDone(w)
    BY <2>5 DEF FindEventsFails, WaitGroupDone, TypeOK
  <2> QED
    BY <1>4, <2>1, <2>2, <2>3, <2>4, <2>5 DEF LoopStep
<1>5. ASSUME NEW w \in Workers, NEW e \in Ids, PublishStep(w, e)
      PROVE  TypeOK'
  <2>1. ASSUME WaitForRetry(w, e) \/ SkipUnresolved(w, e) \/ TxFails(w, e)
        PROVE  TypeOK'
    <3>1. /\ Finish(w, e, FALSE)
          /\ UNCHANGED <<table, broker, process, exhausted>>
      BY <2>1 DEF WaitForRetry, SkipUnresolved, TxFails
    <3> QED
      BY <3>1, FinishEffect DEF TypeOK
  <2>2. CASE PublishSend(w, e)
    <3>1. SetStage(w, e, "sent")
      BY <2>2 DEF PublishSend
    <3> QED
      BY <2>2, <3>1, SetStageEffect DEF PublishSend, TypeOK
  <2>3. CASE PublishOK(w, e)
    <3>1. SetStage(w, e, "ok")
      BY <2>3 DEF PublishOK
    <3> QED
      BY <2>3, <3>1, SetStageEffect DEF PublishOK, TypeOK
  <2>4. CASE BrokerStores(w, e)
    <3>1. SetStage(w, e, "stored")
      BY <2>4 DEF BrokerStores
    <3> QED
      BY <2>4, <3>1, SetStageEffect DEF BrokerStores, TypeOK
  <2>5. ASSUME PublishRejected(w, e) \/ PublishError(w, e)
        PROVE  TypeOK'
    <3>1. /\ stage[w][e] \in {"queued", "sent", "stored"}
          /\ SetStage(w, e, "failed")
          /\ Retry(w, e)
          /\ stray' \subseteq stray \cup {e}
          /\ UNCHANGED <<table, delivered, process, exhausted>>
      BY <2>5 DEF PublishRejected, PublishError, Turn
    <3>2. stage' \in [Workers -> [Ids -> Stages]]
      BY <3>1, SetStageEffect
    <3>3. /\ snapCount' \in [Workers -> [Ids -> 0 .. MaxRetryCount]]
          /\ snapRetryIn' \in [Workers -> [Ids -> Nat]]
      BY <3>1, RetryEffect
    <3> QED
      BY <3>1, <3>2, <3>3 DEF TypeOK
  <2>6. ASSUME NEW isOk \in BOOLEAN, TxUpdateSentAt(w, e, isOk)
        PROVE  TypeOK'
    <3>1. /\ Finish(w, e, isOk)
          /\ sent' \subseteq sent \cup {e}
          /\ UNCHANGED <<row, retryCount, retryIn, broker, process, exhausted>>
      BY <2>6 DEF TxUpdateSentAt
    <3> QED
      BY <3>1, FinishEffect DEF TypeOK
  <2>7. CASE TxUpdateRetry(w, e)
    <3>1. /\ Finish(w, e, FALSE)
          /\ UNCHANGED <<row, sent, broker, process>>
      BY <2>7 DEF TxUpdateRetry
    <3>2. /\ retryCount' \in [Ids -> 0 .. MaxRetryCount]
          /\ retryIn' \in [Ids -> Nat]
          /\ exhausted' \subseteq Ids
      BY <2>7 DEF TxUpdateRetry, TypeOK
    <3> QED
      BY <3>1, <3>2, FinishEffect DEF TypeOK
  <2> QED
    BY <1>5, <2>1, <2>2, <2>3, <2>4, <2>5, <2>6, <2>7 DEF PublishStep
<1> QED
  BY <1>1, <1>2, <1>3, <1>4, <1>5 DEF Next, Environment

LEMMA BatchStep ==
    ASSUME TypeOK, BatchInv, [Next]_vars
    PROVE  BatchInv'
<1>1. CASE UNCHANGED vars
  BY <1>1 DEF vars, BatchInv
<1>2. CASE Tick
  BY <1>2 DEF Tick, BatchInv
<1>3. ASSUME NEW e \in Ids, Insert(e) \/ Archive(e) \/ StrayLands(e)
      PROVE  BatchInv'
  BY <1>3 DEF Insert, Archive, StrayLands, BatchInv, TypeOK
<1>4. ASSUME NEW w \in Workers, LoopStep(w)
      PROVE  BatchInv'
  <2>1. CASE Start(w)
    BY <2>1 DEF Start, BatchInv, TypeOK
  <2>2. CASE Crash(w)
    <3>1. EmptyBatch(w) /\ row' = row /\ pc' = [pc EXCEPT ![w] = "down"]
      BY <2>2 DEF Crash
    <3>2. \A v \in Workers : v # w => pc'[v] = pc[v]
      BY <3>1 DEF TypeOK
    <3>3. \A d \in Ids : stage'[w][d] = "idle"
      BY <3>1, EmptyBatchEffect
    <3>4. \A v \in Workers, d \in Ids : v # w =>
             stage'[v][d] = stage[v][d] /\ snapCount'[v][d] = snapCount[v][d]
      BY <3>1, EmptyBatchEffect
    <3> QED
      BY <3>1, <3>2, <3>3, <3>4 DEF BatchInv
  <2>3. CASE Cancel(w) \/ Stop(w) \/ Resume(w)
    BY <2>3 DEF Cancel, Stop, Resume, BatchInv, TypeOK
  <2>4. CASE FindEvents(w)
    <3>1. \A d \in Found : row[d] = "present" /\ retryCount[d] < MaxRetryCount
      BY DEF Found, Eligible
    <3>2. row' = row
      BY <2>4 DEF FindEvents
    <3>3. \A d \in Ids : stage'[w][d] # "idle" =>
             d \in Found /\ snapCount'[w][d] = retryCount[d] /\ pc'[w] = "working"
      BY <2>4, FindEventsEffect
    <3>4. \A v \in Workers, d \in Ids : v # w =>
             /\ pc'[v] = pc[v]
             /\ stage'[v][d] = stage[v][d]
             /\ snapCount'[v][d] = snapCount[v][d]
      BY <2>4, FindEventsEffect
    <3> QED
      BY <3>1, <3>2, <3>3, <3>4 DEF BatchInv
  <2>5. CASE FindEventsFails(w) \/ WaitGroupDone(w)
    BY <2>5 DEF FindEventsFails, WaitGroupDone, BatchInv, TypeOK
  <2> QED
    BY <1>4, <2>1, <2>2, <2>3, <2>4, <2>5 DEF LoopStep
<1>5. ASSUME NEW w \in Workers, NEW e \in Ids, PublishStep(w, e)
      PROVE  BatchInv'
  <2>1. ASSUME NEW isOk \in BOOLEAN, Finish(w, e, isOk), UNCHANGED <<pc, row>>
        PROVE  BatchInv'
    <3>1. \A v \in Workers, d \in Ids :
             \/ stage'[v][d] = "idle"
             \/ /\ stage'[v][d] = stage[v][d]
                /\ snapCount'[v][d] = snapCount[v][d]
      BY <2>1, FinishEffect
    <3> QED
      BY <2>1, <3>1 DEF BatchInv
  <2>2. CASE WaitForRetry(w, e) \/ SkipUnresolved(w, e) \/ TxFails(w, e)
             \/ TxUpdateRetry(w, e)
    BY <2>1, <2>2 DEF WaitForRetry, SkipUnresolved, TxFails, TxUpdateRetry
  <2>3. ASSUME NEW isOk \in BOOLEAN, TxUpdateSentAt(w, e, isOk)
        PROVE  BatchInv'
    BY <2>1, <2>3 DEF TxUpdateSentAt
  <2>4. ASSUME NEW s \in Stages \ {"idle", "queued"}, SetStage(w, e, s),
               stage[w][e] \in {"queued", "sent", "stored"},
               s = "failed" => Retry(w, e),
               s # "failed" => snapCount' = snapCount,
               UNCHANGED <<pc, row>>
        PROVE  BatchInv'
    <3>1. /\ stage'[w][e] = s
          /\ \A v \in Workers, d \in Ids :
                v # w \/ d # e => stage'[v][d] = stage[v][d]
      BY <2>4, SetStageEffect
    <3>2. \A v \in Workers, d \in Ids :
             v # w \/ d # e => snapCount'[v][d] = snapCount[v][d]
      BY <2>4, RetryEffect
    <3>3. s \in {"sent", "stored"} => snapCount'[w][e] < MaxRetryCount
      BY <2>4 DEF BatchInv
    <3> QED
      BY <2>4, <3>1, <3>2, <3>3 DEF BatchInv
  <2>5. CASE PublishSend(w, e) \/ PublishOK(w, e) \/ BrokerStores(w, e)
    BY <2>4, <2>5 DEF PublishSend, PublishOK, BrokerStores, Turn
  <2>6. CASE PublishRejected(w, e) \/ PublishError(w, e)
    BY <2>4, <2>6 DEF PublishRejected, PublishError, Turn
  <2> QED
    BY <1>5, <2>2, <2>3, <2>5, <2>6 DEF PublishStep
<1> QED
  BY <1>1, <1>2, <1>3, <1>4, <1>5 DEF Next, Environment

-----------------------------------------------------------------------------
(***************************************************************************)
(* Nothing that is delivered, recorded or given up is taken back, and a    *)
(* row the workers could see stays known.                                  *)
(***************************************************************************)
LEMMA Monotone ==
    ASSUME TypeOK, [Next]_vars
    PROVE  /\ delivered \subseteq delivered'
           /\ sent \subseteq sent'
           /\ exhausted \subseteq exhausted'
           /\ \A e \in Ids : row[e] # "absent" => row'[e] # "absent"
<1>1. CASE UNCHANGED vars \/ Tick
  BY <1>1 DEF vars, Tick
<1>2. ASSUME NEW e \in Ids, Insert(e) \/ Archive(e) \/ StrayLands(e)
      PROVE  /\ delivered \subseteq delivered' /\ sent \subseteq sent'
             /\ exhausted \subseteq exhausted'
             /\ \A d \in Ids : row[d] # "absent" => row'[d] # "absent"
  BY <1>2 DEF Insert, Archive, StrayLands, TypeOK
<1>3. ASSUME NEW w \in Workers, LoopStep(w)
      PROVE  UNCHANGED <<delivered, sent, exhausted, row>>
  BY <1>3 DEF LoopStep, Start, Crash, Cancel, Stop, Resume, FindEvents,
              FindEventsFails, WaitGroupDone
<1>4. ASSUME NEW w \in Workers, NEW e \in Ids, PublishStep(w, e)
      PROVE  /\ delivered \subseteq delivered' /\ sent \subseteq sent'
             /\ exhausted \subseteq exhausted' /\ row' = row
  BY <1>4 DEF PublishStep, WaitForRetry, SkipUnresolved, PublishSend,
              PublishRejected, BrokerStores, PublishOK, PublishError,
              TxUpdateSentAt, TxUpdateRetry, TxFails
<1> QED
  BY <1>1, <1>2, <1>3, <1>4 DEF Next, Environment

-----------------------------------------------------------------------------
(***************************************************************************)
(* Delivery.                                                               *)
(***************************************************************************)
LEMMA DeliveryStep ==
    ASSUME TypeOK, BatchInv, DeliveryInv, [Next]_vars
    PROVE  DeliveryInv'
<1>1. CASE UNCHANGED vars \/ Tick
  BY <1>1 DEF vars, Tick, DeliveryInv
<1>2. ASSUME NEW e \in Ids, Insert(e) \/ Archive(e) \/ StrayLands(e)
      PROVE  DeliveryInv'
  <2>1. UNCHANGED <<retryCount, sent, stage, exhausted>>
    BY <1>2 DEF Insert, Archive, StrayLands
  <2>2. /\ delivered \subseteq delivered'
        /\ delivered' \cup stray' \subseteq delivered \cup stray
    BY <1>2 DEF Insert, Archive, StrayLands
  <2>3. \A d \in Ids : /\ row'[d] = "archived" => row[d] = "archived" \/ d \in sent
                       /\ row[d] # "absent" => row'[d] # "absent"
    BY <1>2 DEF Insert, Archive, StrayLands, TypeOK
  <2> QED
    BY <2>1, <2>2, <2>3 DEF DeliveryInv, TypeOK
<1>3. ASSUME NEW w \in Workers, LoopStep(w)
      PROVE  DeliveryInv'
  <2>1. UNCHANGED <<row, retryCount, sent, delivered, exhausted>>
    BY <1>3 DEF LoopStep, Start, Crash, Cancel, Stop, Resume, FindEvents,
                FindEventsFails, WaitGroupDone
  <2>2. stray' \subseteq stray \cup {e \in Ids : stage[w][e] = "sent"}
    BY <1>3 DEF LoopStep, Start, Crash, Cancel, Stop, Resume, FindEvents,
                FindEventsFails, WaitGroupDone
  <2>3. \A v \in Workers, e \in Ids :
           stage'[v][e] \in {"stored", "ok"} => stage'[v][e] = stage[v][e]
    <3>1. CASE FindEvents(w)
      BY <3>1, FindEventsEffect
    <3>2. CASE Crash(w)
      <4>1. EmptyBatch(w)
        BY <3>2 DEF Crash
      <4> QED
        BY <4>1, EmptyBatchEffect
    <3>3. CASE Start(w) \/ Cancel(w) \/ Stop(w) \/ Resume(w)
               \/ FindEventsFails(w) \/ WaitGroupDone(w)
      BY <3>3 DEF Start, Cancel, Stop, Resume, FindEventsFails, WaitGroupDone
    <3> QED
      BY <1>3, <3>1, <3>2, <3>3 DEF LoopStep
  <2> QED
    BY <2>1, <2>2, <2>3 DEF DeliveryInv, BatchInv, TypeOK
<1>4. ASSUME NEW w \in Workers, NEW e \in Ids, PublishStep(w, e)
      PROVE  DeliveryInv'
  <2>1. row[e] # "absent" /\ row' = row
    BY <1>4 DEF PublishStep, WaitForRetry, SkipUnresolved, PublishSend, Turn,
                PublishRejected, BrokerStores, PublishOK, PublishError,
                TxUpdateSentAt, TxUpdateRetry, TxFails, BatchInv
  <2>2. ASSUME NEW isOk \in BOOLEAN, Finish(w, e, isOk),
               UNCHANGED <<delivered, stray>>,
               sent' \subseteq delivered, sent \subseteq sent',
               exhausted' \subseteq exhausted \cup {e},
               \A d \in Ids : retryCount'[d] >= MaxRetryCount => d \in exhausted'
        PROVE  DeliveryInv'
    <3>1. \A v \in Workers, d \in Ids :
             stage'[v][d] = "idle" \/ stage'[v][d] = stage[v][d]
      BY <2>2, FinishEffect
    <3> QED
      BY <2>1, <2>2, <3>1 DEF DeliveryInv
  <2>3. ASSUME WaitForRetry(w, e) \/ SkipUnresolved(w, e) \/ TxFails(w, e)
        PROVE  DeliveryInv'
    BY <2>2, <2>3 DEF WaitForRetry, SkipUnresolved, TxFails, DeliveryInv
  <2>4. ASSUME NEW isOk \in BOOLEAN, TxUpdateSentAt(w, e, isOk)
        PROVE  DeliveryInv'
    <3>1. e \in delivered
      BY <2>4 DEF TxUpdateSentAt, DeliveryInv
    <3> QED
      BY <2>2, <2>4, <3>1 DEF TxUpdateSentAt, DeliveryInv
  <2>5. CASE TxUpdateRetry(w, e)
    <3>1. \A d \in Ids : retryCount'[d] >= MaxRetryCount => d \in exhausted'
      BY <2>5 DEF TxUpdateRetry, DeliveryInv, TypeOK
    <3> QED
      BY <2>2, <2>5, <3>1 DEF TxUpdateRetry, DeliveryInv
  <2>6. ASSUME NEW s \in Stages, SetStage(w, e, s),
               delivered \subseteq delivered',
               s \in {"stored", "ok"} => e \in delivered',
               delivered' \cup stray' \subseteq delivered \cup stray \cup {e},
               UNCHANGED <<sent, retryCount, exhausted>>
        PROVE  DeliveryInv'
    <3>1. /\ stage'[w][e] = s
          /\ \A v \in Workers, d \in Ids :
                v # w \/ d # e => stage'[v][d] = stage[v][d]
      BY <2>6, SetStageEffect
    <3> QED
      BY <2>1, <2>6, <3>1 DEF DeliveryInv
  <2>7. CASE PublishSend(w, e) \/ PublishRejected(w, e) \/ BrokerStores(w, e)
    BY <2>6, <2>7 DEF PublishSend, PublishRejected, BrokerStores
  <2>8. CASE PublishOK(w, e) \/ PublishError(w, e)
    BY <2>6, <2>8 DEF PublishOK, PublishError, DeliveryInv
  <2> QED
    BY <1>4, <2>3, <2>4, <2>5, <2>7, <2>8 DEF PublishStep
<1> QED
  BY <1>1, <1>2, <1>3, <1>4 DEF Next, Environment

-----------------------------------------------------------------------------
(***************************************************************************)
(* Order.                                                                  *)
(***************************************************************************)
\* The rows SELECT returns are closed downwards among the eligible ones: the
\* LIMIT cuts off the larger ids, never a smaller one.
LEMMA FoundIsPrefix ==
    ASSUME NEW e \in Found, NEW d \in Eligible, d < e
    PROVE  d \in Found
<1> DEFINE Below(n) == {x \in Eligible : x < n}
<1>1. /\ Eligible \subseteq Ids
      /\ e \in Nat /\ d \in Nat
      /\ \A x \in Eligible : x \in Nat
  BY ConstantFacts DEF Eligible, Found
<1>2. IsFiniteSet(Below(e))
  BY <1>1, IdsAssumption, FS_Subset
<1>3. ASSUME NEW x \in Below(d)
      PROVE  x \in Below(e)
  <2>1. x \in Nat /\ x < d
    BY <1>1
  <2>2. x < e
    BY <1>1, <2>1
  <2> QED
    BY <2>2
<1>4. /\ IsFiniteSet(Below(d))
      /\ Cardinality(Below(d)) <= Cardinality(Below(e))
  <2>1. Below(d) \subseteq Below(e)
    BY <1>3
  <2> QED
    BY <1>2, <2>1, FS_Subset
<1>5. Cardinality(Below(d)) \in Nat /\ Cardinality(Below(e)) \in Nat
  BY <1>2, <1>4, FS_CardinalityType
<1>6. Cardinality(Below(e)) < FindEventLimit
  BY DEF Found
<1> QED
  BY <1>4, <1>5, <1>6, FindEventLimitAssumption DEF Found

\* A row of a new batch has every row before it settled or in the batch.
LEMMA FoundInOrder ==
    ASSUME TypeOK, DeliveryInv, OrderInv, NEW e \in Found,
           NEW d \in Predecessors(e)
    PROVE  Settled(d) \/ d \in Found
<1>1. /\ e \in Ids /\ d \in Ids /\ d < e
      /\ row[e] = "present"
  BY DEF Found, Eligible, Predecessors
<1>2. row[d] # "absent"
  BY <1>1 DEF OrderInv
<1>3. CASE row[d] = "archived"
  BY <1>1, <1>3 DEF DeliveryInv, Settled
<1>4. CASE row[d] = "present" /\ retryCount[d] < MaxRetryCount /\ d \notin Filtered
  <2>1. d \in Eligible
    BY <1>1, <1>4 DEF Eligible
  <2> QED
    BY <1>1, <2>1, FoundIsPrefix
<1>5. CASE d \in Filtered
  BY <1>5 DEF Settled
<1>6. CASE ~(retryCount[d] < MaxRetryCount)
  BY <1>1, <1>6, ConstantFacts DEF DeliveryInv, Settled, TypeOK
<1>7. row[d] \in {"absent", "present", "archived"}
  BY <1>1 DEF TypeOK
<1> QED
  BY <1>2, <1>3, <1>4, <1>5, <1>6, <1>7

\* When a row has its turn, the rows before it are settled.
LEMMA TurnInOrder ==
    ASSUME TypeOK, OrderInv, NEW w \in Workers, NEW e \in Ids, Turn(w, e),
           NEW d \in Predecessors(e)
    PROVE  Settled(d)
<1>1. /\ d \in Ids /\ d < e /\ SameGroup(d, e)
      /\ stage[w][d] \in Stages
      /\ d \in Nat /\ e \in Nat
  BY ConstantFacts DEF Predecessors, TypeOK
<1>2. stage[w][d] = "idle"
  BY <1>1 DEF Turn
<1> QED
  BY <1>2 DEF Turn, OrderInv

LEMMA OrderStep ==
    ASSUME TypeOK, BatchInv, DeliveryInv, OrderInv, [Next]_vars
    PROVE  OrderInv'
<1>1. \A d \in Ids : /\ Settled(d) => Settled(d)'
                     /\ row[d] # "absent" => row'[d] # "absent"
  BY Monotone DEF Settled
<1>2. \A e \in Ids : Predecessors(e) \subseteq Ids
  BY DEF Predecessors
<1>3. CASE UNCHANGED vars \/ Tick
  BY <1>3 DEF vars, Tick, OrderInv, Settled
<1>4. ASSUME NEW e \in Ids, Insert(e) \/ Archive(e) \/ StrayLands(e)
      PROVE  OrderInv'
  <2>1. /\ stage' = stage /\ exhausted' = exhausted
        /\ delivered' \cup stray' \subseteq delivered \cup stray
    BY <1>4 DEF Insert, Archive, StrayLands
  <2>2. \A d \in Ids : row'[d] # "absent" => \A c \in Predecessors(d) : row'[c] # "absent"
    BY <1>1, <1>2, <1>4 DEF Insert, Archive, StrayLands, OrderInv, TypeOK
  <2> QED
    BY <1>1, <1>2, <2>1, <2>2 DEF OrderInv, TypeOK
<1>5. ASSUME NEW w \in Workers, LoopStep(w)
      PROVE  OrderInv'
  <2>1. UNCHANGED <<row, delivered, exhausted>>
    BY <1>5 DEF LoopStep, Start, Crash, Cancel, Stop, Resume, FindEvents,
                FindEventsFails, WaitGroupDone
  <2>2. stray' \subseteq stray \cup {e \in Ids : stage[w][e] = "sent"}
    BY <1>5 DEF LoopStep, Start, Crash, Cancel, Stop, Resume, FindEvents,
                FindEventsFails, WaitGroupDone
  <2>3. \A e \in delivered' \cup stray' \cup exhausted' :
           \A d \in Predecessors(e) : Settled(d)
    BY <2>1, <2>2 DEF OrderInv
  <2>4. delivered' \cup stray' \cup exhausted' \subseteq Ids
    BY <2>1, <2>2 DEF TypeOK
  <2>5. /\ \A v \in Workers, e \in Ids : stage'[v][e] = "queued" =>
              \A d \in Predecessors(e) : Settled(d) \/ stage'[v][d] # "idle"
        /\ \A v \in Workers, e \in Ids : stage'[v][e] \in InFlight =>
              \A d \in Predecessors(e) : Settled(d)
    <3>1. CASE FindEvents(w)
      <4>1. \A e \in Ids : /\ stage'[w][e] \in {"idle", "queued"}
                           /\ stage'[w][e] = "queued" <=> e \in Found
        BY <3>1, FindEventsEffect
      <4>2. \A v \in Workers, e \in Ids : v # w => stage'[v][e] = stage[v][e]
        BY <3>1, FindEventsEffect
      <4> QED
        BY <1>2, <4>1, <4>2, FoundInOrder DEF OrderInv
    <3>2. CASE Crash(w)
      <4>1. EmptyBatch(w)
        BY <3>2 DEF Crash
      <4>2. \A d \in Ids : stage'[w][d] = "idle"
        BY <4>1, EmptyBatchEffect
      <4>3. \A v \in Workers, d \in Ids : v # w => stage'[v][d] = stage[v][d]
        BY <4>1, EmptyBatchEffect
      <4> QED
        BY <1>2, <4>2, <4>3 DEF OrderInv
    <3>3. CASE Start(w) \/ Cancel(w) \/ Stop(w) \/ Resume(w)
               \/ FindEventsFails(w) \/ WaitGroupDone(w)
      <4>1. stage' = stage
        BY <3>3 DEF Start, Cancel, Stop, Resume, FindEventsFails, WaitGroupDone
      <4> QED
        BY <4>1 DEF OrderInv
    <3> QED
      BY <1>5, <3>1, <3>2, <3>3 DEF LoopStep
  <2>6. \A e \in Ids : row'[e] # "absent" =>
           \A d \in Predecessors(e) : row'[d] # "absent"
    BY <2>1 DEF OrderInv
  <2> QED
    BY <1>1, <1>2, <2>3, <2>4, <2>5, <2>6 DEF OrderInv
<1>6. ASSUME NEW w \in Workers, NEW e \in Ids, PublishStep(w, e)
      PROVE  OrderInv'
  <2>1. row' = row
    BY <1>6 DEF PublishStep, WaitForRetry, SkipUnresolved, PublishSend,
                PublishRejected, BrokerStores, PublishOK, PublishError,
                TxUpdateSentAt, TxUpdateRetry, TxFails
  <2>2. \A d \in Predecessors(e) : Settled(d)
    BY <1>6, TurnInOrder DEF PublishStep, WaitForRetry, SkipUnresolved,
       PublishSend, PublishRejected, BrokerStores, PublishOK, PublishError,
       TxUpdateSentAt, TxUpdateRetry, TxFails, OrderInv
  <2>3. delivered' \cup stray' \cup exhausted'
           \subseteq delivered \cup stray \cup exhausted \cup {e}
    BY <1>6 DEF PublishStep, WaitForRetry, SkipUnresolved, PublishSend,
                PublishRejected, BrokerStores, PublishOK, PublishError,
                TxUpdateSentAt, TxUpdateRetry, TxFails
  <2>4. \A c \in delivered' \cup stray' \cup exhausted' :
           \A d \in Predecessors(c) : Settled(d)
    BY <2>2, <2>3 DEF OrderInv
  <2>5. ASSUME NEW isOk \in BOOLEAN, Finish(w, e, isOk), isOk => Settled(e)
        PROVE  OrderInv'
    <3>1. \A v \in Workers, c \in Ids :
             stage'[v][c] = "idle" \/ stage'[v][c] = stage[v][c]
      BY <2>5, FinishEffect
    <3>2. \A v \in Workers, c \in Ids : v # w => stage'[v][c] = stage[v][c]
      BY <2>5, FinishEffect
    <3>3. \A c \in Ids : c \notin Leaving(e, isOk) => stage'[w][c] = stage[w][c]
      BY <2>5, FinishEffect
    <3>4. \A c \in Leaving(e, isOk) : stage'[w][c] = "idle"
      BY <2>5, FinishEffect
    <3>5. ASSUME NEW c \in Ids, stage'[w][c] = "queued",
                 NEW d \in Predecessors(c)
          PROVE  Settled(d) \/ stage'[w][d] # "idle"
      <4>1. c \notin Leaving(e, isOk) /\ stage[w][c] = "queued" /\ d \in Ids
        BY <1>2, <3>3, <3>4, <3>5
      <4>2. d \in Leaving(e, isOk) => Settled(d)
        BY <2>5, <4>1 DEF Leaving, Predecessors, Ordered, SameGroup
      <4> QED
        BY <3>3, <3>5, <4>1, <4>2 DEF OrderInv
    <3>6. \A v \in Workers, c \in Ids : stage'[v][c] = "queued" =>
             \A d \in Predecessors(c) : Settled(d) \/ stage'[v][d] # "idle"
      BY <1>2, <3>2, <3>5 DEF OrderInv
    <3>7. \A v \in Workers, c \in Ids : stage'[v][c] \in InFlight =>
             \A d \in Predecessors(c) : Settled(d)
      BY <3>1 DEF OrderInv
    <3> QED
      BY <1>1, <1>2, <2>1, <2>3, <2>4, <3>6, <3>7 DEF OrderInv, TypeOK
  <2>6. CASE \/ WaitForRetry(w, e) \/ SkipUnresolved(w, e) \/ TxFails(w, e)
             \/ TxUpdateRetry(w, e)
    BY <2>5, <2>6 DEF WaitForRetry, SkipUnresolved, TxFails, TxUpdateRetry
  <2>7. ASSUME NEW isOk \in BOOLEAN, TxUpdateSentAt(w, e, isOk)
        PROVE  OrderInv'
    BY <2>5, <2>7 DEF TxUpdateSentAt, DeliveryInv, Settled
  <2>8. ASSUME NEW s \in InFlight, SetStage(w, e, s)
        PROVE  OrderInv'
    <3>1. /\ stage'[w][e] = s
          /\ \A v \in Workers, d \in Ids :
                v # w \/ d # e => stage'[v][d] = stage[v][d]
      BY <2>8, SetStageEffect
    <3>2. \A v \in Workers, c \in Ids : stage'[v][c] = "queued" =>
             \A d \in Predecessors(c) : Settled(d) \/ stage'[v][d] # "idle"
      BY <1>2, <2>8, <3>1 DEF OrderInv
    <3>3. \A v \in Workers, c \in Ids : stage'[v][c] \in InFlight =>
             \A d \in Predecessors(c) : Settled(d)
      BY <2>2, <3>1 DEF OrderInv
    <3> QED
      BY <1>1, <1>2, <2>1, <2>3, <2>4, <3>2, <3>3 DEF OrderInv, TypeOK
  <2>9. CASE \/ PublishSend(w, e) \/ PublishRejected(w, e) \/ BrokerStores(w, e)
             \/ PublishOK(w, e) \/ PublishError(w, e)
    BY <2>8, <2>9 DEF PublishSend, PublishRejected, BrokerStores, PublishOK,
                      PublishError
  <2> QED
    BY <1>6, <2>6, <2>7, <2>9 DEF PublishStep
<1> QED
  BY <1>3, <1>4, <1>5, <1>6 DEF Next, Environment

-----------------------------------------------------------------------------
(***************************************************************************)
(* The theorems.                                                           *)
(***************************************************************************)
LEMMA InitIInv == Init => IInv
<1> SUFFICES ASSUME Init PROVE IInv
  OBVIOUS
<1>1. TypeOK
  BY TypeInit
<1>2. \A w \in Workers, e \in Ids : stage[w][e] = "idle"
  BY DEF Init
<1>3. \A e \in Ids : row[e] = "absent" /\ retryCount[e] = 0
  BY DEF Init
<1> QED
  BY <1>1, <1>2, <1>3, ConstantFacts
     DEF IInv, BatchInv, DeliveryInv, OrderInv, Init

LEMMA NextIInv == IInv /\ [Next]_vars => IInv'
BY TypeStep, BatchStep, DeliveryStep, OrderStep DEF IInv

LEMMA Invariance == Spec => []IInv
BY InitIInv, NextIInv, PTL DEF Spec

\* Every reachable state is well typed, whatever the workers, rows and limits:
\* no retry_count written back exceeds the configured maximum.
THEOREM TypeCorrect == Spec => []TypeOK
<1>1. IInv => TypeOK
  BY DEF IInv
<1> QED
  BY <1>1, Invariance, PTL

\* A row is marked as published only after the broker has stored its message,
\* with any number of workers, crashes, lost answers and late arrivals.
THEOREM SentSafe == Spec => []SentMeansDelivered
<1>1. IInv => SentMeansDelivered
  BY DEF IInv, DeliveryInv, SentMeansDelivered
<1> QED
  BY <1>1, Invariance, PTL

\* No message of a group leaves a worker before the rows in front of it are
\* settled, with any number of workers whose batches overlap.
THEOREM OrderSafe == Spec => []GroupOrder
<1>1. IInv => GroupOrder
  BY DEF IInv, OrderInv, GroupOrder, Released
<1> QED
  BY <1>1, Invariance, PTL

-----------------------------------------------------------------------------
(***************************************************************************)
(* The loop of one worker.                                                 *)
(***************************************************************************)
Busy(w) == InBatch(w) # {}

\* What the loop of w does not see.
LEMMA LoopStutter ==
    ASSUME TypeOK, NEW w \in Workers, pc'[w] = pc[w], cancelled'[w] = cancelled[w],
           Busy(w)' <=> Busy(w)
    PROVE  UNCHANGED Loop(w)!lvars
BY DEF Loop!lvars, Busy, InBatch

\* A step of one goroutine touches nothing the loops of other workers see, and
\* it is a step on a row of the batch.
LEMMA PublishLocal ==
    ASSUME TypeOK, NEW v \in Workers, NEW e \in Ids, PublishStep(v, e)
    PROVE  /\ stage[v][e] # "idle"
           /\ UNCHANGED <<pc, cancelled>>
           /\ \A u \in Workers, d \in Ids : u # v => stage'[u][d] = stage[u][d]
<1> DEFINE Goal == /\ stage[v][e] # "idle"
                   /\ UNCHANGED <<pc, cancelled>>
                   /\ \A u \in Workers, d \in Ids : u # v => stage'[u][d] = stage[u][d]
<1>1. CASE WaitForRetry(v, e) \/ SkipUnresolved(v, e) \/ TxFails(v, e)
           \/ TxUpdateRetry(v, e)
  <2>1. Finish(v, e, FALSE) /\ stage[v][e] # "idle" /\ UNCHANGED <<pc, cancelled>>
    BY <1>1 DEF WaitForRetry, SkipUnresolved, TxFails, TxUpdateRetry, Turn
  <2> QED
    BY <2>1, FinishEffect
<1>2. ASSUME NEW isOk \in BOOLEAN, TxUpdateSentAt(v, e, isOk)
      PROVE  Goal
  <2>1. Finish(v, e, isOk) /\ stage[v][e] # "idle" /\ UNCHANGED <<pc, cancelled>>
    BY <1>2 DEF TxUpdateSentAt
  <2> QED
    BY <2>1, FinishEffect
<1>3. CASE \/ PublishSend(v, e) \/ PublishRejected(v, e) \/ BrokerStores(v, e)
           \/ PublishOK(v, e) \/ PublishError(v, e)
  <2>1. PICK s \in Stages : SetStage(v, e, s)
    BY <1>3 DEF PublishSend, PublishRejected, BrokerStores, PublishOK, PublishError
  <2>2. stage[v][e] # "idle" /\ UNCHANGED <<pc, cancelled>>
    BY <1>3 DEF PublishSend, PublishRejected, BrokerStores, PublishOK,
       PublishError, Turn
  <2> QED
    BY <2>1, <2>2, SetStageEffect
<1> QED
  BY <1>1, <1>2, <1>3 DEF PublishStep

\* No row enters a batch by a step of a goroutine.
LEMMA PublishShrinks ==
    ASSUME TypeOK, NEW v \in Workers, NEW e \in Ids, PublishStep(v, e),
           NEW u \in Workers, NEW d \in Ids, stage[u][d] = "idle"
    PROVE  stage'[u][d] = "idle"
<1>1. CASE \/ WaitForRetry(v, e) \/ SkipUnresolved(v, e) \/ TxFails(v, e)
           \/ TxUpdateRetry(v, e) \/ \E isOk \in BOOLEAN : TxUpdateSentAt(v, e, isOk)
  <2>1. PICK isOk \in BOOLEAN : Finish(v, e, isOk)
    BY <1>1 DEF WaitForRetry, SkipUnresolved, TxFails, TxUpdateRetry, TxUpdateSentAt
  <2> QED
    BY <2>1, FinishEffect
<1>2. CASE \/ PublishSend(v, e) \/ PublishRejected(v, e) \/ BrokerStores(v, e)
           \/ PublishOK(v, e) \/ PublishError(v, e)
  <2>1. PICK s \in Stages : SetStage(v, e, s)
    BY <1>2 DEF PublishSend, PublishRejected, BrokerStores, PublishOK, PublishError
  <2>2. stage[v][e] # "idle"
    BY PublishLocal
  <2> QED
    BY <2>1, <2>2, SetStageEffect
<1> QED
  BY <1>1, <1>2 DEF PublishStep

\* A step of one loop touches nothing the loops of other workers see.
LEMMA LoopLocal ==
    ASSUME TypeOK, NEW v \in Workers, LoopStep(v), NEW w \in Workers, w # v
    PROVE  /\ pc'[w] = pc[w] /\ cancelled'[w] = cancelled[w]
           /\ \A d \in Ids : stage'[w][d] = stage[w][d]
<1>1. CASE Crash(v)
  BY <1>1, EmptyBatchEffect DEF Crash, TypeOK
<1>2. CASE FindEvents(v)
  <2>1. cancelled' = cancelled
    BY <1>2 DEF FindEvents
  <2> QED
    BY <1>2, <2>1, FindEventsEffect DEF FindEvents, TypeOK
<1>3. CASE \/ Start(v) \/ Cancel(v) \/ Stop(v) \/ Resume(v)
           \/ FindEventsFails(v) \/ WaitGroupDone(v)
  BY <1>3 DEF Start, Cancel, Stop, Resume, FindEventsFails, WaitGroupDone, TypeOK
<1> QED
  BY <1>1, <1>2, <1>3 DEF LoopStep

LEMMA LoopRefines ==
    ASSUME IInv, [Next]_vars, NEW w \in Workers
    PROVE  [Loop(w)!LNext]_(Loop(w)!lvars)
<1>a. TypeOK /\ BatchInv
  BY DEF IInv
<1>b. Busy(w) => pc[w] = "working"
  BY <1>a DEF BatchInv, Busy, InBatch
<1>1. CASE UNCHANGED vars \/ Environment
  BY <1>1, <1>a, LoopStutter DEF vars, Environment, Tick, Insert, Archive,
     StrayLands, Busy, InBatch
<1>2. ASSUME NEW v \in Workers, v # w, LoopStep(v)
      PROVE  UNCHANGED Loop(w)!lvars
  BY <1>2, <1>a, LoopLocal, LoopStutter DEF Busy, InBatch
<1>3. ASSUME LoopStep(w)
      PROVE  Loop(w)!LNext
  <2>1. CASE Start(w)
    <3>1. pc[w] = "down" /\ pc'[w] = "poll" /\ cancelled'[w] = FALSE
      BY <2>1, <1>a DEF Start, TypeOK
    <3>2. ~Busy(w)'
      BY <2>1, <3>1, <1>b DEF Start, Busy, InBatch
    <3> QED
      BY <3>1, <3>2 DEF Busy, InBatch, Loop!Begin, Loop!LNext
  <2>2. CASE Crash(w)
    <3>1. pc[w] # "down" /\ pc'[w] = "down" /\ cancelled'[w] = cancelled[w]
      BY <2>2, <1>a DEF Crash, TypeOK
    <3>2. ~Busy(w)'
      BY <2>2, <1>a, EmptyBatchEffect DEF Crash, Busy, InBatch
    <3> QED
      BY <3>1, <3>2 DEF Busy, InBatch, Loop!Die, Loop!LNext
  <2>3. CASE Cancel(w)
    <3>1. pc[w] # "down" /\ pc'[w] = pc[w] /\ cancelled'[w] = TRUE /\ stage' = stage
      BY <2>3, <1>a DEF Cancel, TypeOK
    <3> QED
      BY <3>1 DEF InBatch, Loop!CancelContext, Loop!LNext
  <2>4. CASE FindEvents(w)
    <3>1. pc[w] = "poll" /\ ~cancelled[w] /\ cancelled'[w] = cancelled[w]
      BY <2>4 DEF FindEvents
    <3>2. ~Busy(w)
      BY <3>1, <1>b
    <3>3. Found \subseteq Ids
      BY DEF Found, Eligible
    <3>4. CASE Found = {}
      <4>1. pc'[w] = "select"
        BY <2>4, <3>4, <1>a DEF FindEvents, TypeOK
      <4>2. ~Busy(w)'
        BY <2>4, <3>4, <1>a, FindEventsEffect DEF Busy, InBatch
      <4> QED
        BY <3>1, <3>2, <4>1, <4>2 DEF Busy, InBatch, Loop!FindNothing, Loop!LNext
    <3>5. CASE Found # {}
      <4>1. pc'[w] = "working"
        BY <2>4, <3>5, <1>a DEF FindEvents, TypeOK
      <4>2. Busy(w)'
        BY <2>4, <3>3, <3>5, <1>a, FindEventsEffect DEF Busy, InBatch
      <4> QED
        BY <3>1, <3>2, <4>1, <4>2 DEF Busy, InBatch, Loop!TakeBatch, Loop!LNext
    <3> QED
      BY <3>4, <3>5
  <2>5. CASE FindEventsFails(w)
    <3>1. pc[w] = "poll" /\ pc'[w] = "select" /\ UNCHANGED <<cancelled, stage>>
      BY <2>5, <1>a DEF FindEventsFails, TypeOK
    <3> QED
      BY <3>1 DEF InBatch, Loop!FindNothing, Loop!LNext
  <2>6. CASE WaitGroupDone(w)
    <3>1. pc[w] = "working" /\ pc'[w] = "select" /\ UNCHANGED <<cancelled, stage>>
      BY <2>6, <1>a DEF WaitGroupDone, TypeOK
    <3>2. ~Busy(w)'
      BY <2>6 DEF WaitGroupDone, Busy, InBatch
    <3> QED
      BY <3>1, <3>2 DEF Busy, InBatch, Loop!Drain, Loop!LNext
  <2>7. CASE Resume(w)
    <3>1. pc[w] = "select" /\ pc'[w] = "poll" /\ UNCHANGED <<cancelled, stage>>
      BY <2>7, <1>a DEF Resume, TypeOK
    <3> QED
      BY <3>1 DEF InBatch, Loop!ResumePolling, Loop!LNext
  <2>8. CASE Stop(w)
    <3>1. /\ pc[w] = "select" /\ cancelled[w] /\ pc'[w] = "down"
          /\ UNCHANGED <<cancelled, stage>>
      BY <2>8, <1>a DEF Stop, TypeOK
    <3> QED
      BY <3>1 DEF InBatch, Loop!Return, Loop!LNext
  <2> QED
    BY <1>3, <2>1, <2>2, <2>3, <2>4, <2>5, <2>6, <2>7, <2>8 DEF LoopStep
<1>4. ASSUME NEW v \in Workers, NEW e \in Ids, PublishStep(v, e)
      PROVE  Loop(w)!LNext \/ UNCHANGED Loop(w)!lvars
  <2>1. UNCHANGED <<pc, cancelled>>
    BY <1>4, <1>a, PublishLocal
  <2>2. CASE v # w
    <3>1. \A d \in Ids : stage'[w][d] = stage[w][d]
      BY <1>4, <2>2, <1>a, PublishLocal
    <3> QED
      BY <2>1, <3>1, <1>a, LoopStutter DEF Busy, InBatch
  <2>3. CASE v = w
    <3>1. Busy(w) /\ pc[w] = "working"
      BY <1>4, <2>3, <1>a, <1>b, PublishLocal DEF Busy, InBatch
    <3>2. CASE Busy(w)'
      BY <2>1, <3>1, <3>2, <1>a, LoopStutter
    <3>3. CASE ~Busy(w)'
      BY <2>1, <3>1, <3>3 DEF Busy, InBatch, Loop!Drain, Loop!LNext
    <3> QED
      BY <3>2, <3>3
  <2> QED
    BY <2>2, <2>3
<1> QED
  BY <1>1, <1>2, <1>3, <1>4 DEF Next

\* The loop of every worker, whatever its goroutines, crashes and the writes of
\* other workers do, takes no batch with a cancelled context and goes past
\* wg.Wait only when every row of the batch is done with.
THEOREM PollingImplementsLoop == Spec => ImplementsLoop
<1>1. Init => \A w \in Workers : Loop(w)!LInit
  BY DEF Init, InBatch, Loop!LInit
<1>2. IInv /\ [Next]_vars =>
         [\A w \in Workers : [Loop(w)!LNext]_(Loop(w)!lvars)]_vars
  BY LoopRefines
<1> QED
  BY <1>1, <1>2, Invariance, PTL DEF Spec, ImplementsLoop

-----------------------------------------------------------------------------
(***************************************************************************)
(* The size of a batch.                                                    *)
(***************************************************************************)
\* The query returns no more rows than its LIMIT: the rows are told apart by
\* the number of eligible ones below them, and FindEventLimit numbers will do.
LEMMA FoundBounded == IsFiniteSet(Found) /\ Cardinality(Found) <= FindEventLimit
<1> DEFINE Below(e) == {d \in Eligible : d < e}
           rank == [e \in Found |-> Cardinality(Below(e))]
           Ranks == 0 .. (FindEventLimit - 1)
<1>1. Eligible \subseteq Ids /\ Found \subseteq Eligible /\ Found \subseteq Ids
  BY DEF Eligible, Found
<1>2. IsFiniteSet(Found)
  BY <1>1, IdsAssumption, FS_Subset
<1>3. ASSUME NEW e \in Ids
      PROVE  IsFiniteSet(Below(e)) /\ Cardinality(Below(e)) \in Nat
  <2>1. Below(e) \subseteq Ids
    BY <1>1
  <2> QED
    BY <2>1, IdsAssumption, FS_Subset, FS_CardinalityType
<1>4. rank \in [Found -> Ranks]
  <2>1. ASSUME NEW e \in Found
        PROVE  Cardinality(Below(e)) \in Ranks
    <3>1. Cardinality(Below(e)) < FindEventLimit
      BY DEF Found
    <3>2. Cardinality(Below(e)) \in Nat
      BY <1>1, <1>3
    <3> QED
      BY <3>1, <3>2, FindEventLimitAssumption
  <2> QED
    BY <2>1
<1>5. ASSUME NEW a \in Found, NEW b \in Found, a < b
      PROVE  rank[a] # rank[b]
  <2>1. a \in Nat /\ b \in Nat /\ \A d \in Eligible : d \in Nat
    BY <1>1, ConstantFacts
  <2>2. Below(a) \subseteq Below(b) /\ a \in Below(b) /\ a \notin Below(a)
    <3>1. ASSUME NEW d \in Below(a) PROVE d \in Below(b)
      <4>1. d \in Eligible /\ d < a /\ d \in Nat
        BY <2>1
      <4>2. d < b
        BY <2>1, <4>1, <1>5
      <4> QED
        BY <4>1, <4>2
    <3>2. a \in Below(b) /\ ~(a < a)
      BY <1>1, <1>5, <2>1
    <3> QED
      BY <3>1, <3>2
  <2>3. /\ Cardinality(Below(a)) <= Cardinality(Below(b))
        /\ Cardinality(Below(b)) = Cardinality(Below(a)) => Below(b) = Below(a)
    <3>1. IsFiniteSet(Below(b))
      BY <1>1, <1>3
    <3> HIDE DEF Below
    <3> QED
      BY <2>2, <3>1, FS_Subset
  <2>4. Cardinality(Below(a)) # Cardinality(Below(b))
    BY <2>2, <2>3
  <2> QED
    BY <2>4
<1>6. IsFiniteSet(Ranks) /\ Cardinality(Ranks) = FindEventLimit
  <2>1. 0 \in Int /\ FindEventLimit - 1 \in Int /\ ~(0 > FindEventLimit - 1)
    BY FindEventLimitAssumption
  <2>2. Cardinality(Ranks) = (FindEventLimit - 1) - 0 + 1
    BY <2>1, FS_Interval
  <2> QED
    BY <2>1, <2>2, FS_Interval, FindEventLimitAssumption
<1>7. ~(Cardinality(Ranks) < Cardinality(Found))
  <2> SUFFICES ASSUME Cardinality(Ranks) < Cardinality(Found) PROVE FALSE
    OBVIOUS
  <2> HIDE DEF rank, Ranks
  <2>1. PICK a, b \in Found : a # b /\ rank[a] = rank[b]
    BY <1>2, <1>4, <1>6, FS_PigeonHole
  <2>2. a < b \/ b < a
    BY <1>1, <2>1, ConstantFacts
  <2> QED
    BY <1>5, <2>1, <2>2
<1> QED
  BY <1>2, <1>6, <1>7, FS_CardinalityType, FindEventLimitAssumption

\* A batch is what the query has found, or what is left of the batch before.
LEMMA BatchShrinks ==
    ASSUME IInv, [Next]_vars, NEW w \in Workers
    PROVE  InBatch(w)' \subseteq InBatch(w) \/ InBatch(w)' \subseteq Found
<1>a. TypeOK /\ BatchInv
  BY DEF IInv
<1>1. CASE UNCHANGED vars \/ Environment
  BY <1>1 DEF vars, Environment, Tick, Insert, Archive, StrayLands, InBatch
<1>2. ASSUME NEW v \in Workers, LoopStep(v)
      PROVE  InBatch(w)' \subseteq InBatch(w) \/ InBatch(w)' \subseteq Found
  <2>1. CASE v # w
    BY <1>2, <2>1, <1>a, LoopLocal DEF InBatch
  <2>2. CASE v = w /\ FindEvents(w)
    BY <2>2, <1>a, FindEventsEffect DEF InBatch
  <2>3. CASE v = w /\ Crash(w)
    BY <2>3, <1>a, EmptyBatchEffect DEF Crash, InBatch
  <2> QED
    BY <1>2, <2>1, <2>2, <2>3 DEF LoopStep, Start, Cancel, Stop, Resume,
       FindEventsFails, WaitGroupDone, InBatch
<1>3. ASSUME NEW v \in Workers, NEW e \in Ids, PublishStep(v, e)
      PROVE  InBatch(w)' \subseteq InBatch(w)
  BY <1>3, <1>a, PublishShrinks DEF InBatch
<1> QED
  BY <1>1, <1>2, <1>3 DEF Next

\* outbox.findEventLimit bounds what a worker holds in memory, whatever the
\* rows, their groups and the other workers.
THEOREM BatchBounded == Spec => []BatchBound
<1>1. Init => BatchBound
  <2> SUFFICES ASSUME Init, NEW w \in Workers
               PROVE  Cardinality(InBatch(w)) <= FindEventLimit
    BY DEF BatchBound
  <2>1. InBatch(w) = {}
    BY DEF Init, InBatch
  <2> QED
    BY <2>1, FS_EmptySet, FindEventLimitAssumption
<1>2. IInv /\ BatchBound /\ [Next]_vars => BatchBound'
  <2> SUFFICES ASSUME IInv, BatchBound, [Next]_vars, NEW w \in Workers
               PROVE  Cardinality(InBatch(w)') <= FindEventLimit
    BY DEF BatchBound
  <2>1. IsFiniteSet(InBatch(w))
    BY IdsAssumption, FS_Subset DEF InBatch
  <2>2. ASSUME NEW S, IsFiniteSet(S), Cardinality(S) <= FindEventLimit,
               InBatch(w)' \subseteq S
        PROVE  Cardinality(InBatch(w)') <= FindEventLimit
    <3>1. /\ IsFiniteSet(InBatch(w)')
          /\ Cardinality(InBatch(w)') <= Cardinality(S)
      BY <2>2, FS_Subset
    <3> QED
      BY <2>2, <3>1, FS_CardinalityType, FindEventLimitAssumption
  <2> QED
    BY <2>1, <2>2, BatchShrinks, FoundBounded DEF BatchBound
<1> QED
  BY <1>1, <1>2, Invariance, PTL DEF Spec

-----------------------------------------------------------------------------
(***************************************************************************)
(* One worker at a time.  Nobody else writes retry_count and retry_at, so  *)
(* that what the worker read in FindEvents is what the table says until it *)
(* records the outcome itself.                                             *)
(***************************************************************************)
OneWorker == \A v, w \in Workers : v = w

SnapshotInv ==
    \A w \in Workers, e \in Ids :
        /\ stage[w][e] \in {"queued", "sent", "stored", "ok"} =>
              snapCount[w][e] = retryCount[e]
        /\ stage[w][e] = "queued" => snapRetryIn[w][e] = retryIn[e]
        /\ stage[w][e] = "failed" => snapCount[w][e] = retryCount[e] + 1

LEMMA SnapshotStep ==
    ASSUME OneWorker, TypeOK, BatchInv, SnapshotInv, [Next]_vars
    PROVE  SnapshotInv'
<1>1. CASE UNCHANGED vars
  BY <1>1 DEF vars, SnapshotInv
<1>2. CASE Tick
  BY <1>2 DEF Tick, SnapshotInv, TypeOK
<1>3. ASSUME NEW e \in Ids, Insert(e) \/ Archive(e) \/ StrayLands(e)
      PROVE  SnapshotInv'
  BY <1>3 DEF Insert, Archive, StrayLands, SnapshotInv
<1>4. ASSUME NEW w \in Workers, LoopStep(w)
      PROVE  SnapshotInv'
  <2>1. CASE \/ Start(w) \/ Cancel(w) \/ Stop(w) \/ Resume(w)
             \/ FindEventsFails(w) \/ WaitGroupDone(w)
    BY <2>1 DEF Start, Cancel, Stop, Resume, FindEventsFails, WaitGroupDone,
                SnapshotInv
  <2>2. CASE Crash(w)
    <3>1. EmptyBatch(w)
      BY <2>2 DEF Crash
    <3>2. \A d \in Ids : stage'[w][d] = "idle"
      BY <3>1, EmptyBatchEffect
    <3> QED
      BY <3>2 DEF OneWorker, SnapshotInv
  <2>3. CASE FindEvents(w)
    <3>1. UNCHANGED <<retryCount, retryIn>>
      BY <2>3 DEF FindEvents
    <3>2. \A d \in Ids :
             \/ stage'[w][d] = "idle"
             \/ /\ stage'[w][d] = "queued"
                /\ snapCount'[w][d] = retryCount[d]
                /\ snapRetryIn'[w][d] = retryIn[d]
      BY <2>3, FindEventsEffect
    <3> QED
      BY <3>1, <3>2 DEF OneWorker, SnapshotInv
  <2> QED
    BY <1>4, <2>1, <2>2, <2>3 DEF LoopStep
<1>5. ASSUME NEW w \in Workers, NEW e \in Ids, PublishStep(w, e)
      PROVE  SnapshotInv'
  <2>1. ASSUME NEW isOk \in BOOLEAN, Finish(w, e, isOk),
               \A d \in Ids \ {e} : retryCount'[d] = retryCount[d] /\ retryIn'[d] = retryIn[d]
        PROVE  SnapshotInv'
    <3>1. \A d \in Ids :
             \/ stage'[w][d] = "idle"
             \/ /\ stage'[w][d] = stage[w][d]
                /\ snapCount'[w][d] = snapCount[w][d]
                /\ snapRetryIn'[w][d] = snapRetryIn[w][d]
      BY <2>1, FinishEffect
    <3>2. stage'[w][e] = "idle"
      BY <2>1, FinishEffect DEF Leaving
    <3> QED
      BY <2>1, <3>1, <3>2 DEF OneWorker, SnapshotInv
  <2>2. CASE WaitForRetry(w, e) \/ SkipUnresolved(w, e) \/ TxFails(w, e)
    BY <2>1, <2>2 DEF WaitForRetry, SkipUnresolved, TxFails
  <2>3. CASE TxUpdateRetry(w, e)
    <3>1. \A d \in Ids \ {e} : retryCount'[d] = retryCount[d] /\ retryIn'[d] = retryIn[d]
      BY <2>3 DEF TxUpdateRetry, TypeOK
    <3> QED
      BY <2>1, <2>3, <3>1 DEF TxUpdateRetry
  <2>4. ASSUME NEW isOk \in BOOLEAN, TxUpdateSentAt(w, e, isOk)
        PROVE  SnapshotInv'
    BY <2>1, <2>4 DEF TxUpdateSentAt
  <2>5. ASSUME NEW s \in {"sent", "stored", "ok"}, SetStage(w, e, s),
               stage[w][e] \in {"queued", "sent", "stored"},
               UNCHANGED <<retryCount, retryIn, snapCount, snapRetryIn>>
        PROVE  SnapshotInv'
    <3>1. /\ stage'[w][e] = s
          /\ \A v \in Workers, d \in Ids :
                v # w \/ d # e => stage'[v][d] = stage[v][d]
      BY <2>5, SetStageEffect
    <3> QED
      BY <2>5, <3>1 DEF SnapshotInv
  <2>6. CASE PublishSend(w, e) \/ BrokerStores(w, e) \/ PublishOK(w, e)
    BY <2>5, <2>6 DEF PublishSend, BrokerStores, PublishOK, Turn
  <2>7. CASE PublishRejected(w, e) \/ PublishError(w, e)
    <3>1. /\ stage[w][e] \in {"queued", "sent", "stored"}
          /\ SetStage(w, e, "failed")
          /\ Retry(w, e)
          /\ UNCHANGED <<retryCount, retryIn>>
      BY <2>7 DEF PublishRejected, PublishError, Turn
    <3>2. /\ stage'[w][e] = "failed"
          /\ \A v \in Workers, d \in Ids :
                v # w \/ d # e => stage'[v][d] = stage[v][d]
      BY <3>1, SetStageEffect
    <3>3. /\ snapCount'[w][e] = snapCount[w][e] + 1
          /\ \A v \in Workers, d \in Ids : v # w \/ d # e =>
                /\ snapCount'[v][d] = snapCount[v][d]
                /\ snapRetryIn'[v][d] = snapRetryIn[v][d]
      BY <3>1, RetryEffect
    <3> QED
      BY <3>1, <3>2, <3>3 DEF SnapshotInv
  <2> QED
    BY <1>5, <2>2, <2>3, <2>4, <2>6, <2>7 DEF PublishStep
<1> QED
  BY <1>1, <1>2, <1>3, <1>4, <1>5 DEF Next, Environment

\* A row leaves the queue for the broker only in PublishSend and PublishRejected,
\* which look at the retry_at of the snapshot.
LEMMA OnlyWhenDue ==
    ASSUME TypeOK, BatchInv, SnapshotInv, [Next]_vars,
           NEW w \in Workers, NEW e \in Ids,
           stage[w][e] = "queued", stage'[w][e] \in {"sent", "failed"}
    PROVE  retryIn[e] = 0 /\ retryCount[e] < MaxRetryCount
<1>1. PICK v \in Workers, d \in Ids :
         /\ PublishSend(v, d) \/ PublishRejected(v, d) \/ BrokerStores(v, d)
            \/ PublishOK(v, d) \/ PublishError(v, d)
  <2>1. ~(UNCHANGED vars \/ Environment)
    BY DEF vars, Environment, Tick, Insert, Archive, StrayLands
  <2>2. ASSUME NEW v \in Workers, LoopStep(v)
        PROVE  FALSE
    <3>1. CASE Crash(v)
      BY <3>1, EmptyBatchEffect DEF Crash
    <3>2. CASE FindEvents(v)
      BY <3>2, FindEventsEffect
    <3> QED
      BY <2>2, <3>1, <3>2 DEF LoopStep, Start, Cancel, Stop, Resume,
         FindEventsFails, WaitGroupDone
  <2>3. ASSUME NEW v \in Workers, NEW d \in Ids, NEW isOk \in BOOLEAN,
               Finish(v, d, isOk)
        PROVE  FALSE
    BY <2>3, FinishEffect
  <2> QED
    BY ZenonT(30), <2>1, <2>2, <2>3 DEF Next, PublishStep, WaitForRetry, SkipUnresolved,
       TxUpdateSentAt, TxUpdateRetry, TxFails
<1>2. PICK s \in Stages : SetStage(v, d, s)
  BY <1>1 DEF PublishSend, PublishRejected, BrokerStores, PublishOK, PublishError
<1>3. v = w /\ d = e
  BY <1>2, SetStageEffect
<1>4. snapRetryIn[w][e] = 0
  BY <1>1, <1>3 DEF PublishSend, PublishRejected, BrokerStores, PublishOK,
     PublishError, CanNotRetry, TypeOK
<1> QED
  BY <1>4 DEF SnapshotInv, BatchInv

LEMMA OnlyIncrements ==
    ASSUME TypeOK, SnapshotInv, [Next]_vars, NEW e \in Ids
    PROVE  retryCount'[e] \in {retryCount[e], retryCount[e] + 1}
<1>1. CASE UNCHANGED vars \/ Environment
  BY <1>1 DEF vars, Environment, Tick, Insert, Archive, StrayLands
<1>2. ASSUME NEW w \in Workers, LoopStep(w)
      PROVE  retryCount' = retryCount
  BY <1>2 DEF LoopStep, Start, Crash, Cancel, Stop, Resume, FindEvents,
              FindEventsFails, WaitGroupDone
<1>3. ASSUME NEW w \in Workers, NEW d \in Ids, TxUpdateRetry(w, d)
      PROVE  retryCount'[e] \in {retryCount[e], retryCount[e] + 1}
  <2>1. snapCount[w][d] = retryCount[d] + 1
    BY <1>3 DEF TxUpdateRetry, SnapshotInv
  <2> QED
    BY <1>3, <2>1 DEF TxUpdateRetry, TypeOK
<1>4. ASSUME NEW w \in Workers, NEW d \in Ids, PublishStep(w, d),
             ~TxUpdateRetry(w, d)
      PROVE  retryCount' = retryCount
  BY <1>4 DEF PublishStep, WaitForRetry, SkipUnresolved, PublishSend,
     PublishRejected, BrokerStores, PublishOK, PublishError, TxUpdateSentAt, TxFails
<1> QED
  BY <1>1, <1>2, <1>3, <1>4 DEF Next

LEMMA SnapshotInvariance ==
    ASSUME OneWorker
    PROVE  Spec => [](IInv /\ SnapshotInv)
<1>1. Init => IInv /\ SnapshotInv
  BY InitIInv DEF Init, SnapshotInv
<1>2. IInv /\ SnapshotInv /\ [Next]_vars => (IInv /\ SnapshotInv)'
  BY NextIInv, SnapshotStep DEF IInv
<1> QED
  BY <1>1, <1>2, PTL DEF Spec

\* publishEvent decides from the Event FindEvents has read.  With one worker
\* process at a time the decision is right for the row as it is in the table by
\* then, for any rows, groups, delays and restarts.
THEOREM WhenDueSafe ==
    ASSUME OneWorker
    PROVE  Spec => PublishOnlyWhenDue
<1>1. IInv /\ SnapshotInv /\ [Next]_vars =>
         [\A w \in Workers, e \in Ids :
             stage[w][e] = "queued" /\ stage'[w][e] \in {"sent", "failed"}
                => retryIn[e] = 0 /\ retryCount[e] < MaxRetryCount]_vars
  BY OnlyWhenDue DEF IInv
<1> QED
  BY <1>1, SnapshotInvariance, PTL DEF Spec, PublishOnlyWhenDue

\* txUpdateRetryField writes the count of the snapshot plus one.  With one worker
\* process at a time that is the stored count plus one: no attempt is lost or
\* counted twice.
THEOREM CountSafe ==
    ASSUME OneWorker
    PROVE  Spec => RetryCountOnlyIncrements
<1>1. IInv /\ SnapshotInv /\ [Next]_vars =>
         [\A e \in Ids : retryCount'[e] \in {retryCount[e], retryCount[e] + 1}]_vars
  BY OnlyIncrements DEF IInv
<1> QED
  BY <1>1, SnapshotInvariance, PTL DEF Spec, RetryCountOnlyIncrements

=============================================================================
