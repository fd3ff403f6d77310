--------------------------- MODULE JetStreamProofs ---------------------------
(***************************************************************************)
(* Proofs about JetStream, for all rows, payloads, windows and limits: the *)
(* type invariant, SentContentStored and the action property               *)
(* OncePerWindow.                                                          *)
(***************************************************************************)
EXTENDS JetStream, TLAPS

StoredLike(r) == \E q \in stored : payload[q] = payload[r]

\* What the stream remembers is stored, and so is what it has answered.
StoredInv ==
    /\ \A r \in Rows : window[MsgId(r)] > 0 => StoredLike(r)
    /\ \A r \in Rows : stage[r] = "acked" => StoredLike(r)
    /\ SentContentStored

\* While the last message of a row is young, its id is remembered.
WindowInv == \A r \in Rows : window[MsgId(r)] >= Window - age[r]

IInv == TypeOK /\ StoredInv /\ WindowInv

Stages == {"idle", "buffered", "sent", "acked"}

-----------------------------------------------------------------------------
USE WindowAssumption, MaxReconnectsAssumption, MaxRetryCountAssumption,
    MaxFaultsAssumption DEF connection, stream, table, vars, Stages

LEMMA InitIInv == Init => IInv
<1> SUFFICES ASSUME Init PROVE IInv
  OBVIOUS
<1> USE DEF Init
<1>1. TypeOK
  BY DEF TypeOK
<1>2. \A r \in Rows : MsgId(r) \in MsgIds
  BY DEF MsgIds
<1>3. StoredInv
  BY <1>2, Z3 DEF StoredInv, SentContentStored
<1>4. WindowInv
  <2>1. \A r \in Rows : window[MsgId(r)] = 0 /\ age[r] = Window
    BY <1>2
  <2>2. 0 >= Window - Window
    OBVIOUS
  <2> HIDE DEF Init
  <2> QED
    BY <2>1, <2>2 DEF WindowInv
<1> QED
  BY <1>1, <1>3, <1>4 DEF IInv

\* What the stream does with a request.
LEMMA ReceiveEffect ==
    ASSUME IInv, NEW r \in Rows, Receive(r)
    PROVE  /\ window' \in [MsgIds -> 0 .. Window]
           /\ age' \in [Rows -> 0 .. Window]
           /\ stored \subseteq stored' /\ stored' \subseteq Rows
           /\ StoredLike(r)'
           /\ \A q \in Rows : window'[MsgId(q)] > 0 => StoredLike(q)'
           /\ WindowInv'
           /\ \A q \in Rows : age'[q] = 0 /\ age[q] # 0 => age[q] = Window
<1> USE DEF IInv
<1>1. \A q \in Rows : MsgId(q) \in MsgIds /\ window[MsgId(q)] \in 0 .. Window
                      /\ age[q] \in 0 .. Window
  BY DEF MsgIds, TypeOK
<1>2. CASE KnownId(r)
  <2>1. UNCHANGED stream
    BY <1>2 DEF Receive
  <2>2. StoredLike(r)
    BY <1>2 DEF KnownId, StoredInv
  <2>3. /\ StoredLike(r)' /\ WindowInv'
        /\ \A q \in Rows : window'[MsgId(q)] > 0 => StoredLike(q)'
    BY <2>1, <2>2 DEF StoredInv, WindowInv, StoredLike, MsgId
  <2>4. \A q \in Rows : age'[q] = age[q]
    BY <2>1
  <2> QED
    BY <1>1, <2>1, <2>3, <2>4 DEF TypeOK
<1>3. CASE ~KnownId(r)
  <2>1. /\ window' = [window EXCEPT ![MsgId(r)] = Window]
        /\ stored' = stored \cup {r}
        /\ age' = [age EXCEPT ![r] = 0]
    BY <1>3 DEF Receive
  <2>2. window[MsgId(r)] = 0 /\ age[r] = Window
    BY <1>1, <1>3 DEF KnownId, WindowInv
  <2>3. window' \in [MsgIds -> 0 .. Window] /\ age' \in [Rows -> 0 .. Window]
    <3>1. Window \in 0 .. Window /\ 0 \in 0 .. Window
      OBVIOUS
    <3> QED
      BY <1>1, <2>1, <3>1 DEF TypeOK
  <2>4. \A q \in Rows : /\ window'[MsgId(q)] =
                              IF MsgId(q) = MsgId(r) THEN Window ELSE window[MsgId(q)]
                        /\ age'[q] = IF q = r THEN 0 ELSE age[q]
    BY <1>1, <2>1 DEF TypeOK
  <2>5. StoredLike(r)'
    BY <2>1 DEF StoredLike
  <2>6. \A q \in Rows : window'[MsgId(q)] > 0 => StoredLike(q)'
    BY <2>1, <2>4 DEF StoredInv, StoredLike, MsgId
  <2>7. WindowInv'
    <3>1. ASSUME NEW q \in Rows PROVE window'[MsgId(q)] >= Window - age'[q]
      BY <1>1, <2>4 DEF WindowInv
    <3> QED
      BY <3>1 DEF WindowInv, MsgId
  <2> QED
    BY <2>1, <2>2, <2>3, <2>4, <2>5, <2>6, <2>7 DEF TypeOK
<1> QED
  BY <1>2, <1>3

LEMMA TypeStep == IInv /\ [Next]_vars => TypeOK'
<1> SUFFICES ASSUME IInv, [Next]_vars PROVE TypeOK'
  OBVIOUS
<1> USE DEF IInv, TypeOK
<1>1. CASE Tick
  <2>1. window' \in [MsgIds -> 0 .. Window] /\ age' \in [Rows -> 0 .. Window]
    BY <1>1 DEF Tick
  <2> QED
    BY <1>1, <2>1 DEF Tick
<1>2. CASE Outage
  BY <1>2 DEF Outage
<1>3. CASE Reconnect
  <2>1. stage' \in [Rows -> Stages] /\ \A r \in Rows : stage'[r] # "buffered"
    BY <1>3 DEF Reconnect
  <2> QED
    BY <1>3, <2>1 DEF Reconnect
<1>4. CASE ReconnectFails
  BY <1>4 DEF ReconnectFails
<1>5. CASE Restart
  BY <1>5 DEF Restart
<1>6. ASSUME NEW r \in Rows, PublishMsg(r) PROVE TypeOK'
  <2>1. /\ stage' \in [Rows -> Stages]
        /\ \A q \in Rows : stage'[q] = "buffered" => conn # "connected"
        /\ retryCount' \in [Rows -> 0 .. MaxRetryCount]
        /\ \A q \in Rows : stage'[q] # "idle" => retryCount'[q] < MaxRetryCount
    BY <1>6 DEF PublishMsg, Failed
  <2> QED
    BY <1>6, <2>1 DEF PublishMsg
<1>7. ASSUME NEW r \in Rows, StreamReceives(r) PROVE TypeOK'
  <2>1. Receive(r) /\ stage' \in [Rows -> Stages]
        /\ \A q \in Rows : stage'[q] = "buffered" => conn # "connected"
    BY <1>7 DEF StreamReceives
  <2>2. /\ window' \in [MsgIds -> 0 .. Window] /\ age' \in [Rows -> 0 .. Window]
        /\ stored' \subseteq Rows
    BY <2>1, ReceiveEffect
  <2> QED
    BY <1>7, <2>1, <2>2 DEF StreamReceives
<1>8. ASSUME NEW r \in Rows, LateMessage(r) PROVE TypeOK'
  <2>1. /\ window' \in [MsgIds -> 0 .. Window] /\ age' \in [Rows -> 0 .. Window]
        /\ stored' \subseteq Rows
    BY <1>8, ReceiveEffect DEF LateMessage
  <2> QED
    BY <1>8, <2>1 DEF LateMessage
<1>9. ASSUME NEW r \in Rows, PubAck(r) PROVE TypeOK'
  BY <1>9 DEF PubAck
<1>10. ASSUME NEW r \in Rows, PublishTimeout(r) PROVE TypeOK'
  BY <1>10 DEF PublishTimeout, Failed
<1>11. ASSUME NEW r \in Rows, LateLost(r) PROVE TypeOK'
  BY <1>11 DEF LateLost
<1>12. CASE UNCHANGED vars
  BY <1>12
<1> QED
  BY <1>1, <1>2, <1>3, <1>4, <1>5, <1>6, <1>7, <1>8, <1>9, <1>10, <1>11, <1>12 DEF Next

LEMMA StoredStep == IInv /\ [Next]_vars => StoredInv'
<1> SUFFICES ASSUME IInv, [Next]_vars PROVE StoredInv'
  OBVIOUS
<1> USE DEF IInv, TypeOK
\* A step that leaves the stream alone, acknowledges nothing and marks nothing.
<1>1. ASSUME UNCHANGED <<window, stored, sent>>,
             \A q \in Rows : stage'[q] = "acked" => stage[q] = "acked"
      PROVE  StoredInv'
  BY <1>1 DEF StoredInv, StoredLike, SentContentStored, MsgId
<1>2. CASE Tick
  <2>1. \A q \in Rows : window'[MsgId(q)] > 0 => window[MsgId(q)] > 0
    BY <1>2 DEF Tick, MsgIds
  <2> QED
    BY <1>2, <2>1 DEF Tick, StoredInv, StoredLike, SentContentStored, MsgId
<1>3. CASE Outage \/ Reconnect \/ ReconnectFails \/ Restart
  <2>1. \A q \in Rows : stage'[q] = "acked" => stage[q] = "acked"
    BY <1>3 DEF Outage, Reconnect, ReconnectFails, Restart
  <2> QED
    BY <1>1, <1>3, <2>1 DEF Outage, Reconnect, ReconnectFails, Restart
<1>4. ASSUME NEW r \in Rows, PublishMsg(r) PROVE StoredInv'
  <2>1. \A q \in Rows : stage'[q] = "acked" => stage[q] = "acked"
    BY <1>4 DEF PublishMsg, Failed
  <2> QED
    BY <1>1, <1>4, <2>1 DEF PublishMsg
<1>5. ASSUME NEW r \in Rows, StreamReceives(r) \/ LateMessage(r) PROVE StoredInv'
  <2>1. /\ Receive(r) /\ sent' = sent
        /\ \A q \in Rows : stage'[q] = "acked" => stage[q] = "acked" \/ q = r
    BY <1>5 DEF StreamReceives, LateMessage
  <2>2. /\ stored \subseteq stored' /\ StoredLike(r)'
        /\ \A q \in Rows : window'[MsgId(q)] > 0 => StoredLike(q)'
    BY <2>1, ReceiveEffect
  <2>3. \A q \in Rows : StoredLike(q) => StoredLike(q)'
    BY <2>2 DEF StoredLike
  <2>4. \A q \in Rows : stage'[q] = "acked" => StoredLike(q)'
    BY <2>1, <2>2, <2>3 DEF StoredInv
  <2>5. SentContentStored'
    BY <2>1, <2>2 DEF StoredInv, SentContentStored
  <2> QED
    BY <2>2, <2>4, <2>5 DEF StoredInv, MsgId
<1>6. ASSUME NEW r \in Rows, PubAck(r) PROVE StoredInv'
  <2>1. /\ UNCHANGED <<window, stored>> /\ sent' = sent \cup {r} /\ stage[r] = "acked"
        /\ \A q \in Rows : stage'[q] = "acked" => stage[q] = "acked"
    BY <1>6 DEF PubAck
  <2>2. SentContentStored'
    BY <2>1 DEF StoredInv, StoredLike, SentContentStored
  <2> QED
    BY <2>1, <2>2 DEF StoredInv, StoredLike, MsgId
<1>7. ASSUME NEW r \in Rows, PublishTimeout(r) PROVE StoredInv'
  <2>1. \A q \in Rows : stage'[q] = "acked" => stage[q] = "acked"
    BY <1>7 DEF PublishTimeout, Failed
  <2> QED
    BY <1>1, <1>7, <2>1 DEF PublishTimeout
<1>8. ASSUME NEW r \in Rows, LateLost(r) PROVE StoredInv'
  BY <1>1, <1>8 DEF LateLost
<1>9. CASE UNCHANGED vars
  BY <1>1, <1>9
<1> QED
  BY <1>2, <1>3, <1>4, <1>5, <1>6, <1>7, <1>8, <1>9 DEF Next

\* Every step leaves the window long enough, and a message of a row is stored
\* only when the window of the last one is over.
LEMMA WindowStep ==
    IInv /\ [Next]_vars =>
       WindowInv' /\ \A q \in Rows : age'[q] = 0 /\ age[q] # 0 => age[q] = Window
<1> DEFINE Young == \A q \in Rows : age'[q] = 0 /\ age[q] # 0 => age[q] = Window
<1> SUFFICES ASSUME IInv, [Next]_vars PROVE WindowInv' /\ Young
  OBVIOUS
<1> USE DEF IInv, TypeOK
<1>1. CASE Tick
  <2>1. \A q \in Rows : /\ MsgId(q) \in MsgIds /\ window[MsgId(q)] \in 0 .. Window
                        /\ age[q] \in 0 .. Window
    BY DEF MsgIds
  <2>2. \A q \in Rows :
          /\ window'[MsgId(q)] = IF window[MsgId(q)] > 0 THEN window[MsgId(q)] - 1 ELSE 0
          /\ age'[q] = IF age[q] < Window THEN age[q] + 1 ELSE Window
    BY <1>1, <2>1 DEF Tick
  <2>3. \A q \in Rows : window'[MsgId(q)] >= Window - age'[q]
    BY <2>1, <2>2 DEF WindowInv
  <2>4. Young
    BY <2>1, <2>2
  <2> QED
    BY <2>3, <2>4 DEF WindowInv, MsgId
<1>2. ASSUME NEW r \in Rows, StreamReceives(r) \/ LateMessage(r) PROVE WindowInv' /\ Young
  BY <1>2, ReceiveEffect DEF StreamReceives, LateMessage
<1>3. CASE UNCHANGED <<window, age>>
  BY <1>3 DEF WindowInv, MsgId
<1> QED
  BY <1>1, <1>2, <1>3
     DEF Next, Outage, Reconnect, ReconnectFails, Restart, PublishMsg, PubAck,
         PublishTimeout, LateLost

LEMMA Inductive == Spec => []IInv
<1>1. IInv /\ [Next]_vars => IInv'
  BY TypeStep, StoredStep, WindowStep DEF IInv
<1> QED
  BY InitIInv, <1>1, PTL DEF Spec

\* The state of the connection, the stream and the rows is well typed; nothing
\* stays in the buffer of a connection that stands or is closed.
THEOREM TypeCorrect == Spec => []TypeOK
<1>1. IInv => TypeOK
  BY DEF IInv
<1> QED
  BY Inductive, <1>1, PTL

\* sent_at is set only for a row whose payload the stream has stored, through
\* any number of outages, restarts and late messages.
THEOREM ContentSafe == Spec => []SentContentStored
<1>1. IInv => SentContentStored
  BY DEF IInv, StoredInv
<1> QED
  BY Inductive, <1>1, PTL

\* The hash of the payload as message id keeps every row from being stored
\* twice within the window of the stream, whatever the length of the window.
THEOREM OnceSafe == Spec => OncePerWindow
<1>1. IInv /\ [Next]_vars =>
         [\A r \in Rows : age'[r] = 0 /\ age[r] # 0 => age[r] = Window]_vars
  BY WindowStep
<1> QED
  BY Inductive, <1>1, PTL DEF Spec, OncePerWindow

=============================================================================
