------------------------------ MODULE JetStream ------------------------------
(***************************************************************************)
(* The NATS backend (pkg/service/backend/nats): one connection for the     *)
(* life of the process, and rows published over it to a JetStream stream   *)
(* with the SHA-256 of the payload as message id.                          *)
(*                                                                         *)
(* When the connection breaks, the client tries MaxReconnects times to     *)
(* connect again; meanwhile it keeps what is published in a buffer.  Then  *)
(* it closes the connection for good, and nobody makes another one.        *)
(*                                                                         *)
(* Within its duplicate window the stream stores one message per id and    *)
(* answers the others as duplicates, without an error; the backend does    *)
(* not look at that mark.  publishEvent publishes a row again after an     *)
(* error, until it is out of attempts.                                     *)
(***************************************************************************)
EXTENDS Naturals

CONSTANTS
    Rows,              \* the rows published to one stream
    payload,           \* the payload of each row
    Window,            \* duplicate window of the stream, in ticks
    MaxReconnects,     \* nats.maxReconnects
    MaxRetryCount,     \* outbox.retryCount
    MaxFaults          \* bound: outages and restarts of one behaviour

ASSUME WindowAssumption == Window \in Nat \ {0}
ASSUME MaxReconnectsAssumption == MaxReconnects \in Nat
ASSUME MaxRetryCountAssumption == MaxRetryCount \in Nat \ {0}
ASSUME MaxFaultsAssumption == MaxFaults \in Nat

VARIABLES
    conn,              \* the state of the connection
    tries,             \* failed attempts to connect again
    faults,            \* outages and restarts so far
    stage,             \* stage[r]: how far the publication of row r is
    buffer,            \* requests given up by the sender, still in the buffer
    late,              \* rows with requests given up, still under way
    window,            \* window[m]: ticks the stream still remembers id m
    stored,            \* rows of which the stream holds a message
    sent,              \* rows whose sent_at is set
    retryCount,        \* retryCount[r]: failed attempts for row r
    age                \* history: ticks since the last message of a row was
                       \* stored, counted up to Window

connection == <<conn, tries, faults>>
stream == <<window, stored, age>>
table == <<sent, retryCount>>
vars == <<connection, stage, buffer, late, stream, table>>

\* Equal payloads hash to equal ids, different ones do not collide.
MsgId(r) == payload[r]

MsgIds == {MsgId(r) : r \in Rows}

TypeOK ==
    /\ conn \in {"connected", "reconnecting", "closed"}
    /\ tries \in 0 .. MaxReconnects
    /\ faults \in 0 .. MaxFaults
    /\ stage \in [Rows -> {"idle", "buffered", "sent", "acked"}]
    /\ \A r \in Rows : stage[r] = "buffered" => conn # "connected"
    /\ buffer \subseteq Rows /\ (buffer # {} => conn = "reconnecting")
    /\ late \subseteq Rows
    /\ window \in [MsgIds -> 0 .. Window]
    /\ stored \subseteq Rows
    /\ sent \subseteq Rows
    /\ retryCount \in [Rows -> 0 .. MaxRetryCount]
    /\ \A r \in Rows : stage[r] # "idle" => retryCount[r] < MaxRetryCount
    /\ age \in [Rows -> 0 .. Window]

\* newNatsClient: start-up ends with an error if it cannot connect.
Init ==
    /\ conn = "connected" /\ tries = 0 /\ faults = 0
    /\ stage = [r \in Rows |-> "idle"]
    /\ buffer = {} /\ late = {}
    /\ window = [m \in MsgIds |-> 0]
    /\ stored = {} /\ sent = {}
    /\ retryCount = [r \in Rows |-> 0]
    /\ age = [r \in Rows |-> Window]

-----------------------------------------------------------------------------
(* The connection, with the options of NATS.Options. *)

Outage ==
    /\ conn = "connected" /\ faults < MaxFaults
    /\ conn' = "reconnecting" /\ faults' = faults + 1
    /\ UNCHANGED <<tries, stage, buffer, late, stream, table>>

\* The buffer is flushed: what it holds is under way.
Reconnect ==
    /\ conn = "reconnecting"
    /\ conn' = "connected" /\ tries' = 0
    /\ stage' = [r \in Rows |-> IF stage[r] = "buffered" THEN "sent" ELSE stage[r]]
    /\ late' = late \cup buffer /\ buffer' = {}
    /\ UNCHANGED <<faults, stream, table>>

\* After the last attempt the connection is closed, and the buffer lost.
ReconnectFails ==
    /\ conn = "reconnecting"
    /\ IF tries < MaxReconnects
         THEN tries' = tries + 1 /\ UNCHANGED <<conn, buffer>>
         ELSE conn' = "closed" /\ buffer' = {} /\ UNCHANGED tries
    /\ UNCHANGED <<faults, stage, late, stream, table>>

\* The process is killed and started again, with a new connection.
Restart ==
    /\ faults < MaxFaults
    /\ faults' = faults + 1
    /\ conn' = "connected" /\ tries' = 0
    /\ late' = late \cup {r \in Rows : stage[r] = "sent"}
    /\ stage' = [r \in Rows |-> "idle"] /\ buffer' = {}
    /\ UNCHANGED <<stream, table>>

-----------------------------------------------------------------------------
(* Publish. *)

\* Mutant: the attempt is counted by the backend and by its caller.
FailedTwice(r) ==
    /\ stage' = [stage EXCEPT ![r] = "idle"]
    /\ retryCount' = [retryCount EXCEPT ![r] = @ + 2]
\* The caller counts the failed attempt.
Failed(r) ==
    /\ stage' = [stage EXCEPT ![r] = "idle"]
    /\ retryCount' = [retryCount EXCEPT ![r] = @ + 1]

\* A row without attempts left is not published; one whose sent_at is set is,
\* until it is archived.  On a closed connection the error comes at once.
PublishMsg(r) ==
    /\ stage[r] = "idle" /\ retryCount[r] < MaxRetryCount
    /\ \/ conn = "connected" /\ stage' = [stage EXCEPT ![r] = "sent"] /\ UNCHANGED retryCount
       \/ conn = "reconnecting" /\ stage' = [stage EXCEPT ![r] = "buffered"] /\ UNCHANGED retryCount
       \/ conn = "closed" /\ Failed(r)
    /\ UNCHANGED <<connection, buffer, late, stream, sent>>

\* Mutant: a new id for every attempt, as the SNS backend does it.
KnownIdNever(r) == FALSE
\* The stream knows the id of the request: every attempt for a row, and for any
\* row of equal payload, carries the same one.
KnownId(r) == window[MsgId(r)] > 0

\* The stream receives the message: it stores it, unless it remembers the id.
Receive(r) ==
    IF KnownId(r)
      THEN UNCHANGED stream
      ELSE /\ window' = [window EXCEPT ![MsgId(r)] = Window]
           /\ stored' = stored \cup {r}
           /\ age' = [age EXCEPT ![r] = 0]

StreamReceives(r) ==
    /\ stage[r] = "sent"
    /\ Receive(r)
    /\ stage' = [stage EXCEPT ![r] = "acked"]
    /\ UNCHANGED <<connection, buffer, late, table>>

\* A request given up arrives; others for the same row may follow.
LateMessage(r) ==
    /\ r \in late
    /\ Receive(r)
    /\ late' \in {late, late \ {r}}
    /\ UNCHANGED <<connection, stage, buffer, table>>

\* Late requests for a row may be lost for good.
LateLost(r) ==
    /\ r \in late
    /\ late' = late \ {r}
    /\ UNCHANGED <<connection, stage, buffer, stream, table>>

\* The answer arrives, marked as a duplicate or not, and sent_at is set.
PubAck(r) ==
    /\ stage[r] = "acked" /\ conn = "connected"
    /\ stage' = [stage EXCEPT ![r] = "idle"]
    /\ sent' = sent \cup {r}
    /\ UNCHANGED <<connection, buffer, late, stream, retryCount>>

\* Mutants: a timeout passes for an answer; a request that is in the buffer
\* waits until it has been sent.
PublishTimeoutIgnored(r) ==
    /\ stage[r] \in {"buffered", "sent", "acked"}
    /\ sent' = sent \cup {r}
    /\ late' = IF stage[r] = "sent" THEN late \cup {r} ELSE late
    /\ stage' = [stage EXCEPT ![r] = "idle"]
    /\ UNCHANGED <<connection, buffer, stream, retryCount>>
PublishTimeoutOnceSent(r) ==
    /\ stage[r] \in {"sent", "acked"}
    /\ Failed(r)
    /\ late' = IF stage[r] = "sent" THEN late \cup {r} ELSE late
    /\ UNCHANGED <<connection, buffer, stream, sent>>

\* No answer in time: the client's default timeout is an error, wherever the
\* request is.  A request in the buffer stays there.
PublishTimeout(r) ==
    /\ stage[r] \in {"buffered", "sent", "acked"}
    /\ Failed(r)
    /\ late' = IF stage[r] = "sent" THEN late \cup {r} ELSE late
    /\ buffer' = IF stage[r] = "buffered" /\ conn = "reconnecting"
                 THEN buffer \cup {r} ELSE buffer
    /\ UNCHANGED <<connection, stream, sent>>

Tick ==
    /\ \/ \E m \in MsgIds : window[m] > 0
       \/ \E r \in Rows : age[r] < Window
    /\ window' = [m \in MsgIds |-> IF window[m] > 0 THEN window[m] - 1 ELSE 0]
    /\ age' = [r \in Rows |-> IF age[r] < Window THEN age[r] + 1 ELSE Window]
    /\ UNCHANGED <<connection, stage, buffer, late, stored, table>>

Next ==
    \/ Tick \/ Outage \/ Reconnect \/ ReconnectFails \/ Restart
    \/ \E r \in Rows : \/ PublishMsg(r) \/ StreamReceives(r) \/ LateMessage(r)
                       \/ PubAck(r) \/ PublishTimeout(r) \/ LateLost(r)

Spec == Init /\ [][Next]_vars

\* The worker polls for ever, and the client's timeout runs for every request.
\* Nothing is assumed of the network, the stream and the connection.
Fairness ==
    \A r \in Rows : WF_vars(PublishMsg(r)) /\ WF_vars(PublishTimeout(r))
FairSpec == Spec /\ Fairness

-----------------------------------------------------------------------------
\* However often a row is published again, after lost answers, from the buffer
\* of a broken connection or by the next poll, and however late its earlier
\* requests arrive, the stream does not store it a second time within the
\* window.
OncePerWindow ==
    [][\A r \in Rows : age'[r] = 0 /\ age[r] # 0 => age[r] = Window]_vars

\* A row marked as published has its content in the stream.
SentContentStored ==
    \A r \in sent : \E q \in stored : payload[q] = payload[r]

\* No row hangs: whatever becomes of the connection, a row is marked as sent in
\* the end or uses up its attempts.  On a connection that is closed for good those
\* that are not sent do the latter.
NoRowHangs == \A r \in Rows : <>(r \in sent \/ retryCount[r] = MaxRetryCount)

=============================================================================
