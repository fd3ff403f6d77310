-------------------------- MODULE LogHandlersProofs --------------------------
(***************************************************************************)
(* Proofs about LogHandlers, for every set of loggers, sinks, goroutines   *)
(* and records: the type invariant and the three properties of its run.    *)
(***************************************************************************)
EXTENDS LogHandlers, TLAPS

Offered == inflight \cup written \cup failed

\* Calls refer to existing loggers; each builds a logger of its own.
CallInv ==
    /\ \A c \in Callers : call[c] # Idle => call[c].logger \in loggers
    /\ \A c \in Callers : call[c].op = "With" => call[c].new \notin loggers
    /\ \A c, d \in Callers :
          call[c].op = "With" /\ call[d].op = "With" /\ call[c].new = call[d].new => c = d

\* The flag is set in all that derives from IgnoreTracing, sink by sink, and
\* only where it was asked for.
FlagInv ==
    /\ marked \subseteq loggers
    /\ \A l \in marked : ignore[l] = Tracked
    /\ \A c \in Callers : call[c].op = "With" =>
          \A s \in Tracked \ call[c].left :
             call[c].ignored \/ call[c].logger \in marked => s \in ignore[call[c].new]
    /\ \A x \in Offered : x.logger \in loggers
    /\ IgnoredNeverTracked

AskedInv ==
    /\ \A c \in Callers : call[c].op = "With" =>
          /\ line[call[c].logger] \subseteq line[call[c].new]
          /\ call[c].ignored => call[c].logger \in asked
    /\ \A l \in Loggers : l \in line[l]
    /\ \A l \in Loggers : ignore[l] # {} => line[l] \cap asked # {}
    /\ \A n \in Loggers \ loggers :
          (\A c \in Callers : call[c].op = "With" => call[c].new # n) => ignore[n] = {}
    /\ \A h \in handled : h.logger \in loggers
    /\ \A c \in Callers : call[c].op = "Handle" =>
          /\ call[c].left \subseteq enabled[call[c].record]
          /\ \A s \in enabled[call[c].record] \ call[c].left :
                \/ EntryOf(c, s) \in Offered
                \/ s \in Tracked /\ line[call[c].logger] \cap asked # {}
    /\ ReachesEverySink

\* A record is offered once to each sink, so what Close has seen delivered
\* does not come back.
CloseInv ==
    /\ \A c \in Callers : call[c].op = "Handle" =>
          /\ \A h \in handled : h.record # call[c].record
          /\ \A d \in Callers : call[d].op = "Handle" /\ call[d].record = call[c].record => c = d
    /\ \A l \in Loggers : \A x \in inflight \cup owed[l] :
          /\ ~Unused(x.record)
          /\ x.sink \in Tracked
          /\ \A c \in Callers : call[c].op = "Handle" /\ call[c].record = x.record =>
                x.sink \notin call[c].left
    /\ \A l \in Loggers : \A x \in owed[l] : x.logger = l
    /\ \A l \in Loggers : \A x \in owed[l] \cap inflight : x.sink \in closing[l]
    /\ \A l \in closed : closing[l] = {}

IInv == TypeOK /\ CallInv /\ FlagInv /\ AskedInv /\ CloseInv

-----------------------------------------------------------------------------
(* What each kind of step does to the calls. *)

USE DEF handlers, sinks, closes, family, vars

LEMMA CallKinds ==
    ASSUME TypeOK, NEW c \in Callers
    PROVE  /\ call[c] = Idle => call[c].op = "none"
           /\ call[c].op = "Handle" => call[c] \in HandleCall
           /\ call[c].op = "With" => call[c] \in WithCall
           /\ call[c] # Idle => call[c].op \in {"Handle", "With"}
BY DEF TypeOK, Idle, HandleCall, WithCall

LEMMA StartHandleEffect ==
    ASSUME TypeOK, NEW c \in Callers, NEW l \in Loggers, NEW r \in Records,
           StartHandle(c, l, r)
    PROVE  /\ call' \in [Callers -> {Idle} \cup HandleCall \cup WithCall]
           /\ call'[c].op = "Handle" /\ call'[c] # Idle
           /\ call'[c].logger = l /\ call'[c].record = r /\ call'[c].left = enabled[r]
           /\ \A d \in Callers \ {c} : call'[d] = call[d]
<1> DEFINE k == [op |-> "Handle", logger |-> l, record |-> r, left |-> enabled[r]]
<1>1. k \in HandleCall /\ k # Idle
  BY EnabledAssumption DEF HandleCall, Idle
<1>2. call' = [call EXCEPT ![c] = k]
  BY DEF StartHandle
<1>3. k.op = "Handle" /\ k.logger = l /\ k.record = r /\ k.left = enabled[r]
  OBVIOUS
<1> HIDE DEF k
<1> QED
  BY <1>1, <1>2, <1>3 DEF TypeOK

LEMMA VisitedEffect ==
    ASSUME TypeOK, NEW c \in Callers, NEW s \in Sinks,
           call[c].op \in {"Handle", "With"}, Visited(c, s)
    PROVE  /\ call' \in [Callers -> {Idle} \cup HandleCall \cup WithCall]
           /\ call'[c].op = call[c].op /\ call'[c] # Idle
           /\ call'[c].logger = call[c].logger
           /\ call[c].op = "Handle" => call'[c].record = call[c].record
           /\ call[c].op = "With" => /\ call'[c].new = call[c].new
                                    /\ call'[c].ignored = call[c].ignored
           /\ call'[c].left = call[c].left \ {s}
           /\ \A d \in Callers \ {c} : call'[d] = call[d]
<1> DEFINE k == [call[c] EXCEPT !.left = @ \ {s}]
<1>1. call' = [call EXCEPT ![c] = k]
  BY DEF Visited
<1>2. CASE call[c].op = "Handle"
  <2>1. call[c] \in HandleCall
    BY <1>2, CallKinds
  <2>2. /\ k \in HandleCall /\ k # Idle
        /\ k.op = call[c].op /\ k.logger = call[c].logger
        /\ k.record = call[c].record /\ k.left = call[c].left \ {s}
    BY <2>1 DEF HandleCall, Idle
  <2> HIDE DEF k
  <2> QED
    BY <1>1, <1>2, <2>2 DEF TypeOK
<1>3. CASE call[c].op = "With"
  <2>1. call[c] \in WithCall
    BY <1>3, CallKinds
  <2>2. /\ k \in WithCall /\ k # Idle
        /\ k.op = call[c].op /\ k.logger = call[c].logger
        /\ k.new = call[c].new /\ k.ignored = call[c].ignored
        /\ k.left = call[c].left \ {s}
    BY <2>1 DEF WithCall, Idle
  <2> HIDE DEF k
  <2> QED
    BY <1>1, <1>3, <2>2 DEF TypeOK
<1> QED
  BY <1>2, <1>3

LEMMA StartWithEffect ==
    ASSUME TypeOK, NEW c \in Callers, NEW l \in Loggers, NEW n \in Loggers,
           NEW ignored \in BOOLEAN, StartWith(c, l, n, ignored)
    PROVE  /\ call' \in [Callers -> {Idle} \cup HandleCall \cup WithCall]
           /\ call'[c].op = "With" /\ call'[c] # Idle
           /\ call'[c].logger = l /\ call'[c].new = n
           /\ call'[c].ignored = ignored /\ call'[c].left = Tracked
           /\ \A d \in Callers \ {c} : call'[d] = call[d]
<1> DEFINE k == [op |-> "With", logger |-> l, new |-> n, ignored |-> ignored, left |-> Tracked]
<1>1. k \in WithCall /\ k # Idle
  BY DEF WithCall, Idle
<1>2. call' = [call EXCEPT ![c] = k]
  BY DEF StartWith, Derived
<1>3. /\ k.op = "With" /\ k.logger = l /\ k.new = n
      /\ k.ignored = ignored /\ k.left = Tracked
  OBVIOUS
<1> HIDE DEF k
<1> QED
  BY <1>1, <1>2, <1>3 DEF TypeOK

LEMMA ReturnEffect ==
    ASSUME TypeOK, NEW c \in Callers, ReturnHandle(c) \/ ReturnWith(c)
    PROVE  /\ call' \in [Callers -> {Idle} \cup HandleCall \cup WithCall]
           /\ call'[c] = Idle /\ call'[c].op = "none"
           /\ \A d \in Callers \ {c} : call'[d] = call[d]
<1>1. call' = [call EXCEPT ![c] = Idle]
  BY DEF ReturnHandle, ReturnWith
<1> QED
  BY <1>1 DEF TypeOK, Idle

-----------------------------------------------------------------------------
(* Types. *)

LEMMA EntryType ==
    ASSUME TypeOK, NEW c \in Callers, NEW s \in Sinks, InHandle(c, s)
    PROVE  /\ EntryOf(c, s) \in Entry
           /\ EntryOf(c, s).logger = call[c].logger
           /\ EntryOf(c, s).sink = s
           /\ EntryOf(c, s).record = call[c].record
<1>1. call[c] \in HandleCall
  BY CallKinds DEF InHandle
<1> QED
  BY <1>1 DEF HandleCall, Entry, EntryOf

LEMMA TypeStep == TypeOK /\ [Next]_vars => TypeOK'
<1> SUFFICES ASSUME TypeOK, [Next]_vars PROVE TypeOK'
  OBVIOUS
<1>1. ASSUME NEW c \in Callers, NEW l \in Loggers, NEW r \in Records, StartHandle(c, l, r)
      PROVE  TypeOK'
  BY <1>1, StartHandleEffect DEF TypeOK, StartHandle
<1>2. ASSUME NEW c \in Callers, NEW s \in Sinks, HandleLocal(c, s)
      PROVE  TypeOK'
  <2>1. EntryOf(c, s) \in Entry
    BY <1>2, EntryType DEF HandleLocal
  <2>2. call' \in [Callers -> {Idle} \cup HandleCall \cup WithCall]
    BY <1>2, VisitedEffect DEF HandleLocal, InHandle
  <2> QED
    BY <1>2, <2>1, <2>2 DEF TypeOK, HandleLocal
<1>3. ASSUME NEW c \in Callers, NEW s \in Sinks, HandleTracked(c, s)
      PROVE  TypeOK'
  <2>1. EntryOf(c, s) \in Entry
    BY <1>3, EntryType DEF HandleTracked
  <2>2. call' \in [Callers -> {Idle} \cup HandleCall \cup WithCall]
    BY <1>3, VisitedEffect DEF HandleTracked, InHandle
  <2> QED
    BY <1>3, <2>1, <2>2 DEF TypeOK, HandleTracked
<1>4. ASSUME NEW c \in Callers, ReturnHandle(c)
      PROVE  TypeOK'
  <2>1. call[c] \in HandleCall
    BY <1>4, CallKinds DEF ReturnHandle
  <2>2. [logger |-> call[c].logger, record |-> call[c].record]
           \in [logger : Loggers, record : Records]
    BY <2>1 DEF HandleCall
  <2>3. call' \in [Callers -> {Idle} \cup HandleCall \cup WithCall]
    BY <1>4, ReturnEffect
  <2> QED
    BY <1>4, <2>2, <2>3 DEF TypeOK, ReturnHandle
<1>5. ASSUME NEW c \in Callers, NEW l \in Loggers, NEW n \in Loggers,
             NEW ignored \in BOOLEAN, StartWith(c, l, n, ignored)
      PROVE  TypeOK'
  <2>1. call' \in [Callers -> {Idle} \cup HandleCall \cup WithCall]
    BY <1>5, StartWithEffect
  <2>2. line' \in [Loggers -> SUBSET Loggers]
    BY <1>5 DEF TypeOK, StartWith
  <2> QED
    BY <1>5, <2>1, <2>2 DEF TypeOK, StartWith
<1>6. ASSUME NEW c \in Callers, NEW s \in Tracked, DeriveTracked(c, s)
      PROVE  TypeOK'
  <2>1. call[c].op = "With" /\ s \in Sinks
    BY <1>6, TrackedAssumption DEF DeriveTracked
  <2>2. call' \in [Callers -> {Idle} \cup HandleCall \cup WithCall]
    BY <1>6, <2>1, VisitedEffect DEF DeriveTracked
  <2>3. call[c] \in WithCall
    BY <2>1, CallKinds
  <2>4. ignore' \in [Loggers -> SUBSET Tracked]
    BY <1>6, <2>3 DEF TypeOK, DeriveTracked, Copied, WithCall
  <2> QED
    BY <1>6, <2>2, <2>4 DEF TypeOK, DeriveTracked
<1>7. ASSUME NEW c \in Callers, ReturnWith(c)
      PROVE  TypeOK'
  <2>1. call[c] \in WithCall
    BY <1>7, CallKinds DEF ReturnWith
  <2>2. call[c].new \in Loggers
    BY <2>1 DEF WithCall
  <2>3. call' \in [Callers -> {Idle} \cup HandleCall \cup WithCall]
    BY <1>7, ReturnEffect
  <2> QED
    BY <1>7, <2>2, <2>3 DEF TypeOK, ReturnWith
<1>8. ASSUME NEW x \in inflight, Deliver(x)
      PROVE  TypeOK'
  BY <1>8 DEF TypeOK, Deliver
<1>9. ASSUME NEW l \in Loggers, Close(l)
      PROVE  TypeOK'
  <2>1. closing' \in [Loggers -> SUBSET Tracked] /\ owed' \in [Loggers -> SUBSET Entry]
    BY <1>9 DEF TypeOK, Close, InFlight
  <2> QED
    BY <1>9, <2>1 DEF TypeOK, Close
<1>10. ASSUME NEW l \in Loggers, NEW s \in Tracked, WaitDone(l, s)
       PROVE  TypeOK'
  <2>1. closing' \in [Loggers -> SUBSET Tracked]
    BY <1>10 DEF TypeOK, WaitDone
  <2>2. l \in loggers
    BY <1>10 DEF TypeOK, WaitDone
  <2>3. closed' \cup {k \in Loggers : closing'[k] # {}} \subseteq loggers
    BY <1>10, <2>2 DEF TypeOK, WaitDone
  <2> QED
    BY <1>10, <2>1, <2>3 DEF TypeOK, WaitDone
<1>11. CASE UNCHANGED vars
  BY <1>11 DEF TypeOK
<1> QED
  BY <1>1, <1>2, <1>3, <1>4, <1>5, <1>6, <1>7, <1>8, <1>9, <1>10, <1>11 DEF Next

-----------------------------------------------------------------------------
(* The calls. *)

\* All a step does that only moves goroutine c on to the next sink.
LEMMA VisitedKeepsCallInv ==
    ASSUME TypeOK, CallInv, NEW c \in Callers, NEW s \in Sinks,
           call[c].op \in {"Handle", "With"}, Visited(c, s), loggers' = loggers
    PROVE  CallInv'
<1>1. call[c] # Idle
  BY DEF Idle
<1>2. /\ call'[c].op = call[c].op /\ call'[c].logger = call[c].logger
      /\ call[c].op = "With" => call'[c].new = call[c].new
      /\ \A d \in Callers \ {c} : call'[d] = call[d]
  BY VisitedEffect
<1> QED
  BY <1>1, <1>2 DEF CallInv

LEMMA CallStep == TypeOK /\ CallInv /\ [Next]_vars => CallInv'
<1> SUFFICES ASSUME TypeOK, CallInv, [Next]_vars PROVE CallInv'
  OBVIOUS
<1>1. ASSUME NEW c \in Callers, NEW l \in Loggers, NEW r \in Records, StartHandle(c, l, r)
      PROVE  CallInv'
  <2>1. l \in loggers /\ loggers' = loggers
    BY <1>1 DEF StartHandle
  <2>2. /\ call'[c].op = "Handle" /\ call'[c].logger = l
        /\ \A d \in Callers \ {c} : call'[d] = call[d]
    BY <1>1, StartHandleEffect
  <2> QED
    BY <2>1, <2>2 DEF CallInv
<1>2. ASSUME NEW c \in Callers, NEW s \in Sinks, HandleLocal(c, s) \/ HandleTracked(c, s)
      PROVE  CallInv'
  BY <1>2, VisitedKeepsCallInv DEF HandleLocal, HandleTracked, InHandle
<1>3. ASSUME NEW c \in Callers, ReturnHandle(c)
      PROVE  CallInv'
  <2>1. loggers' = loggers
    BY <1>3 DEF ReturnHandle
  <2> QED
    BY <1>3, <2>1, ReturnEffect DEF CallInv
<1>4. ASSUME NEW c \in Callers, NEW l \in Loggers, NEW n \in Loggers,
             NEW ignored \in BOOLEAN, StartWith(c, l, n, ignored)
      PROVE  CallInv'
  <2>1. /\ l \in loggers /\ n \notin loggers /\ loggers' = loggers
        /\ \A d \in Callers : call[d].op = "With" => call[d].new # n
    BY <1>4 DEF StartWith
  <2>2. /\ call'[c].op = "With" /\ call'[c].logger = l /\ call'[c].new = n
        /\ \A d \in Callers \ {c} : call'[d] = call[d]
    BY <1>4, StartWithEffect
  <2> QED
    BY <2>1, <2>2 DEF CallInv
<1>5. ASSUME NEW c \in Callers, NEW s \in Tracked, DeriveTracked(c, s)
      PROVE  CallInv'
  BY <1>5, VisitedKeepsCallInv, TrackedAssumption DEF DeriveTracked
<1>6. ASSUME NEW c \in Callers, ReturnWith(c)
      PROVE  CallInv'
  <2>1. call[c].op = "With" /\ loggers' = loggers \cup {call[c].new}
    BY <1>6 DEF ReturnWith
  <2>2. call'[c] = Idle /\ call'[c].op = "none" /\ \A d \in Callers \ {c} : call'[d] = call[d]
    BY <1>6, ReturnEffect
  <2> QED
    BY <2>1, <2>2 DEF CallInv
<1>7. ASSUME UNCHANGED <<call, loggers>>
      PROVE  CallInv'
  BY <1>7 DEF CallInv
<1> QED
  BY <1>1, <1>2, <1>3, <1>4, <1>5, <1>6, <1>7
     DEF Next, Deliver, Close, WaitDone

-----------------------------------------------------------------------------
(* The flags. *)

LEMMA FlagStep == TypeOK /\ CallInv /\ FlagInv /\ [Next]_vars => FlagInv'
<1> SUFFICES ASSUME TypeOK, CallInv, FlagInv, [Next]_vars PROVE FlagInv'
  OBVIOUS
<1> USE DEF Offered, IgnoredNeverTracked
<1>1. ASSUME NEW c \in Callers, NEW l \in Loggers, NEW r \in Records, StartHandle(c, l, r)
      PROVE  FlagInv'
  <2>1. UNCHANGED <<loggers, ignore, marked, inflight, written, failed>>
    BY <1>1 DEF StartHandle
  <2>2. call'[c].op = "Handle" /\ \A d \in Callers \ {c} : call'[d] = call[d]
    BY <1>1, StartHandleEffect
  <2> QED
    BY <2>1, <2>2 DEF FlagInv
<1>2. ASSUME NEW c \in Callers, NEW s \in Sinks, HandleLocal(c, s) \/ HandleTracked(c, s)
      PROVE  FlagInv'
  <2>1. UNCHANGED <<loggers, ignore, marked>>
    BY <1>2 DEF HandleLocal, HandleTracked
  <2>2. InHandle(c, s) /\ Visited(c, s)
    BY <1>2 DEF HandleLocal, HandleTracked
  <2>3. call'[c].op = "Handle" /\ \A d \in Callers \ {c} : call'[d] = call[d]
    BY <2>2, VisitedEffect DEF InHandle
  <2>4. call[c].logger \in loggers
    BY <2>2 DEF CallInv, InHandle, Idle
  <2>5. /\ EntryOf(c, s).logger = call[c].logger
        /\ EntryOf(c, s).sink = s
    BY <2>2, EntryType
  <2>6. \A x \in Offered' : x \in Offered \/ x = EntryOf(c, s)
    BY <1>2 DEF HandleLocal, HandleTracked
  <2>7. EntryOf(c, s) \in Offered' \ Offered => s \notin Tracked \/ call[c].logger \notin marked
    <3>1. CASE HandleLocal(c, s)
      BY <3>1 DEF HandleLocal
    <3>2. CASE HandleTracked(c, s)
      BY <3>2 DEF HandleTracked, Silenced, FlagInv
    <3> QED
      BY <1>2, <3>1, <3>2
  <2>8. \A x \in Offered' : x.logger \in loggers' /\ (x.sink \in Tracked => x.logger \notin marked')
    BY <2>1, <2>4, <2>5, <2>6, <2>7 DEF FlagInv
  <2> QED
    BY <2>1, <2>3, <2>8 DEF FlagInv
<1>3. ASSUME NEW c \in Callers, ReturnHandle(c)
      PROVE  FlagInv'
  <2>1. UNCHANGED <<loggers, ignore, marked, inflight, written, failed>>
    BY <1>3 DEF ReturnHandle
  <2> QED
    BY <1>3, <2>1, ReturnEffect DEF FlagInv
<1>4. ASSUME NEW c \in Callers, NEW l \in Loggers, NEW n \in Loggers,
             NEW ignored \in BOOLEAN, StartWith(c, l, n, ignored)
      PROVE  FlagInv'
  <2>1. UNCHANGED <<loggers, ignore, marked, inflight, written, failed>>
    BY <1>4 DEF StartWith
  <2>2. call'[c].left = Tracked /\ \A d \in Callers \ {c} : call'[d] = call[d]
    BY <1>4, StartWithEffect
  <2> QED
    BY <2>1, <2>2 DEF FlagInv
<1>5. ASSUME NEW c \in Callers, NEW s \in Tracked, DeriveTracked(c, s)
      PROVE  FlagInv'
  <2> DEFINE l == call[c].logger
             n == call[c].new
  <2>1. call[c] \in WithCall /\ call[c].op = "With"
    BY <1>5, CallKinds DEF DeriveTracked
  <2>2. /\ UNCHANGED <<loggers, marked, inflight, written, failed>>
        /\ Visited(c, s)
    BY <1>5 DEF DeriveTracked
  <2>3. l \in Loggers /\ n \in Loggers /\ call[c].ignored \in BOOLEAN
    BY <2>1 DEF WithCall
  <2>4. l \in loggers /\ n \notin loggers
    BY <2>1 DEF CallInv, Idle
  <2>5. /\ \A k \in Loggers : ignore[k] \subseteq ignore'[k]
        /\ call[c].ignored \/ s \in ignore[l] => s \in ignore'[n]
    BY <1>5, <2>3, <2>4 DEF DeriveTracked, Copied, TypeOK
  <2>6. /\ call'[c].op = "With" /\ call'[c].logger = l /\ call'[c].new = n
        /\ call'[c].ignored = call[c].ignored /\ call'[c].left = call[c].left \ {s}
        /\ \A d \in Callers \ {c} : call'[d] = call[d]
    BY <2>1, <2>2, VisitedEffect, TrackedAssumption
  <2>7. \A k \in marked' : ignore'[k] = Tracked
    <3>1. ignore' \in [Loggers -> SUBSET Tracked]
      BY TypeStep DEF TypeOK
    <3>2. ASSUME NEW k \in marked' PROVE ignore'[k] = Tracked
      <4>1. k \in Loggers /\ ignore[k] = Tracked
        BY <2>2 DEF FlagInv, TypeOK
      <4>2. Tracked \subseteq ignore'[k] /\ ignore'[k] \subseteq Tracked
        BY <4>1, <2>5, <3>1
      <4> QED
        BY <4>2
    <3> QED
      BY <3>2
  <2>8. ASSUME NEW d \in Callers, call'[d].op = "With", NEW t \in Tracked \ call'[d].left,
               call'[d].ignored \/ call'[d].logger \in marked'
        PROVE  t \in ignore'[call'[d].new]
    <3>1. CASE d # c
      <4>1. call'[d] = call[d]
        BY <2>6, <3>1
      <4>2. call[d] \in WithCall
        BY <4>1, <2>8, CallKinds
      <4>3. call[d].new \in Loggers
        BY <4>2 DEF WithCall
      <4>4. t \in ignore[call[d].new]
        <5>1. call[d].op = "With" /\ t \in Tracked \ call[d].left
          BY <4>1, <2>8
        <5>2. call[d].ignored \/ call[d].logger \in marked
          BY <4>1, <2>8, <2>2
        <5> QED
          BY <5>1, <5>2 DEF FlagInv
      <4> QED
        BY <4>1, <4>3, <4>4, <2>5
    <3>2. CASE d = c /\ t # s
      <4>1. t \in ignore[n]
        BY <3>2, <2>8, <2>6, <2>2, <2>1 DEF FlagInv
      <4> QED
        BY <4>1, <3>2, <2>3, <2>5, <2>6
    <3>3. CASE d = c /\ t = s
      <4>1. call[c].ignored \/ s \in ignore[l]
        BY <3>3, <2>8, <2>6, <2>2 DEF FlagInv
      <4> QED
        BY <4>1, <3>3, <2>5, <2>6
    <3> QED
      BY <3>1, <3>2, <3>3
  <2> HIDE DEF l, n
  <2> QED
    BY <2>2, <2>7, <2>8 DEF FlagInv
<1>6. ASSUME NEW c \in Callers, ReturnWith(c)
      PROVE  FlagInv'
  <2> DEFINE w == call[c]
  <2>1. w.op = "With" /\ w.left = {} /\ w.new \notin loggers /\ w.logger \in loggers
    BY <1>6 DEF ReturnWith, CallInv, Idle
  <2>2. w \in WithCall
    BY <2>1, CallKinds
  <2>3. /\ loggers' = loggers \cup {w.new}
        /\ UNCHANGED <<ignore, inflight, written, failed>>
        /\ marked' = IF w.ignored \/ w.logger \in marked THEN marked \cup {w.new} ELSE marked
    BY <1>6 DEF ReturnWith
  <2>4. call'[c].op = "none" /\ \A d \in Callers \ {c} : call'[d] = call[d]
    BY <1>6, ReturnEffect
  <2>5. w.new \in Loggers /\ (w.ignored \/ w.logger \in marked => ignore[w.new] = Tracked)
    <3>1. w.new \in Loggers /\ ignore[w.new] \subseteq Tracked
      BY <2>2 DEF TypeOK, WithCall
    <3>2. w.ignored \/ w.logger \in marked => \A s \in Tracked : s \in ignore[w.new]
      BY <2>1 DEF FlagInv
    <3> QED
      BY <3>1, <3>2
  <2>6. marked' \subseteq loggers' /\ \A k \in marked' : ignore'[k] = Tracked
    BY <2>3, <2>5 DEF FlagInv
  <2>7. \A x \in Offered' : x.logger \in loggers' /\ (x.sink \in Tracked => x.logger \notin marked')
    BY <2>1, <2>3 DEF FlagInv
  <2>8. ASSUME NEW d \in Callers, call'[d].op = "With", NEW t \in Tracked \ call'[d].left,
               call'[d].ignored \/ call'[d].logger \in marked'
        PROVE  t \in ignore'[call'[d].new]
    <3>1. d # c /\ call'[d] = call[d]
      BY <2>4, <2>8
    <3>2. call[d].logger \in loggers
      BY <3>1, <2>8 DEF CallInv, Idle
    <3>3. call[d].ignored \/ call[d].logger \in marked
      BY <3>1, <3>2, <2>8, <2>1, <2>3
    <3>4. call[d].op = "With" /\ t \in Tracked \ call[d].left
      BY <3>1, <2>8
    <3>5. t \in ignore[call[d].new]
      BY <3>3, <3>4 DEF FlagInv
    <3> QED
      BY <3>1, <3>5, <2>3
  <2> HIDE DEF w
  <2> QED
    BY <2>6, <2>7, <2>8 DEF FlagInv
<1>7. ASSUME NEW x \in inflight, Deliver(x)
      PROVE  FlagInv'
  <2>1. UNCHANGED <<loggers, ignore, marked, call>> /\ Offered' \subseteq Offered
    BY <1>7 DEF Deliver
  <2> QED
    BY <2>1 DEF FlagInv
<1>8. ASSUME UNCHANGED <<loggers, ignore, marked, call, inflight, written, failed>>
      PROVE  FlagInv'
  BY <1>8 DEF FlagInv
<1> QED
  BY <1>1, <1>2, <1>3, <1>4, <1>5, <1>6, <1>7, <1>8 DEF Next, Close, WaitDone

-----------------------------------------------------------------------------
(* What keeps a record from a sink. *)

LEMMA AskedStep == TypeOK /\ CallInv /\ AskedInv /\ [Next]_vars => AskedInv'
<1> SUFFICES ASSUME TypeOK, CallInv, AskedInv, [Next]_vars PROVE AskedInv'
  OBVIOUS
<1> USE DEF Offered, ReachesEverySink
<1>1. ASSUME NEW c \in Callers, NEW l \in Loggers, NEW r \in Records, StartHandle(c, l, r)
      PROVE  AskedInv'
  <2>1. /\ UNCHANGED <<loggers, ignore, line, asked, inflight, written, failed, handled>>
        /\ call[c] = Idle
    BY <1>1 DEF StartHandle
  <2>2. /\ call'[c].op = "Handle" /\ call'[c].left = enabled[call'[c].record]
        /\ \A d \in Callers \ {c} : call'[d] = call[d]
    BY <1>1, StartHandleEffect
  <2>3. call[c].op = "none"
    BY <2>1 DEF Idle
  <2> QED
    BY <2>1, <2>2, <2>3 DEF AskedInv, EntryOf
<1>2. ASSUME NEW c \in Callers, NEW s \in Sinks, HandleLocal(c, s) \/ HandleTracked(c, s)
      PROVE  AskedInv'
  <2>1. /\ UNCHANGED <<loggers, ignore, line, asked, handled>>
        /\ InHandle(c, s) /\ Visited(c, s)
    BY <1>2 DEF HandleLocal, HandleTracked
  <2>2. /\ call'[c].op = "Handle" /\ call[c].op = "Handle"
        /\ call'[c].logger = call[c].logger /\ call'[c].record = call[c].record
        /\ call'[c].left = call[c].left \ {s}
        /\ \A d \in Callers \ {c} : call'[d] = call[d]
    BY <2>1, VisitedEffect DEF InHandle
  <2>3. Offered \subseteq Offered'
    BY <1>2 DEF HandleLocal, HandleTracked
  <2>4. call[c].logger \in Loggers
    BY <2>2, CallKinds DEF HandleCall
  <2>5. \/ EntryOf(c, s) \in Offered'
        \/ s \in Tracked /\ line[call[c].logger] \cap asked # {}
    <3>1. CASE HandleLocal(c, s)
      BY <3>1 DEF HandleLocal
    <3>2. CASE HandleTracked(c, s)
      BY <3>2, <2>4 DEF HandleTracked, Silenced, AskedInv
    <3> QED
      BY <1>2, <3>1, <3>2
  <2>6. \A t \in Sinks : EntryOf(c, t)' = EntryOf(c, t)
    BY <2>2 DEF EntryOf
  <2>7. enabled[call[c].record] \subseteq Sinks
    BY <2>2, CallKinds, EnabledAssumption DEF HandleCall
  <2>8. \A d \in Callers : call'[d].op = "Handle" =>
          /\ call'[d].left \subseteq enabled[call'[d].record]
          /\ \A t \in enabled[call'[d].record] \ call'[d].left :
                \/ EntryOf(d, t)' \in Offered'
                \/ t \in Tracked /\ line'[call'[d].logger] \cap asked' # {}
    <3>1. TAKE d \in Callers
    <3>2. HAVE call'[d].op = "Handle"
    <3>3. CASE d # c
      BY <3>2, <3>3, <2>1, <2>2, <2>3 DEF AskedInv, EntryOf
    <3>4. CASE d = c
      BY <3>4, <2>1, <2>2, <2>3, <2>5, <2>6, <2>7 DEF AskedInv
    <3> QED
      BY <3>3, <3>4
  <2>9. \A h \in handled' : \A t \in enabled[h.record] :
          \/ [logger |-> h.logger, sink |-> t, record |-> h.record] \in Offered'
          \/ t \in Tracked /\ line'[h.logger] \cap asked' # {}
    BY <2>1, <2>3 DEF AskedInv
  <2> QED
    BY <2>1, <2>2, <2>8, <2>9 DEF AskedInv
<1>3. ASSUME NEW c \in Callers, ReturnHandle(c)
      PROVE  AskedInv'
  <2>1. /\ UNCHANGED <<loggers, ignore, line, asked, inflight, written, failed>>
        /\ call[c].op = "Handle" /\ call[c].left = {}
        /\ handled' = handled \cup {[logger |-> call[c].logger, record |-> call[c].record]}
    BY <1>3 DEF ReturnHandle
  <2>2. call'[c].op = "none" /\ \A d \in Callers \ {c} : call'[d] = call[d]
    BY <1>3, ReturnEffect
  <2>3. call[c].logger \in loggers
    BY <2>1 DEF CallInv, Idle
  <2>4. \A h \in handled' : \A t \in enabled[h.record] :
          \/ [logger |-> h.logger, sink |-> t, record |-> h.record] \in Offered'
          \/ t \in Tracked /\ line'[h.logger] \cap asked' # {}
    <3>1. TAKE h \in handled'
    <3>2. TAKE t \in enabled[h.record]
    <3>3. CASE h \in handled
      BY <3>3, <2>1 DEF AskedInv
    <3>4. CASE h = [logger |-> call[c].logger, record |-> call[c].record]
      <4>1. h.logger = call[c].logger /\ h.record = call[c].record
        BY <3>4
      <4>2. EntryOf(c, t) = [logger |-> h.logger, sink |-> t, record |-> h.record]
        BY <4>1 DEF EntryOf
      <4>3. \/ EntryOf(c, t) \in Offered
            \/ t \in Tracked /\ line[call[c].logger] \cap asked # {}
        BY <4>1, <2>1 DEF AskedInv
      <4> QED
        BY <4>1, <4>2, <4>3, <2>1
    <3> QED
      BY <3>3, <3>4, <2>1
  <2>5. \A h \in handled' : h.logger \in loggers'
    BY <2>1, <2>3 DEF AskedInv
  <2> QED
    BY <2>1, <2>2, <2>4, <2>5 DEF AskedInv, EntryOf
<1>4. ASSUME NEW c \in Callers, NEW l \in Loggers, NEW n \in Loggers,
             NEW ignored \in BOOLEAN, StartWith(c, l, n, ignored)
      PROVE  AskedInv'
  <2>1. /\ UNCHANGED <<loggers, ignore, inflight, written, failed, handled>>
        /\ l \in loggers /\ n \notin loggers /\ call[c] = Idle
        /\ \A d \in Callers : call[d].op = "With" => call[d].new # n
        /\ asked \subseteq asked' /\ (ignored => l \in asked')
    BY <1>4 DEF StartWith
  <2>2. line'[n] = line[l] \cup {n} /\ \A k \in Loggers \ {n} : line'[k] = line[k]
    BY <1>4 DEF StartWith, TypeOK
  <2>3. /\ call'[c].op = "With" /\ call'[c].logger = l /\ call'[c].new = n
        /\ call'[c].ignored = ignored
        /\ \A d \in Callers \ {c} : call'[d] = call[d]
    BY <1>4, StartWithEffect
  <2>4. call[c].op = "none"
    BY <2>1 DEF Idle
  <2>5. ignore[n] = {}
    BY <2>1 DEF AskedInv
  <2>6. \A d \in Callers : call'[d].op = "With" =>
          /\ line'[call'[d].logger] \subseteq line'[call'[d].new]
          /\ call'[d].ignored => call'[d].logger \in asked'
    <3>1. TAKE d \in Callers
    <3>2. HAVE call'[d].op = "With"
    <3>3. CASE d # c
      <4>1. call'[d] = call[d] /\ call[d].op = "With"
        BY <3>2, <3>3, <2>3
      <4>2. call[d].logger \in Loggers \ {n} /\ call[d].new \in Loggers \ {n}
        BY <4>1, <2>1, CallKinds DEF CallInv, WithCall, Idle
      <4> QED
        BY <4>1, <4>2, <2>1, <2>2 DEF AskedInv
    <3>4. CASE d = c
      BY <3>4, <2>1, <2>2, <2>3
    <3> QED
      BY <3>3, <3>4
  <2>7. \A k \in Loggers : /\ k \in line'[k]
                           /\ ignore'[k] # {} => line'[k] \cap asked' # {}
    BY <2>1, <2>2, <2>5 DEF AskedInv
  <2>8. \A d \in Callers : call'[d].op = "Handle" =>
          /\ call'[d].left \subseteq enabled[call'[d].record]
          /\ \A t \in enabled[call'[d].record] \ call'[d].left :
                \/ EntryOf(d, t)' \in Offered'
                \/ t \in Tracked /\ line'[call'[d].logger] \cap asked' # {}
    <3>1. TAKE d \in Callers
    <3>2. HAVE call'[d].op = "Handle"
    <3>3. call'[d] = call[d] /\ call[d].op = "Handle"
      BY <3>2, <2>3
    <3>4. call[d].logger \in Loggers \ {n}
      BY <3>3, <2>1, CallKinds DEF CallInv, HandleCall, Idle
    <3> QED
      BY <3>3, <3>4, <2>1, <2>2 DEF AskedInv, EntryOf
  <2>9. \A h \in handled' :
          /\ h.logger \in loggers'
          /\ \A t \in enabled[h.record] :
                \/ [logger |-> h.logger, sink |-> t, record |-> h.record] \in Offered'
                \/ t \in Tracked /\ line'[h.logger] \cap asked' # {}
    <3>1. TAKE h \in handled'
    <3>2. h \in handled /\ h.logger \in loggers
      BY <2>1 DEF AskedInv
    <3>3. h.logger \in Loggers \ {n}
      BY <3>2, <2>1 DEF TypeOK
    <3> QED
      BY <3>2, <3>3, <2>1, <2>2 DEF AskedInv
  <2>10. \A k \in Loggers \ loggers' :
           (\A d \in Callers : call'[d].op = "With" => call'[d].new # k) => ignore'[k] = {}
    BY <2>1, <2>3, <2>4 DEF AskedInv
  <2> QED
    BY <2>6, <2>7, <2>8, <2>9, <2>10 DEF AskedInv
<1>5. ASSUME NEW c \in Callers, NEW s \in Tracked, DeriveTracked(c, s)
      PROVE  AskedInv'
  <2> DEFINE l == call[c].logger
             n == call[c].new
  <2>1. call[c] \in WithCall /\ call[c].op = "With"
    BY <1>5, CallKinds DEF DeriveTracked
  <2>2. /\ UNCHANGED <<loggers, line, asked, inflight, written, failed, handled>>
        /\ Visited(c, s)
    BY <1>5 DEF DeriveTracked
  <2>3. l \in Loggers /\ n \in Loggers /\ l \in loggers /\ n \notin loggers
    BY <2>1 DEF WithCall, CallInv, Idle
  <2>4. /\ \A k \in Loggers \ {l, n} : ignore'[k] = ignore[k]
        /\ ignore'[l] # {} => ignore[l] # {} \/ call[c].ignored
        /\ ignore'[n] # {} => ignore[n] # {} \/ ignore[l] # {} \/ call[c].ignored
    BY <1>5, <2>3 DEF DeriveTracked, Copied, TypeOK
  <2>5. line[l] \subseteq line[n] /\ l \in line[l] /\ (call[c].ignored => l \in asked)
    BY <2>1, <2>3 DEF AskedInv
  <2>6. /\ call'[c].op = "With" /\ call'[c].logger = l /\ call'[c].new = n
        /\ call'[c].ignored = call[c].ignored
        /\ \A d \in Callers \ {c} : call'[d] = call[d]
    BY <2>1, <2>2, VisitedEffect, TrackedAssumption
  <2>7. \A k \in Loggers : ignore'[k] # {} => line'[k] \cap asked' # {}
    BY <2>2, <2>3, <2>4, <2>5 DEF AskedInv
  <2>8. \A k \in Loggers \ loggers' :
           (\A d \in Callers : call'[d].op = "With" => call'[d].new # k) => ignore'[k] = {}
    BY <2>1, <2>2, <2>3, <2>4, <2>6 DEF AskedInv
  <2> HIDE DEF l, n
  <2>9. \A d \in Callers : call'[d].op = "Handle" => call'[d] = call[d]
    BY <2>6
  <2> QED
    BY <2>1, <2>2, <2>6, <2>7, <2>8, <2>9 DEF AskedInv, EntryOf, l, n
<1>6. ASSUME NEW c \in Callers, ReturnWith(c)
      PROVE  AskedInv'
  <2>1. /\ call[c].op = "With" /\ loggers' = loggers \cup {call[c].new}
        /\ UNCHANGED <<ignore, line, asked, inflight, written, failed, handled>>
    BY <1>6 DEF ReturnWith
  <2>2. call'[c].op = "none" /\ \A d \in Callers \ {c} : call'[d] = call[d]
    BY <1>6, ReturnEffect
  <2> QED
    BY <2>1, <2>2 DEF AskedInv, EntryOf
<1>7. ASSUME UNCHANGED <<loggers, ignore, line, asked, call, handled>>, Offered' = Offered
      PROVE  AskedInv'
  BY <1>7 DEF AskedInv, EntryOf
<1>8. ASSUME NEW x \in inflight, Deliver(x)
      PROVE  Offered' = Offered
  BY <1>8 DEF Deliver
<1> QED
  BY <1>1, <1>2, <1>3, <1>4, <1>5, <1>6, <1>7, <1>8 DEF Next, Close, WaitDone, Deliver

-----------------------------------------------------------------------------
(* Close. *)

\* A record that was used stays used.
LEMMA UsedStays ==
    ASSUME NEW r, ~Unused(r), handled \subseteq handled',
           \A c \in Callers : call[c].op = "Handle" =>
              \/ call'[c].op = "Handle" /\ call'[c].record = call[c].record
              \/ \E h \in handled' : h.record = call[c].record
    PROVE  ~Unused(r)'
BY DEF Unused

LEMMA CloseStep == TypeOK /\ CloseInv /\ [Next]_vars => CloseInv'
<1> SUFFICES ASSUME TypeOK, CloseInv, [Next]_vars PROVE CloseInv'
  OBVIOUS
<1>1. ASSUME NEW c \in Callers, NEW l \in Loggers, NEW r \in Records, StartHandle(c, l, r)
      PROVE  CloseInv'
  <2>1. /\ UNCHANGED <<inflight, closing, closed, owed, handled>>
        /\ call[c].op = "none" /\ Unused(r)
    BY <1>1 DEF StartHandle, Idle
  <2>2. /\ call'[c].op = "Handle" /\ call'[c].record = r
        /\ \A d \in Callers \ {c} : call'[d] = call[d]
    BY <1>1, StartHandleEffect
  <2>3. \A q : ~Unused(q) => ~Unused(q)' /\ q # r
    BY <2>1, <2>2, UsedStays
  <2>4. \A d \in Callers : call'[d].op = "Handle" =>
          /\ \A h \in handled' : h.record # call'[d].record
          /\ \A e \in Callers : call'[e].op = "Handle" /\ call'[e].record = call'[d].record => d = e
    BY <2>1, <2>2 DEF CloseInv, Unused
  <2>5. \A k \in Loggers : \A x \in inflight' \cup owed'[k] :
          /\ ~Unused(x.record)'
          /\ x.sink \in Tracked
          /\ \A d \in Callers : call'[d].op = "Handle" /\ call'[d].record = x.record =>
                x.sink \notin call'[d].left
    BY <2>1, <2>2, <2>3 DEF CloseInv
  <2> QED
    BY <2>1, <2>4, <2>5 DEF CloseInv
<1>2. ASSUME NEW c \in Callers, NEW s \in Sinks, HandleLocal(c, s) \/ HandleTracked(c, s)
      PROVE  CloseInv'
  <2>1. /\ UNCHANGED <<closing, closed, owed, handled>>
        /\ InHandle(c, s) /\ Visited(c, s) /\ call[c].op = "Handle" /\ s \in call[c].left
    BY <1>2 DEF HandleLocal, HandleTracked, InHandle
  <2>2. /\ call'[c].op = "Handle" /\ call'[c].record = call[c].record
        /\ call'[c].left = call[c].left \ {s}
        /\ \A d \in Callers \ {c} : call'[d] = call[d]
    BY <2>1, VisitedEffect
  <2>3. \A q : ~Unused(q) => ~Unused(q)'
    BY <2>1, <2>2, UsedStays
  <2>4. /\ EntryOf(c, s).record = call[c].record /\ EntryOf(c, s).sink = s
        /\ \A x \in inflight' : x \in inflight \/ (s \in Tracked /\ x = EntryOf(c, s))
    BY <1>2, <2>1, EntryType DEF HandleLocal, HandleTracked
  <2>5. ~Unused(call[c].record)
    BY <2>1 DEF Unused
  <2>6. \A d \in Callers : call'[d].op = "Handle" /\ call'[d].record = call[c].record => d = c
    BY <2>1, <2>2 DEF CloseInv
  <2>7. \A k \in Loggers : EntryOf(c, s) \notin owed[k]
    BY <2>1, <2>4 DEF CloseInv
  <2>8. \A k \in Loggers : \A x \in inflight' \cup owed'[k] :
          /\ ~Unused(x.record)'
          /\ x.sink \in Tracked
          /\ \A d \in Callers : call'[d].op = "Handle" /\ call'[d].record = x.record =>
                x.sink \notin call'[d].left
    <3>1. TAKE k \in Loggers
    <3>2. TAKE x \in inflight' \cup owed'[k]
    <3>3. CASE x \in inflight \cup owed[k]
      BY <3>3, <2>1, <2>2, <2>3 DEF CloseInv
    <3>4. CASE s \in Tracked /\ x = EntryOf(c, s)
      BY <3>4, <2>2, <2>3, <2>4, <2>5, <2>6
    <3> QED
      BY <3>3, <3>4, <2>1, <2>4
  <2>9. \A k \in Loggers : \A x \in owed'[k] \cap inflight' : x.sink \in closing'[k]
    BY <2>1, <2>4, <2>7 DEF CloseInv
  <2>10. \A d \in Callers : call'[d].op = "Handle" =>
          /\ \A h \in handled' : h.record # call'[d].record
          /\ \A e \in Callers : call'[e].op = "Handle" /\ call'[e].record = call'[d].record => d = e
    BY <2>1, <2>2 DEF CloseInv
  <2> QED
    BY <2>1, <2>8, <2>9, <2>10 DEF CloseInv
<1>3. ASSUME NEW c \in Callers, ReturnHandle(c)
      PROVE  CloseInv'
  <2> DEFINE new == [logger |-> call[c].logger, record |-> call[c].record]
  <2>1. /\ UNCHANGED <<inflight, closing, closed, owed>>
        /\ call[c].op = "Handle"
        /\ handled' = handled \cup {new}
    BY <1>3 DEF ReturnHandle
  <2>2. new.record = call[c].record
    OBVIOUS
  <2> HIDE DEF new
  <2>3. call'[c].op = "none" /\ \A d \in Callers \ {c} : call'[d] = call[d]
    BY <1>3, ReturnEffect
  <2>4. \A q : ~Unused(q) => ~Unused(q)'
    BY <2>1, <2>2, <2>3, UsedStays
  <2>5. \A d \in Callers : call'[d].op = "Handle" =>
          /\ \A h \in handled' : h.record # call'[d].record
          /\ \A e \in Callers : call'[e].op = "Handle" /\ call'[e].record = call'[d].record => d = e
    BY <2>1, <2>2, <2>3 DEF CloseInv
  <2> QED
    BY <2>1, <2>3, <2>4, <2>5 DEF CloseInv
<1>4. ASSUME NEW c \in Callers, call[c].op # "Handle", call'[c].op # "Handle",
             \A d \in Callers \ {c} : call'[d] = call[d],
             UNCHANGED <<inflight, closes, handled>>
      PROVE  CloseInv'
  <2>1. \A q : ~Unused(q) => ~Unused(q)'
    BY <1>4, UsedStays
  <2> QED
    BY <1>4, <2>1 DEF CloseInv
<1>5. ASSUME NEW c \in Callers, NEW l \in Loggers, NEW n \in Loggers,
             NEW ignored \in BOOLEAN, StartWith(c, l, n, ignored)
      PROVE  CloseInv'
  <2>1. call[c].op = "none" /\ UNCHANGED <<inflight, closes, handled>>
    BY <1>5 DEF StartWith, Idle
  <2> QED
    BY <1>4, <1>5, <2>1, StartWithEffect
<1>6. ASSUME NEW c \in Callers, NEW s \in Tracked, DeriveTracked(c, s)
      PROVE  CloseInv'
  <2>1. call[c].op = "With" /\ Visited(c, s) /\ UNCHANGED <<inflight, closes, handled>>
    BY <1>6 DEF DeriveTracked
  <2>2. call'[c].op = "With" /\ \A d \in Callers \ {c} : call'[d] = call[d]
    BY <2>1, VisitedEffect, TrackedAssumption
  <2> QED
    BY <1>4, <2>1, <2>2
<1>7. ASSUME NEW c \in Callers, ReturnWith(c)
      PROVE  CloseInv'
  <2>1. call[c].op = "With" /\ UNCHANGED <<inflight, closes, handled>>
    BY <1>7 DEF ReturnWith
  <2>2. call'[c].op = "none" /\ \A d \in Callers \ {c} : call'[d] = call[d]
    BY <1>7, ReturnEffect
  <2> QED
    BY <1>4, <2>1, <2>2
<1>8. ASSUME NEW x \in inflight, Deliver(x)
      PROVE  CloseInv'
  <2>1. inflight' \subseteq inflight /\ UNCHANGED <<call, closes, handled>>
    BY <1>8 DEF Deliver
  <2> QED
    BY <2>1 DEF CloseInv, Unused
<1>9. ASSUME NEW l \in Loggers, Close(l)
      PROVE  CloseInv'
  <2>1. /\ UNCHANGED <<call, inflight, closed, handled>>
        /\ l \notin closed
        /\ closing'[l] = Tracked /\ owed'[l] = InFlight(l)
        /\ \A k \in Loggers \ {l} : closing'[k] = closing[k] /\ owed'[k] = owed[k]
    BY <1>9 DEF Close, TypeOK
  <2>2. owed'[l] \subseteq inflight /\ \A x \in owed'[l] : x.logger = l /\ x.sink \in closing'[l]
    BY <2>1 DEF InFlight, CloseInv
  <2>3. closed \subseteq Loggers
    BY DEF TypeOK
  <2> QED
    BY <2>1, <2>2, <2>3 DEF CloseInv, Unused
<1>10. ASSUME NEW l \in Loggers, NEW s \in Tracked, WaitDone(l, s)
       PROVE  CloseInv'
  <2>1. /\ UNCHANGED <<call, inflight, owed, handled>>
        /\ s \in closing[l]
        /\ \A x \in inflight : x.logger = l => x.sink # s
        /\ closing'[l] = closing[l] \ {s}
        /\ \A k \in Loggers \ {l} : closing'[k] = closing[k]
        /\ closed' = IF closing[l] = {s} THEN closed \cup {l} ELSE closed
    BY <1>10 DEF WaitDone, Drained, InFlight, TypeOK
  <2>2. closed \subseteq Loggers \ {l}
    BY <2>1 DEF TypeOK, CloseInv
  <2>3. \A k \in closed' : closing'[k] = {}
    BY <2>1, <2>2 DEF CloseInv
  <2>4. \A k \in Loggers : \A x \in owed'[k] \cap inflight' : x.sink \in closing'[k]
    BY <2>1 DEF CloseInv
  <2> QED
    BY <2>1, <2>3, <2>4 DEF CloseInv, Unused
<1>11. CASE UNCHANGED vars
  BY <1>11 DEF CloseInv, Unused
<1> QED
  BY <1>1, <1>2, <1>3, <1>5, <1>6, <1>7, <1>8, <1>9, <1>10, <1>11 DEF Next

-----------------------------------------------------------------------------
(* The theorems. *)

LEMMA InitIInv == Init => IInv
<1> SUFFICES ASSUME Init PROVE IInv
  OBVIOUS
<1> USE RootAssumption DEF Init
<1>1. \A c \in Callers : call[c] = Idle /\ call[c].op = "none"
  BY DEF Idle
<1>2. TypeOK
  BY DEF TypeOK
<1>3. CallInv /\ FlagInv /\ AskedInv
  BY <1>1 DEF CallInv, FlagInv, AskedInv, IgnoredNeverTracked, ReachesEverySink, Offered
<1>4. CloseInv
  BY <1>1 DEF CloseInv
<1> QED
  BY <1>2, <1>3, <1>4 DEF IInv

LEMMA Inductive == Spec => []IInv
<1>1. IInv /\ [Next]_vars => IInv'
  BY TypeStep, CallStep, FlagStep, AskedStep, CloseStep DEF IInv
<1> QED
  BY InitIInv, <1>1, PTL DEF Spec

\* The state of the handlers is well typed.
THEOREM TypeCorrect == Spec => []TypeOK
<1>1. IInv => TypeOK
  BY DEF IInv
<1> QED
  BY Inductive, <1>1, PTL

\* AsyncHandler.Close returns only when what its logger had in flight at the
\* call is delivered, for any number of loggers, sinks and goroutines.
THEOREM CloseSafe == Spec => []CloseWaits
<1>1. IInv => CloseWaits
  BY DEF IInv, TypeOK, CloseInv, CloseWaits
<1> QED
  BY Inductive, <1>1, PTL

\* However WithAttrs, WithGroup and Handle interleave, ErrorTracking lets no
\* record of a logger that derives from IgnoreTracing through.
THEOREM IgnoredSafe == Spec => []IgnoredNeverTracked
<1>1. IInv => IgnoredNeverTracked
  BY DEF IInv, FlagInv
<1> QED
  BY Inductive, <1>1, PTL

\* A record whose Handle has returned was offered to all the sinks enabled for
\* it, but for the tracked ones of a logger on whose line IgnoreTracing was
\* given.
THEOREM ReachSafe == Spec => []ReachesEverySink
<1>1. IInv => ReachesEverySink
  BY DEF IInv, AskedInv
<1> QED
  BY Inductive, <1>1, PTL

=============================================================================
