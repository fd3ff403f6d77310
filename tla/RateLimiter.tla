----------------------------- MODULE RateLimiter -----------------------------
(***************************************************************************)
(* The rate limit of one aggregate_type (pkg/service/polling): every poll  *)
(* makes a new token bucket of golang.org/x/time/rate that holds           *)
(* Throughput tokens, starts full and gains Throughput tokens a second.    *)
(* The goroutines of the type's groups share it.  Wait takes a token at    *)
(* once, leaving a debt if there is none, and sleeps until the debt is     *)
(* paid; it may wake later than it is due.  Time is counted in slots, each *)
(* as long as the bucket takes to gain one token: a second divided by      *)
(* Throughput, in whole nanoseconds.  How long a publication takes is      *)
(* open.                                                                   *)
(***************************************************************************)
EXTENDS Integers, FiniteSets

CONSTANTS
    Groups,            \* the goroutines of one aggregate_type
    Ordered,           \* those whose group has an id
    Throughput,        \* outbox.throughput, messages per second
    BatchSize,         \* bound: rows of one group in one poll
    MaxPolls           \* bound: polls of one behaviour

ASSUME GroupsAssumption == IsFiniteSet(Groups)
ASSUME OrderedAssumption == Ordered \subseteq Groups
\* time.Second, in nanoseconds.
Second == 1000 * 1000 * 1000

\* Above one message a nanosecond the interval is 0 and nothing is limited.
ASSUME ThroughputAssumption == Throughput \in 1 .. Second
ASSUME BatchSizeAssumption == BatchSize \in Nat \ {0}
ASSUME MaxPollsAssumption == MaxPolls \in Nat

VARIABLES
    tokens,            \* tokens of the current limiter, negative in debt
    asleep,            \* goroutines inside Wait
    wait,              \* wait[g]: slots goroutine g still sleeps
    publishing,        \* goroutines inside publishEvent
    left,              \* left[g]: rows goroutine g has still to publish
    polls,             \* polls begun
    permitted          \* history: permitted[i] is how many publications the
                       \* limiter of this poll has let through (their wait
                       \* is over) in the last i slots

goroutines == <<asleep, wait, publishing, left>>
vars == <<tokens, goroutines, polls, permitted>>

\* time.Second / time.Duration(messageRate): what is left over is cut off.
Interval == Second \div Throughput
\* The slots that a half-open second can touch: Throughput of them, or one
\* more when the division leaves something over.
SlotsPerSecond == (Second + Interval - 1) \div Interval

TypeOK ==
    /\ tokens \in Int /\ tokens <= Throughput
    /\ asleep \subseteq Groups
    /\ wait \in [Groups -> Nat]
    /\ publishing \subseteq Groups \ asleep
    /\ left \in [Groups -> 0 .. BatchSize]
    /\ \A g \in asleep \cup publishing : left[g] > 0
    /\ polls \in 0 .. MaxPolls
    /\ permitted \in [1 .. SlotsPerSecond -> Nat]

Zero == [i \in 1 .. SlotsPerSecond |-> 0]

Init ==
    /\ tokens = Throughput
    /\ asleep = {} /\ wait = [g \in Groups |-> 0]
    /\ publishing = {} /\ left = [g \in Groups |-> 0]
    /\ polls = 0
    /\ permitted = Zero

-----------------------------------------------------------------------------
\* Mutant: the next poll does not wait for the goroutines of the last one.
PollOverNever == TRUE
\* wg.Wait of processingEvent has returned.
PollOver == \A g \in Groups : left[g] = 0

\* Mutant: a burst of two seconds' worth.
BurstDouble == 2 * Throughput
\* rate.NewLimiter(rate.Every(time.Second / Throughput), Throughput).
Burst == Throughput

\* A poll deals out a batch of any size to the goroutines, and starts over with
\* a full bucket: what the limiter of the last poll let through is not counted.
Poll(batch) ==
    /\ PollOver /\ polls < MaxPolls
    /\ polls' = polls + 1
    /\ left' = batch
    /\ tokens' = Burst
    /\ permitted' = Zero
    /\ UNCHANGED <<asleep, wait, publishing>>

\* Wait takes a token and computes how long to sleep for it.
Reserve(g) ==
    /\ left[g] > 0 /\ g \notin asleep \cup publishing
    /\ tokens' = tokens - 1
    /\ wait' = [wait EXCEPT ![g] = IF tokens > 0 THEN 0 ELSE 1 - tokens]
    /\ asleep' = asleep \cup {g}
    /\ permitted' = IF tokens > 0 THEN [i \in 1 .. SlotsPerSecond |-> permitted[i] + 1]
                                  ELSE permitted
    /\ UNCHANGED <<publishing, left, polls>>

\* The sleep is over, now or some time ago: publishEvent is called.
Wake(g) ==
    /\ g \in asleep /\ wait[g] = 0
    /\ asleep' = asleep \ {g}
    /\ publishing' = publishing \cup {g}
    /\ UNCHANGED <<tokens, wait, left, polls, permitted>>

\* publishEvent returns; a failure ends the work on an ordered group.
Published(g) ==
    /\ g \in publishing
    /\ publishing' = publishing \ {g}
    /\ \/ left' = [left EXCEPT ![g] = @ - 1]
       \/ g \in Ordered /\ left' = [left EXCEPT ![g] = 0]
    /\ UNCHANGED <<tokens, asleep, wait, polls, permitted>>

\* Mutant: a limiter that paid only for the tokens in the bucket would refill
\* to the brim at once.
RefillAtOnce == Throughput
\* The bucket gains a token in a slot, up to its size.
Refill == IF tokens < Throughput THEN tokens + 1 ELSE tokens

\* The goroutines whose sleep ends with this slot.
Ending == {g \in asleep : wait[g] = 1}

\* One slot of time passes, whoever is late.
Slot ==
    /\ tokens' = Refill
    /\ wait' = [g \in Groups |-> IF wait[g] > 0 THEN wait[g] - 1 ELSE 0]
    /\ permitted' = [i \in 1 .. SlotsPerSecond |->
                       Cardinality(Ending) + IF i = 1 THEN 0 ELSE permitted[i - 1]]
    /\ UNCHANGED <<asleep, publishing, left, polls>>

Next ==
    \/ \E batch \in [Groups -> 0 .. BatchSize] : Poll(batch)
    \/ \E g \in Groups : Reserve(g) \/ Wake(g) \/ Published(g)
    \/ Slot

Spec == Init /\ [][Next]_vars

-----------------------------------------------------------------------------
\* The debt of the limiter is the queue of its sleepers: each token owed is
\* waited for by exactly one goroutine, so no two of them are let through in the
\* same slot, none waits longer than there are goroutines, and no token is owed
\* to a goroutine that is gone, whatever the order they call Wait in, however
\* late they wake and however their rows fail.
DebtIsQueue ==
    /\ \A g \in asleep : wait[g] > 0 => wait[g] <= 0 - tokens
    /\ \A g, h \in asleep : wait[g] = wait[h] /\ wait[g] > 0 => g = h
    /\ \A d \in 1 .. (0 - tokens) : \E g \in asleep : wait[g] = d

\* What the limiter of one poll lets through whatever the number of goroutines
\* and the moments they call Wait at: in any i slots at most the burst and the
\* refill of all of them but the first.  For a second that is 2 * Throughput - 1
\* publications if Throughput divides it, and one more if not and Throughput is
\* at most 3000; the limit that README promises is ThroughputIsMaximum.
BurstBound == \A i \in 1 .. SlotsPerSecond : permitted[i] <= Throughput + i - 1

\* At least that many publications have begun within the last second: the ones
\* let through, except by goroutines that have not woken yet.
Begun == permitted[SlotsPerSecond] - Cardinality({g \in asleep : wait[g] = 0})

\* README: outbox.throughput is the maximum number of messages sent per second
\* per aggregate_type; the comment on the limiter says the same.
ThroughputIsMaximum == Begun <= Throughput

=============================================================================
