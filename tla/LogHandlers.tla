----------------------------- MODULE LogHandlers -----------------------------
(***************************************************************************)
(* The slog handlers of pkg/internal/logging as SetupLog stacks them: one  *)
(* handler that fans a record out to its sinks.  The text and JSON sinks   *)
(* write in the caller's goroutine; Sentry and Rollbar (the tracked sinks) *)
(* sit behind an ErrorTracking, which drops records when its flag ignore   *)
(* is set, and an AsyncHandler, which writes in a goroutine of its own.    *)
(*                                                                         *)
(* With and WithGroup derive a logger whose handlers are new at every      *)
(* level: its ErrorTracking copies the flag, its AsyncHandler has a        *)
(* WaitGroup of its own.  Several goroutines log, derive and close at      *)
(* once; each goes from sink to sink without a lock.  The order of the     *)
(* sinks in a fan-out handler, fixed in the code, is left open.  The       *)
(* worker of today never installs this stack (see SetupLog in              *)
(* Configuration); the handlers are modelled as the library they are.      *)
(***************************************************************************)
CONSTANTS
    Loggers,           \* bound: loggers, derived ones included
    Root,              \* the logger of slog.SetDefault
    Sinks,             \* the sinks of the fan-out handler
    Tracked,           \* those behind ErrorTracking and AsyncHandler
    Callers,           \* goroutines that use the loggers
    Records,           \* bound: records, each logged at most once
    enabled            \* enabled[r]: the sinks whose level lets r through

ASSUME RootAssumption == Root \in Loggers
ASSUME TrackedAssumption == Tracked \subseteq Sinks
ASSUME EnabledAssumption == enabled \in [Records -> SUBSET Sinks]

VARIABLES
    loggers,           \* the loggers that exist
    ignore,            \* ignore[l]: tracked sinks whose flag is set in l
    call,              \* call[c]: the call goroutine c is in
    inflight,          \* what the goroutines of the AsyncHandlers hold
    written,           \* what the sinks have got
    failed,            \* what a sink has answered with an error
    closing,           \* closing[l]: tracked sinks Close of l still waits for
    closed,            \* loggers whose Close has returned
    line,              \* history: line[l]: l and the loggers it derives from
    marked,            \* history: loggers derived with IgnoreTracing
    asked,             \* history: loggers whose With was given IgnoreTracing
    handled,           \* history: [logger, record] whose Handle has returned
    owed               \* history: what was in flight when Close was called

handlers == <<loggers, ignore>>
sinks == <<inflight, written, failed>>
closes == <<closing, closed, owed>>
family == <<line, marked, asked>>
vars == <<handlers, call, sinks, closes, family, handled>>

Entry == [logger : Loggers, sink : Sinks, record : Records]

Idle == [op |-> "none"]
HandleCall == [op : {"Handle"}, logger : Loggers, record : Records, left : SUBSET Sinks]
WithCall == [op : {"With"}, logger : Loggers, new : Loggers, ignored : BOOLEAN,
             left : SUBSET Tracked]

TypeOK ==
    /\ loggers \subseteq Loggers
    /\ ignore \in [Loggers -> SUBSET Tracked]
    /\ call \in [Callers -> {Idle} \cup HandleCall \cup WithCall]
    /\ inflight \subseteq Entry
    /\ written \subseteq Entry
    /\ failed \subseteq Entry
    /\ closing \in [Loggers -> SUBSET Tracked]
    /\ closed \cup {l \in Loggers : closing[l] # {}} \subseteq loggers
    /\ line \in [Loggers -> SUBSET Loggers]
    /\ marked \subseteq Loggers
    /\ asked \subseteq Loggers
    /\ handled \subseteq [logger : Loggers, record : Records]
    /\ owed \in [Loggers -> SUBSET Entry]

Init ==
    /\ loggers = {Root}
    /\ ignore = [l \in Loggers |-> {}]
    /\ call = [c \in Callers |-> Idle]
    /\ inflight = {} /\ written = {} /\ failed = {}
    /\ closing = [l \in Loggers |-> {}]
    /\ closed = {}
    /\ line = [l \in Loggers |-> {l}]
    /\ marked = {} /\ asked = {} /\ handled = {}
    /\ owed = [l \in Loggers |-> {}]

-----------------------------------------------------------------------------
(* Handle. *)

InHandle(c, s) == call[c].op = "Handle" /\ s \in call[c].left

EntryOf(c, s) == [logger |-> call[c].logger, sink |-> s, record |-> call[c].record]

(* Goroutine c is done with sink s of its call. *)
Visited(c, s) == call' = [call EXCEPT ![c].left = @ \ {s}]

Unused(r) ==
    /\ \A h \in handled : h.record # r
    /\ \A c \in Callers : call[c].op = "Handle" => call[c].record # r

(* slog asks Enabled first: no sink enabled, no call.  The fan-out then    *)
(* passes the record to the sinks that are enabled for its level.          *)
StartHandle(c, l, r) ==
    /\ call[c] = Idle /\ l \in loggers /\ Unused(r)
    /\ enabled[r] # {}
    /\ call' = [call EXCEPT ![c] =
           [op |-> "Handle", logger |-> l, record |-> r, left |-> enabled[r]]]
    /\ UNCHANGED <<handlers, sinks, closes, family, handled>>

(* A text or JSON sink; its error is kept and the next sink is served. *)
HandleLocal(c, s) ==
    /\ InHandle(c, s) /\ s \notin Tracked
    /\ \/ written' = written \cup {EntryOf(c, s)} /\ UNCHANGED failed
       \/ failed' = failed \cup {EntryOf(c, s)} /\ UNCHANGED written
    /\ Visited(c, s)
    /\ UNCHANGED <<handlers, inflight, closes, family, handled>>

\* Mutant: the flag is one for all the loggers of the process.
SilencedByAny(l, s) == \E k \in loggers : s \in ignore[k]
(* ErrorTracking.Handle returns at once. *)
Silenced(l, s) == s \in ignore[l]

(* ErrorTracking.Handle, then AsyncHandler.Handle. *)
HandleTracked(c, s) ==
    /\ InHandle(c, s) /\ s \in Tracked
    /\ inflight' = IF Silenced(call[c].logger, s)
                   THEN inflight ELSE inflight \cup {EntryOf(c, s)}
    /\ Visited(c, s)
    /\ UNCHANGED <<handlers, written, failed, closes, family, handled>>

ReturnHandle(c) ==
    /\ call[c].op = "Handle" /\ call[c].left = {}
    /\ handled' = handled \cup {[logger |-> call[c].logger, record |-> call[c].record]}
    /\ call' = [call EXCEPT ![c] = Idle]
    /\ UNCHANGED <<handlers, sinks, closes, family>>

(* The goroutine of an AsyncHandler: the sink's error is dropped. *)
Deliver(x) ==
    /\ x \in inflight
    /\ inflight' = inflight \ {x}
    /\ \/ written' = written \cup {x} /\ UNCHANGED failed
       \/ failed' = failed \cup {x} /\ UNCHANGED written
    /\ UNCHANGED <<handlers, call, closes, family, handled>>

-----------------------------------------------------------------------------
(* With and WithGroup. *)

\* Mutant: every sink is wrapped in an ErrorTracking.
DerivedAll == Sinks
(* The sinks whose handlers carry a flag to the derived logger. *)
Derived == Tracked

(* The logger n to be derived from l; ignored: IgnoreTracing is one of the *)
(* attributes.  WithGroup takes no attributes.                             *)
StartWith(c, l, n, ignored) ==
    /\ call[c] = Idle /\ l \in loggers /\ n \notin loggers
    /\ \A d \in Callers : call[d].op = "With" => call[d].new # n
    /\ call' = [call EXCEPT ![c] =
           [op |-> "With", logger |-> l, new |-> n, ignored |-> ignored, left |-> Derived]]
    /\ asked' = IF ignored THEN asked \cup {l} ELSE asked
    /\ line' = [line EXCEPT ![n] = line[l] \cup {n}]
    /\ UNCHANGED <<handlers, sinks, closes, marked, handled>>

\* Mutant: the derived handler starts with its flag off.
CopiedOff(flags, s) == {}
(* The flag of the handler newErrorTracking makes. *)
Copied(flags, s) == flags \cap {s}

(* ErrorTracking.WithAttrs sets the flag of its receiver; the new handler  *)
(* gets the flag as it then stands.  Text and JSON sinks keep no flag.     *)
DeriveTracked(c, s) ==
    LET w == call[c]
        old == IF w.ignored THEN ignore[w.logger] \cup {s} ELSE ignore[w.logger]
    IN  /\ w.op = "With" /\ s \in w.left
        /\ ignore' = [ignore EXCEPT ![w.logger] = old, ![w.new] = @ \cup Copied(old, s)]
        /\ Visited(c, s)
        /\ UNCHANGED <<loggers, sinks, closes, family, handled>>

ReturnWith(c) ==
    LET w == call[c]
    IN  /\ w.op = "With" /\ w.left = {}
        /\ loggers' = loggers \cup {w.new}
        /\ marked' = IF w.ignored \/ w.logger \in marked
                     THEN marked \cup {w.new} ELSE marked
        /\ call' = [call EXCEPT ![c] = Idle]
        /\ UNCHANGED <<ignore, sinks, closes, line, asked, handled>>

-----------------------------------------------------------------------------
(* Close: the fan-out closes each ErrorTracking, which closes its          *)
(* AsyncHandler, which waits for the WaitGroup.  Nothing stops Handle.     *)

InFlight(l) == {x \in inflight : x.logger = l}

Close(l) ==
    /\ l \in loggers \ closed /\ closing[l] = {} /\ Tracked # {}
    /\ closing' = [closing EXCEPT ![l] = Tracked]
    /\ owed' = [owed EXCEPT ![l] = InFlight(l)]
    /\ UNCHANGED <<handlers, call, sinks, closed, family, handled>>

\* Mutant: Close does not wait.
DrainedAtOnce(l, s) == TRUE
Drained(l, s) == \A x \in InFlight(l) : x.sink # s

(* sync.Wait returns; after the last of the sinks so does Close. *)
WaitDone(l, s) ==
    /\ s \in closing[l]
    /\ Drained(l, s)
    /\ closing' = [closing EXCEPT ![l] = @ \ {s}]
    /\ closed' = IF closing[l] = {s} THEN closed \cup {l} ELSE closed
    /\ UNCHANGED <<handlers, call, sinks, owed, family, handled>>

Next ==
    \/ \E c \in Callers :
          \/ \E l \in Loggers, r \in Records : StartHandle(c, l, r)
          \/ \E s \in Sinks : HandleLocal(c, s) \/ HandleTracked(c, s)
          \/ ReturnHandle(c)
          \/ \E l, n \in Loggers, ignored \in BOOLEAN : StartWith(c, l, n, ignored)
          \/ \E s \in Tracked : DeriveTracked(c, s)
          \/ ReturnWith(c)
    \/ \E x \in inflight : Deliver(x)
    \/ \E l \in Loggers : Close(l) \/ \E s \in Tracked : WaitDone(l, s)

Spec == Init /\ [][Next]_vars

-----------------------------------------------------------------------------
(* Close of a logger returns only when every record of that logger which   *)
(* was in flight when it was called has been delivered (its own WaitGroup; *)
(* the records of derived loggers are not waited for).  It is what the     *)
(* handlers offer: nothing in the worker calls this Close.                 *)
CloseWaits == \A l \in closed : owed[l] \cap inflight = {}

(* No record of a logger derived with IgnoreTracing, nor of one derived    *)
(* from such a logger, ever goes to Sentry or Rollbar, however the calls   *)
(* of several goroutines interleave.                                       *)
IgnoredNeverTracked ==
    \A x \in inflight \cup written \cup failed : x.sink \in Tracked => x.logger \notin marked

(* A record whose Handle has returned was offered to every sink enabled    *)
(* for it: an error of one sink keeps it from no other, and only a logger  *)
(* on whose line IgnoreTracing was given withholds it from a tracked sink. *)
ReachesEverySink ==
    \A h \in handled : \A s \in enabled[h.record] :
        \/ [logger |-> h.logger, sink |-> s, record |-> h.record]
               \in inflight \cup written \cup failed
        \/ s \in Tracked /\ line[h.logger] \cap asked # {}

=============================================================================
