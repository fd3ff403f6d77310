------------------------------ MODULE Lifecycle ------------------------------
(***************************************************************************)
(* One run of the polling command (pkg/cmd/outbox_polling.go): start-up,   *)
(* the errgroup of the health server and the poller, the goroutine that    *)
(* refetches the topics with the one that logs its errors, and shutdown by *)
(* a signal or by the failure of the health server.  The poller is reduced *)
(* to what its loop does with its context; Polling models what it          *)
(* publishes.                                                              *)
(***************************************************************************)
CONSTANT RefetchEnabled    \* publisher.refetchTimer.enabled

ASSUME RefetchEnabledAssumption == RefetchEnabled \in BOOLEAN

VARIABLES
    main,              \* where executePolling stands
    signalled,         \* whether the context of signal.NotifyContext is done
    released,          \* whether stop() has given the signals back
    groupDone,         \* whether the context of the errgroup is done
    health,            \* the goroutine that runs HealthChecker.Start
    poller,            \* the goroutine that runs OutboxPolling.Start
    refetch,           \* the goroutine that runs refetchResources
    logger             \* the goroutine that ranges over errCh

vars == <<main, signalled, released, groupDone, health, poller, refetch, logger>>

TypeOK ==
    /\ main \in {"resources", "database", "waiting", "grace", "exited", "killed"}
    /\ signalled \in BOOLEAN /\ released \in BOOLEAN /\ groupDone \in BOOLEAN
    /\ health \in {"off", "starting", "serving", "closed", "failed"}
    /\ poller \in {"off", "query", "publishing", "select", "returned"}
    /\ refetch \in {"off", "waiting", "fetching", "sending", "closed"}
    /\ logger \in {"off", "receiving", "nil channel", "done"}
    /\ refetch = "sending" => logger = "receiving"

Alive == main \notin {"exited", "killed"}

Init ==
    /\ main = "resources"
    /\ signalled = FALSE /\ released = FALSE /\ groupDone = FALSE
    /\ health = "off" /\ poller = "off" /\ refetch = "off" /\ logger = "off"

-----------------------------------------------------------------------------
\* SIGINT or SIGTERM.  Until stop() a further one changes nothing; after it the
\* process dies at once.
Signal ==
    /\ Alive
    /\ IF released
         THEN main' = "killed" /\ UNCHANGED <<signalled, groupDone>>
         ELSE /\ ~signalled
              /\ signalled' = TRUE
              /\ groupDone' = (main = "waiting" \/ groupDone)
              /\ UNCHANGED main
    /\ UNCHANGED <<released, health, poller, refetch, logger>>

\* publisher.FindResources; then RefetchResources, whose channel is nil when
\* the timer is off.
FindResources ==
    /\ main = "resources"
    /\ main' = "database"
    /\ refetch' = IF RefetchEnabled THEN "waiting" ELSE "off"
    /\ logger' = IF RefetchEnabled THEN "receiving" ELSE "nil channel"
    /\ UNCHANGED <<signalled, released, groupDone, health, poller>>

\* Any error before the errgroup ends the command.
StartUpFails ==
    /\ main \in {"resources", "database"}
    /\ main' = "exited"
    /\ UNCHANGED <<signalled, released, groupDone, health, poller, refetch, logger>>

\* Mutant: the group has a context of its own.
StartGroupDetached ==
    /\ main = "database"
    /\ main' = "waiting"
    /\ groupDone' = FALSE
    /\ health' = "starting"
    /\ poller' = "query"
    /\ UNCHANGED <<signalled, released, refetch, logger>>

\* errgroup.WithContext: the context of the group is a child of the signal's.
StartGroup ==
    /\ main = "database"
    /\ main' = "waiting"
    /\ groupDone' = signalled
    /\ health' = "starting"
    /\ poller' = "query"
    /\ UNCHANGED <<signalled, released, refetch, logger>>

(***************************************************************************)
(* HealthChecker.Start.                                                    *)
(***************************************************************************)
HealthServes ==
    /\ Alive /\ health = "starting"
    /\ health' = "serving"
    /\ UNCHANGED <<main, signalled, released, groupDone, poller, refetch, logger>>

\* Mutant: the error is only logged.
HealthFailsAlone ==
    /\ Alive /\ health \in {"starting", "serving"}
    /\ health' = "failed"
    /\ UNCHANGED <<main, signalled, released, groupDone, poller, refetch, logger>>

\* net.Listen or Serve fails: the error cancels the context of the group.
HealthFails ==
    /\ Alive /\ health \in {"starting", "serving"}
    /\ health' = "failed"
    /\ groupDone' = TRUE
    /\ UNCHANGED <<main, signalled, released, poller, refetch, logger>>

\* Shutdown makes Serve return ErrServerClosed, which is no error.
HealthShutsDown ==
    /\ Alive /\ health = "serving"
    /\ groupDone
    /\ health' = "closed"
    /\ UNCHANGED <<main, signalled, released, groupDone, poller, refetch, logger>>

(***************************************************************************)
(* OutboxPolling.Start.                                                    *)
(***************************************************************************)
\* Mutant: the query is not given the context of the group.
PollerQueriesAnyway ==
    /\ Alive /\ poller = "query"
    /\ poller' \in {"publishing", "select"}
    /\ UNCHANGED <<main, signalled, released, groupDone, health, refetch, logger>>

PollerQueries ==
    /\ Alive /\ poller = "query"
    /\ poller' \in IF groupDone THEN {"select"} ELSE {"publishing", "select"}
    /\ UNCHANGED <<main, signalled, released, groupDone, health, refetch, logger>>

PollerPublished ==
    /\ Alive /\ poller = "publishing"
    /\ poller' = "select"
    /\ UNCHANGED <<main, signalled, released, groupDone, health, refetch, logger>>

PollerResumes ==
    /\ Alive /\ poller = "select"
    /\ poller' = "query"
    /\ UNCHANGED <<main, signalled, released, groupDone, health, refetch, logger>>

PollerReturns ==
    /\ Alive /\ poller = "select"
    /\ groupDone
    /\ poller' = "returned"
    /\ UNCHANGED <<main, signalled, released, groupDone, health, refetch, logger>>

(***************************************************************************)
(* refetchResources and the loop over its errors.                          *)
(***************************************************************************)
RefetchTick ==
    /\ Alive /\ refetch = "waiting"
    /\ refetch' = "fetching"
    /\ UNCHANGED <<main, signalled, released, groupDone, health, poller, logger>>

RefetchDone ==
    /\ Alive /\ refetch = "fetching"
    /\ refetch' \in {"waiting", "sending"}
    /\ UNCHANGED <<main, signalled, released, groupDone, health, poller, logger>>

\* Mutant: the loop ends with the first error.
LogErrorOnce ==
    /\ Alive /\ refetch = "sending" /\ logger = "receiving"
    /\ refetch' = "waiting"
    /\ logger' = "done"
    /\ UNCHANGED <<main, signalled, released, groupDone, health, poller>>

\* errCh is not buffered: sender and receiver meet.
LogError ==
    /\ Alive /\ refetch = "sending" /\ logger = "receiving"
    /\ refetch' = "waiting"
    /\ UNCHANGED <<main, signalled, released, groupDone, health, poller, logger>>

\* The goroutine watches the context of the signal, not that of the group.
RefetchStops ==
    /\ Alive /\ refetch = "waiting"
    /\ signalled
    /\ refetch' = "closed"
    /\ UNCHANGED <<main, signalled, released, groupDone, health, poller, logger>>

\* Mutant: the logger of the errors watches the context too.
LoggerStopsOnSignal ==
    /\ Alive /\ signalled /\ logger = "receiving"
    /\ logger' = "done"
    /\ UNCHANGED <<main, signalled, released, groupDone, health, poller, refetch>>

\* It ranges over errCh: only the end of the channel ends it.
LoggerStops ==
    /\ Alive /\ refetch = "closed" /\ logger = "receiving"
    /\ logger' = "done"
    /\ UNCHANGED <<main, signalled, released, groupDone, health, poller, refetch>>

(***************************************************************************)
(* The end of executePolling.                                              *)
(***************************************************************************)
\* Mutant: the first goroutine to return ends the wait.
GroupWaitAny ==
    /\ main = "waiting"
    /\ health \in {"closed", "failed"} \/ poller = "returned"
    /\ main' = "grace"
    /\ signalled' = TRUE /\ released' = TRUE /\ groupDone' = TRUE
    /\ UNCHANGED <<health, poller, refetch, logger>>

\* group.Wait returns when both have; stop() also cancels the signal's context.
GroupWait ==
    /\ main = "waiting"
    /\ health \in {"closed", "failed"}
    /\ poller = "returned"
    /\ main' = "grace"
    /\ signalled' = TRUE /\ released' = TRUE /\ groupDone' = TRUE
    /\ UNCHANGED <<health, poller, refetch, logger>>

\* The five seconds are over.
GraceEnds ==
    /\ main = "grace"
    /\ main' = "exited"
    /\ UNCHANGED <<signalled, released, groupDone, health, poller, refetch, logger>>

Main == FindResources \/ StartUpFails \/ StartGroup \/ GroupWait \/ GraceEnds
Health == HealthServes \/ HealthFails \/ HealthShutsDown
Poller == PollerQueries \/ PollerPublished \/ PollerResumes \/ PollerReturns
Refetch == RefetchTick \/ RefetchDone \/ LogError \/ RefetchStops \/ LoggerStops

Next == Signal \/ Main \/ Health \/ Poller \/ Refetch

Spec == Init /\ [][Next]_vars

\* Every goroutine keeps running; a select with two ready cases does not take
\* the same one for ever.
Fairness ==
    /\ WF_vars(Main)
    /\ WF_vars(HealthServes) /\ WF_vars(HealthShutsDown)
    /\ WF_vars(Poller) /\ SF_vars(PollerReturns)
    /\ WF_vars(RefetchDone) /\ WF_vars(LogError) /\ SF_vars(RefetchStops)

FairSpec == Spec /\ Fairness

-----------------------------------------------------------------------------
\* group.Wait waits for both goroutines: the command goes past the errgroup, and
\* a second signal can kill it, only when the poller has returned, and with it
\* every goroutine of its batch, and the health server is closed or has failed.
\* That the outcomes of that batch are written to their rows is not claimed: its
\* transactions begin with the cancelled context and fail.
DrainedBeforeExit ==
    main \in {"grace", "killed"} =>
        poller = "returned" /\ health \in {"closed", "failed"}

Loop == INSTANCE PollerLoop WITH
    Killable <- FALSE,
    pc <- CASE poller \in {"off", "returned"} -> "down"
            [] poller = "query" -> "poll"
            [] poller = "publishing" -> "working"
            [] poller = "select" -> "select",
    busy <- poller = "publishing",
    cancelled <- groupDone

\* The poller's loop with the context it is really given, one that a signal,
\* the health server or the end of the command cancels at any moment, is the
\* loop that Polling takes apart; and no signal kills the process before the
\* loop has returned by itself.
ImplementsLoop == Loop!LSpec

\* A signal ends the command, at whatever moment of start-up or of a poll.
SignalEnds == signalled ~> ~Alive

\* A health server that fails takes the poller down with it, so that no worker
\* polls on unobserved.
HealthFailureEnds == health = "failed" ~> ~Alive

\* The goroutine that refetches is never left with an error nobody takes.
RefetchNotStuck == refetch = "sending" ~> (refetch # "sending" \/ ~Alive)

=============================================================================
