--------------------------- MODULE LifecycleProofs ---------------------------
(***************************************************************************)
(* Proofs about Lifecycle, with the refetch timer on or off.               *)
(***************************************************************************)
EXTENDS Lifecycle, TLAPS

\* stop() is called only after group.Wait has returned, and what the group has
\* waited for does not start again.
ReleaseInv ==
    /\ main \in {"grace", "killed"} => released
    /\ released => main \in {"grace", "exited", "killed"}
    /\ released => poller = "returned" /\ health \in {"closed", "failed"}

\* The errors of a refetch have somebody to take them, until the channel is
\* closed.
ChannelInv ==
    /\ main = "resources" => refetch = "off" /\ logger = "off"
    /\ refetch \in {"waiting", "fetching", "sending"} => logger = "receiving"

IInv == TypeOK /\ ReleaseInv /\ ChannelInv

USE DEF vars, Alive, TypeOK, ReleaseInv, ChannelInv

LEMMA InitIInv == Init => IInv
BY DEF Init, IInv

LEMMA IInvStep == IInv /\ [Next]_vars => IInv'
<1> SUFFICES ASSUME IInv, [Next]_vars PROVE IInv'
  OBVIOUS
<1> USE DEF IInv
<1>1. CASE Signal
  BY <1>1 DEF Signal
<1>2. CASE Main
  <2>1. CASE FindResources
    BY <2>1 DEF FindResources
  <2>2. CASE StartUpFails
    BY ZenonT(30), <2>2 DEF StartUpFails
  <2>3. CASE StartGroup
    BY <2>3 DEF StartGroup
  <2>4. CASE GroupWait
    BY <2>4 DEF GroupWait
  <2>5. CASE GraceEnds
    BY <2>5 DEF GraceEnds
  <2> QED
    BY <1>2, <2>1, <2>2, <2>3, <2>4, <2>5 DEF Main
<1>3. CASE Health
  <2>1. CASE HealthServes
    BY <2>1 DEF HealthServes
  <2>2. CASE HealthFails
    BY <2>2 DEF HealthFails
  <2>3. CASE HealthShutsDown
    BY <2>3 DEF HealthShutsDown
  <2> QED
    BY <1>3, <2>1, <2>2, <2>3 DEF Health
<1>4. CASE Poller
  <2>1. CASE PollerQueries
    BY <2>1 DEF PollerQueries
  <2>2. CASE PollerPublished
    BY <2>2 DEF PollerPublished
  <2>3. CASE PollerResumes
    BY <2>3 DEF PollerResumes
  <2>4. CASE PollerReturns
    BY <2>4 DEF PollerReturns
  <2> QED
    BY <1>4, <2>1, <2>2, <2>3, <2>4 DEF Poller
<1>5. CASE Refetch
  <2>1. CASE RefetchTick
    BY <2>1 DEF RefetchTick
  <2>2. CASE RefetchDone
    BY <2>2 DEF RefetchDone
  <2>3. CASE LogError
    BY <2>3 DEF LogError
  <2>4. CASE RefetchStops
    BY <2>4 DEF RefetchStops
  <2>5. CASE LoggerStops
    BY <2>5 DEF LoggerStops
  <2> QED
    BY <1>5, <2>1, <2>2, <2>3, <2>4, <2>5 DEF Refetch
<1>6. CASE UNCHANGED vars
  <2>1. TypeOK'
    BY ZenonT(30), <1>6
  <2>2. ReleaseInv' /\ ChannelInv'
    BY <1>6
  <2> QED
    BY <2>1, <2>2
<1> QED
  BY <1>1, <1>2, <1>3, <1>4, <1>5, <1>6 DEF Next

-----------------------------------------------------------------------------
\* executePolling and its goroutines are always at one of the places the code
\* has, and an error of a refetch is sent only while it is received.
THEOREM TypeCorrect == Spec => []TypeOK
<1>1. IInv => TypeOK
  BY DEF IInv
<1> QED
  BY InitIInv, IInvStep, <1>1, PTL DEF Spec

\* Past group.Wait, and when a second signal kills the process, the poller has
\* returned and the health server is closed or has failed.
THEOREM DrainedSafe == Spec => []DrainedBeforeExit
<1>1. IInv => DrainedBeforeExit
  BY DEF IInv, DrainedBeforeExit
<1> QED
  BY InitIInv, IInvStep, <1>1, PTL DEF Spec

\* errCh has no buffer, and needs none: whenever refetchResources sends an error
\* the goroutine that logs it is still receiving.
THEOREM SenderHasReceiver == Spec => [](refetch = "sending" => logger = "receiving")
<1>1. IInv => (refetch = "sending" => logger = "receiving")
  BY DEF IInv
<1> QED
  BY InitIInv, IInvStep, <1>1, PTL DEF Spec

-----------------------------------------------------------------------------
(***************************************************************************)
(* The loop of the poller.                                                 *)
(***************************************************************************)
\* The group has a poller from its start, and the poller that has returned was
\* made to by the context of the group.
LoopInv ==
    /\ main \in {"resources", "database"} => poller = "off" /\ health = "off"
    /\ main = "waiting" => poller # "off"
    /\ health # "off" => poller # "off"
    /\ poller = "returned" => groupDone

LEMMA LoopInvStep == IInv /\ LoopInv /\ [Next]_vars => LoopInv'
<1> SUFFICES ASSUME IInv, LoopInv, [Next]_vars PROVE LoopInv'
  OBVIOUS
<1> USE DEF IInv, LoopInv
<1>1. CASE Signal
  BY <1>1 DEF Signal
<1>2. CASE Main
  <2>1. CASE FindResources \/ StartUpFails
    BY <2>1 DEF FindResources, StartUpFails
  <2>2. CASE StartGroup
    BY <2>2 DEF StartGroup
  <2>3. CASE GroupWait \/ GraceEnds
    BY <2>3 DEF GroupWait, GraceEnds
  <2> QED
    BY <1>2, <2>1, <2>2, <2>3 DEF Main
<1>3. CASE Health
  BY <1>3 DEF Health, HealthServes, HealthFails, HealthShutsDown
<1>4. CASE Poller
  BY <1>4 DEF Poller, PollerQueries, PollerPublished, PollerResumes, PollerReturns
<1>5. CASE Refetch
  BY <1>5 DEF Refetch, RefetchTick, RefetchDone, LogError, RefetchStops, LoggerStops
<1>6. CASE UNCHANGED vars
  BY <1>6
<1> QED
  BY <1>1, <1>2, <1>3, <1>4, <1>5, <1>6 DEF Next

\* What the loop does not see.
LEMMA LoopStutter ==
    ASSUME UNCHANGED <<poller, groupDone>> PROVE UNCHANGED Loop!lvars
BY DEF Loop!lvars

LEMMA LoopStep == IInv /\ LoopInv /\ [Next]_vars => [Loop!LNext]_(Loop!lvars)
<1> SUFFICES ASSUME IInv, LoopInv, [Next]_vars PROVE [Loop!LNext]_(Loop!lvars)
  OBVIOUS
<1> USE DEF IInv, LoopInv
<1>1. ASSUME UNCHANGED poller, groupDone' = TRUE, poller \notin {"off", "returned"}
      PROVE  Loop!CancelContext
  BY <1>1 DEF Loop!CancelContext
<1>2. CASE Signal \/ HealthFails
  <2>1. UNCHANGED poller /\ (groupDone' = TRUE \/ groupDone' = groupDone)
    BY <1>2 DEF Signal, HealthFails
  <2>2. groupDone' # groupDone => poller \notin {"off", "returned"}
    BY <1>2 DEF Signal, HealthFails
  <2> QED
    BY <1>1, <2>1, <2>2, LoopStutter DEF Loop!LNext
<1>3. CASE StartGroup
  BY <1>3 DEF StartGroup, Loop!Begin, Loop!LNext
<1>4. CASE PollerQueries
  <2>1. CASE poller' = "publishing"
    BY <1>4, <2>1 DEF PollerQueries, Loop!TakeBatch, Loop!LNext
  <2>2. CASE poller' = "select"
    BY <1>4, <2>2 DEF PollerQueries, Loop!FindNothing, Loop!LNext
  <2> QED
    BY <1>4, <2>1, <2>2 DEF PollerQueries
<1>5. CASE PollerPublished
  BY <1>5 DEF PollerPublished, Loop!Drain, Loop!LNext
<1>6. CASE PollerResumes
  BY <1>6 DEF PollerResumes, Loop!ResumePolling, Loop!LNext
<1>7. CASE PollerReturns
  BY <1>7 DEF PollerReturns, Loop!Return, Loop!LNext
<1>8. CASE \/ FindResources \/ StartUpFails \/ GroupWait \/ GraceEnds
           \/ HealthServes \/ HealthShutsDown \/ Refetch \/ UNCHANGED vars
  <2>1. UNCHANGED <<poller, groupDone>>
    BY <1>8 DEF FindResources, StartUpFails, GroupWait, GraceEnds, HealthServes,
       HealthShutsDown, Refetch, RefetchTick, RefetchDone, LogError, RefetchStops,
       LoggerStops
  <2> QED
    BY <2>1, LoopStutter
<1> QED
  BY <1>2, <1>3, <1>4, <1>5, <1>6, <1>7, <1>8 DEF Next, Main, Health, Poller

\* The poller of the command is the loop that the workers of Polling run: with
\* the context of the errgroup it takes no batch after a signal or the loss of
\* the health server, drains the one it has and returns, and no signal kills
\* the process before that.
THEOREM LifecycleImplementsLoop == Spec => ImplementsLoop
<1>1. Init => LoopInv /\ Loop!LInit
  BY DEF Init, LoopInv, Loop!LInit
<1>2. IInv /\ LoopInv /\ [Next]_vars => (IInv /\ LoopInv)'
  BY IInvStep, LoopInvStep
<1> QED
  BY InitIInv, <1>1, <1>2, LoopStep, PTL DEF Spec, Loop!LSpec, ImplementsLoop

=============================================================================
