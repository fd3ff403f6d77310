--------------------------- MODULE OutboxContract ---------------------------
(***************************************************************************)
(* What the outbox worker promises the application, with no worker, no     *)
(* batch, no transaction and no clock in it: a committed row's message is  *)
(* delivered at least once, or the row is given up after MaxAttempts       *)
(* failures; a row is archived only after its message is delivered; and    *)
(* inside an ordered group no message is delivered for the first time, or  *)
(* tried, while one in front of it is still owed.                          *)
(* PollingAttempts implements this specification.                          *)
(***************************************************************************)
EXTENDS Naturals

CONSTANTS
    Ids,               \* the rows the application will commit
    Before(_),         \* the rows whose messages come before a row's
    Excluded,          \* rows that configuration keeps from being sent
    MaxAttempts        \* failures after which a row is given up

VARIABLES
    committed,         \* rows the application has committed
    delivered,         \* rows whose message the broker has
    failed,            \* failed attempts for each row, up to MaxAttempts
    givenUp,           \* rows that used up their attempts
    archived           \* rows the application has taken out of the table

cvars == <<committed, delivered, failed, givenUp, archived>>

Owed(e) == e \notin delivered \cup givenUp \cup Excluded

\* A row whose turn has come.
HasTurn(e) == e \in committed /\ \A d \in Before(e) : ~Owed(d)

CInit ==
    /\ committed = {}
    /\ delivered = {}
    /\ failed = [e \in Ids |-> 0]
    /\ givenUp = {}
    /\ archived = {}

Commit(e) ==
    /\ e \notin committed
    /\ Before(e) \subseteq committed
    /\ committed' = committed \cup {e}
    /\ UNCHANGED <<delivered, failed, givenUp, archived>>

Deliver(e) ==
    /\ HasTurn(e)
    /\ delivered' = delivered \cup {e}
    /\ UNCHANGED <<committed, failed, givenUp, archived>>

FailAttempt(e) ==
    /\ HasTurn(e)
    /\ failed[e] < MaxAttempts
    /\ failed' = [failed EXCEPT ![e] = @ + 1]
    /\ UNCHANGED <<committed, delivered, givenUp, archived>>

GiveUp(e) ==
    /\ HasTurn(e)
    /\ failed[e] >= MaxAttempts
    /\ givenUp' = givenUp \cup {e}
    /\ UNCHANGED <<committed, delivered, failed, archived>>

Discard(e) ==
    /\ e \in delivered
    /\ archived' = archived \cup {e}
    /\ UNCHANGED <<committed, delivered, failed, givenUp>>

CNext == \E e \in Ids :
    Commit(e) \/ Deliver(e) \/ FailAttempt(e) \/ GiveUp(e) \/ Discard(e)

CSpec == CInit /\ [][CNext]_cvars

=============================================================================
