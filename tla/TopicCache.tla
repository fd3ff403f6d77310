----------------------------- MODULE TopicCache -----------------------------
(***************************************************************************)
(* How a destination is resolved: the routing of pkg/service/publisher.go, *)
(* the topic cache of the SNS backend (pkg/service/backend/aws and         *)
(* backend/store) and the goroutine that refetches it while rows are being *)
(* published.                                                              *)
(*                                                                         *)
(* A fetch lists the topics page by page and asks for the attributes of    *)
(* each topic; the operators of the account create, change and delete      *)
(* topics in between.  A topic is known by its name: all topics a worker   *)
(* lists are of one account and region.  The kind of a topic is what SNS   *)
(* asks of a publisher: nothing ("standard"), nothing because it derives   *)
(* the deduplication id itself ("content"), or an id ("explicit").         *)
(***************************************************************************)
EXTENDS RN, FiniteSets

CONSTANTS
    Names,             \* topic names: the resource part of an ARN
    Rows,              \* rows being published
    aggregateType,     \* the aggregate_type column of each row
    Publishers,        \* the services a backend is configured for
    PageSize,          \* topics in one answer of ListTopics
    MaxChanges         \* bound: creations, changes and deletions of topics

ASSUME PageSizeAssumption == PageSize \in Nat \ {0}
ASSUME MaxChangesAssumption == MaxChanges \in Nat

VARIABLES
    topic,             \* topic[n]: the kind of topic n, or "none"
    changes,           \* creations, changes and deletions so far
    cache,             \* cache[n]: the kind the cache holds for n, or "none"
    booted,            \* whether the fetch at start-up has succeeded
    fetch,             \* where the fetching goroutine stands
    page,              \* names of the current page still to be looked at
    listed,            \* names the current fetch has listed
    more,              \* whether the last answer carried a NextToken
    loaded,            \* loaded[r]: what Publish has loaded for row r
    outcome,           \* outcome[r]: the last result of publishing row r
    settled,           \* history: topics unchanged since the fetch began
    unread,            \* history: topics whose attributes it could not read
    complete,          \* history: the last fetch begun went through
    promised           \* history: topics a fetch has found, not deleted since

fetcher == <<cache, booted, fetch, page, listed, more>>
history == <<settled, unread, complete, promised>>
vars == <<topic, changes, fetcher, loaded, outcome, history>>

Kinds == {"standard", "content", "explicit"}
KindOrNone == Kinds \cup {"none"}
Exists == {n \in Names : topic[n] # "none"}

TypeOK ==
    /\ topic \in [Names -> KindOrNone]
    /\ changes \in 0 .. MaxChanges
    /\ cache \in [Names -> KindOrNone]
    /\ booted \in BOOLEAN
    /\ fetch \in {"listing", "page", "idle", "exited"}
    /\ page \subseteq listed /\ listed \subseteq Names
    /\ more \in BOOLEAN
    /\ loaded \in [Rows -> KindOrNone]
    /\ outcome \in [Rows -> {"none", "ok", "skip", "retry"}]
    /\ settled \subseteq Names /\ unread \subseteq Names
    /\ complete \in BOOLEAN
    /\ promised \subseteq Names

\* executePolling fetches before it does anything else.
Init ==
    /\ topic \in [Names -> KindOrNone]
    /\ changes = 0
    /\ cache = [n \in Names |-> "none"]
    /\ booted = FALSE
    /\ fetch = "listing"
    /\ page = {} /\ listed = {} /\ more = FALSE
    /\ loaded = [r \in Rows |-> "none"]
    /\ outcome = [r \in Rows |-> "none"]
    /\ settled = Names /\ unread = {}
    /\ complete = FALSE
    /\ promised = {}

-----------------------------------------------------------------------------
(***************************************************************************)
(* The account: a topic is created, deleted, or its attributes change.     *)
(***************************************************************************)
Change(n, k) ==
    /\ changes < MaxChanges
    /\ k # topic[n]
    /\ topic' = [topic EXCEPT ![n] = k]
    /\ changes' = changes + 1
    /\ settled' = settled \ {n}
    /\ promised' = IF k = "none" THEN promised \ {n} ELSE promised
    /\ UNCHANGED <<fetcher, loaded, outcome, unread, complete>>

(***************************************************************************)
(* FindResources.                                                          *)
(***************************************************************************)
\* Mutants: the cache is rebuilt from nothing; a topic that is cached is not
\* looked at again.
RefetchTickClears ==
    /\ fetch = "idle"
    /\ fetch' = "listing"
    /\ cache' = [n \in Names |-> "none"]
    /\ listed' = {} /\ more' = FALSE
    /\ settled' = Names /\ unread' = {} /\ complete' = FALSE
    /\ UNCHANGED <<topic, changes, booted, page, loaded, outcome, promised>>
AddFirstOnly(n, k) == cache' = [cache EXCEPT ![n] = IF @ = "none" THEN k ELSE @]

\* The refetch timer fires.
RefetchTick ==
    /\ fetch = "idle"
    /\ fetch' = "listing"
    /\ listed' = {} /\ more' = FALSE
    /\ settled' = Names /\ unread' = {} /\ complete' = FALSE
    /\ UNCHANGED <<topic, changes, cache, booted, page, loaded, outcome, promised>>

\* Mutant: the NextToken is not looked at.
NextPageNever(left) == FALSE

\* Whether SNS has a further page when the names in left are not listed yet.
NextPage(left) == left # {}

\* One page: any PageSize of the topics not listed so far, or all of them.
ListTopics(p) ==
    /\ fetch = "listing"
    /\ p \subseteq Exists \ listed
    /\ \/ Cardinality(p) = PageSize
       \/ Cardinality(p) < PageSize /\ p = Exists \ listed
    /\ page' = p
    /\ listed' = listed \cup p
    /\ more' = NextPage(Exists \ listed')
    /\ fetch' = "page"
    /\ UNCHANGED <<topic, changes, cache, booted, loaded, outcome, history>>

\* Mutant: what is left of the page survives the failure.
FetchFailsKeepingPage ==
    /\ fetch = "page" /\ page # {}
    /\ fetch' = IF booted THEN "idle" ELSE "exited"
    /\ UNCHANGED <<topic, changes, cache, booted, page, listed, more, loaded,
                   outcome, history>>

\* ListTopics fails, or an answer holds an ARN that does not parse: the fetch
\* ends there and what it has cached so far stays.  At start-up the process
\* exits; later the error is logged and the next tick tries again.
FetchFails ==
    /\ \/ fetch = "listing"
       \/ fetch = "page" /\ page # {}
    /\ fetch' = IF booted THEN "idle" ELSE "exited"
    /\ page' = {}
    /\ UNCHANGED <<topic, changes, cache, booted, listed, more, loaded, outcome,
                   history>>

Add(n, k) == cache' = [cache EXCEPT ![n] = k]

GetTopicAttributes(n) ==
    /\ fetch = "page"
    /\ n \in page
    /\ topic[n] # "none"
    /\ Add(n, topic[n])
    /\ page' = page \ {n}
    /\ UNCHANGED <<topic, changes, booted, fetch, listed, more, loaded, outcome,
                   history>>

\* The attributes cannot be read: a warning, and the entry stays as it was.
GetTopicAttributesFails(n) ==
    /\ fetch = "page"
    /\ n \in page
    /\ page' = page \ {n}
    /\ unread' = unread \cup {n}
    /\ UNCHANGED <<topic, changes, cache, booted, fetch, listed, more, loaded,
                   outcome, settled, complete, promised>>

PageDone ==
    /\ fetch = "page"
    /\ page = {}
    /\ IF more
         THEN /\ fetch' = "listing"
              /\ UNCHANGED <<booted, complete, promised>>
         ELSE /\ fetch' = "idle"
              /\ booted' = TRUE
              /\ complete' = TRUE
              /\ promised' = promised \cup ((Exists \cap settled) \ unread)
    /\ UNCHANGED <<topic, changes, cache, page, listed, more, loaded, outcome,
                   settled, unread>>

(***************************************************************************)
(* Publish.                                                                *)
(***************************************************************************)
Result(r, o) == outcome' = [outcome EXCEPT ![r] = o]

\* The backend service.Publish finds for a row.  Nothing ever configures the
\* default one.
Routed(r) == IsRN(aggregateType[r]) /\ Service(aggregateType[r]) \in Publishers

Key(r) == CacheKey(aggregateType[r])
Lookup(function, n) == IF n \in Names THEN function[n] ELSE "none"

\* service.Publish finds no backend: an ordinary error, which publishEvent
\* counts as a failed attempt.
RouteFails(r) ==
    /\ booted
    /\ ~Routed(r)
    /\ Result(r, "retry")
    /\ UNCHANGED <<topic, changes, fetcher, loaded, history>>

\* Store.Load.  A miss is the NotFoundKeyError that publishEvent skips.
LoadMisses(r) ==
    /\ booted
    /\ Routed(r)
    /\ loaded[r] = "none"
    /\ Lookup(cache, Key(r)) = "none"
    /\ Result(r, "skip")
    /\ UNCHANGED <<topic, changes, fetcher, loaded, history>>

Load(r) ==
    /\ booted
    /\ Routed(r)
    /\ loaded[r] = "none"
    /\ Lookup(cache, Key(r)) # "none"
    /\ loaded' = [loaded EXCEPT ![r] = Lookup(cache, Key(r))]
    /\ UNCHANGED <<topic, changes, fetcher, outcome, history>>

\* What SNS accepts: the request carries a deduplication id exactly if the
\* topic was of kind "explicit" when it was cached.
Accepts(k, cached) ==
    \/ k = "content"
    \/ k = "explicit" /\ cached = "explicit"
    \/ k = "standard" /\ cached # "explicit"

SnsPublish(r) ==
    /\ loaded[r] # "none"
    /\ Result(r, IF Accepts(Lookup(topic, Key(r)), loaded[r]) THEN "ok" ELSE "retry")
    /\ loaded' = [loaded EXCEPT ![r] = "none"]
    /\ UNCHANGED <<topic, changes, fetcher, history>>

Fetch ==
    \/ RefetchTick \/ FetchFails \/ PageDone
    \/ \E p \in SUBSET Names : ListTopics(p)
    \/ \E n \in Names : GetTopicAttributes(n) \/ GetTopicAttributesFails(n)

Publish(r) == RouteFails(r) \/ LoadMisses(r) \/ Load(r) \/ SnsPublish(r)

Next ==
    \/ \E n \in Names, k \in KindOrNone : Change(n, k)
    \/ Fetch
    \/ \E r \in Rows : Publish(r)

Spec == Init /\ [][Next]_vars

\* The refetch timer fires, every call to AWS returns, and one that is made again
\* and again, for the same page or topic, succeeds once.  Which topics a page
\* holds is up to SNS, and nothing is assumed of the publishers.
Fairness ==
    /\ WF_vars(Fetch)
    /\ \A m \in 0 .. Cardinality(Names) - 1 :
          SF_vars(Cardinality(listed) = m /\ \E p \in SUBSET Names : ListTopics(p))
    /\ \A n \in Names : SF_vars(GetTopicAttributes(n))
FairSpec == Spec /\ Fairness

-----------------------------------------------------------------------------
\* A fetch that goes through leaves the cache equal to the account, page after
\* page and with topics coming and going meanwhile: every topic that has not
\* changed since it began, and whose attributes could be read, is cached as it
\* is.
FreshAfterFetch ==
    complete => \A n \in (Exists \cap settled) \ unread : cache[n] = topic[n]

\* A topic that one fetch has found stays resolvable while later fetches run,
\* fail in the middle, or cannot read its attributes: rows for it are never
\* skipped as unknown until it is deleted.
FoundStaysResolvable == \A n \in promised : cache[n] # "none"

\* However often fetches fail half-way, the cache catches up with an account that
\* has come to rest: every topic is known there as it is, for good.
CatchesUp ==
    <>(fetch = "exited") \/ <>[](\A n \in Exists : cache[n] = topic[n])

\* README: a destination that cannot be resolved costs the row no attempt.
UnresolvableCostsNoAttempt ==
    [][\A r \in Rows : (outcome[r] # "retry" /\ outcome'[r] = "retry")
          => Routed(r) /\ Key(r) \in Exists]_vars

=============================================================================
