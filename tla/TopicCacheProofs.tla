-------------------------- MODULE TopicCacheProofs --------------------------
(***************************************************************************)
(* Proofs about TopicCache, for every set of topics, rows and services,    *)
(* every page size and any number of changes of the account.               *)
(***************************************************************************)
EXTENDS TopicCache, TLAPS

\* What a fetch that is under way has done so far: the topics it has looked at
\* are cached as they are, and after the last page it has listed all of them.
\* Topics that changed meanwhile, and those it could not read, are left out.
FetchInv ==
    /\ fetch # "page" => page = {}
    /\ complete => fetch = "idle"
    /\ fetch \in {"listing", "page"} =>
          \A n \in (Exists \cap settled) \ unread :
              n \in listed \ page => cache[n] = topic[n]
    /\ fetch = "page" /\ ~more => Exists \cap settled \subseteq listed

IInv == TypeOK /\ FetchInv /\ FreshAfterFetch /\ FoundStaysResolvable

USE DEF fetcher, history, vars, Kinds, KindOrNone, Exists

LEMMA InitIInv == Init => IInv
<1> SUFFICES ASSUME Init PROVE IInv
  OBVIOUS
<1> USE MaxChangesAssumption DEF Init
<1>1. TypeOK
  <2>1. changes \in 0 .. MaxChanges
    OBVIOUS
  <2>2. cache \in [Names -> KindOrNone] /\ loaded \in [Rows -> KindOrNone]
    OBVIOUS
  <2>3. outcome \in [Rows -> {"none", "ok", "skip", "retry"}]
    OBVIOUS
  <2> QED
    BY <2>1, <2>2, <2>3 DEF TypeOK
<1>2. FetchInv /\ FreshAfterFetch /\ FoundStaysResolvable
  BY DEF FetchInv, FreshAfterFetch, FoundStaysResolvable
<1> QED
  BY <1>1, <1>2 DEF IInv

-----------------------------------------------------------------------------
(* Every step preserves the invariant. *)

LEMMA ChangeStep ==
    ASSUME IInv, NEW n \in Names, NEW k \in KindOrNone, Change(n, k)
    PROVE  IInv'
<1> USE MaxChangesAssumption DEF IInv, Change
<1>1. TypeOK'
  BY DEF TypeOK
<1>2. \A m \in settled' : m \in Names \ {n} /\ topic'[m] = topic[m]
  BY DEF TypeOK
<1>3. FetchInv' /\ FreshAfterFetch'
  BY <1>2 DEF FetchInv, FreshAfterFetch
<1>4. FoundStaysResolvable'
  BY DEF FoundStaysResolvable
<1> QED
  BY <1>1, <1>3, <1>4

LEMMA RefetchTickStep ==
    ASSUME IInv, RefetchTick
    PROVE  IInv'
<1> USE DEF IInv, RefetchTick
<1>1. TypeOK'
  BY DEF TypeOK, FetchInv
<1>2. page' = {}
  BY DEF TypeOK, FetchInv
<1> QED
  BY <1>1, <1>2 DEF FetchInv, FreshAfterFetch, FoundStaysResolvable

LEMMA ListTopicsStep ==
    ASSUME IInv, NEW p \in SUBSET Names, ListTopics(p)
    PROVE  IInv'
<1> USE DEF IInv, ListTopics
<1>1. TypeOK'
  BY DEF TypeOK, NextPage
<1>2. FetchInv'
  <2>1. page = {} /\ ~complete
    BY DEF FetchInv
  <2>2. listed' \ page' \subseteq listed \ page
    BY <2>1
  <2>3. ~more' => Exists' \subseteq listed'
    BY DEF NextPage
  <2> QED
    BY <2>1, <2>2, <2>3 DEF FetchInv
<1> QED
  BY <1>1, <1>2 DEF FreshAfterFetch, FoundStaysResolvable

LEMMA FetchFailsStep ==
    ASSUME IInv, FetchFails
    PROVE  IInv'
<1> USE DEF IInv, FetchFails
<1>1. TypeOK'
  BY DEF TypeOK
<1>2. FetchInv'
  BY DEF FetchInv
<1> QED
  BY <1>1, <1>2 DEF FreshAfterFetch, FoundStaysResolvable

LEMMA GetTopicAttributesStep ==
    ASSUME IInv, NEW n \in Names, GetTopicAttributes(n)
    PROVE  IInv'
<1> USE DEF IInv, GetTopicAttributes, Add
<1>1. TypeOK'
  BY DEF TypeOK
<1>2. cache'[n] = topic[n] /\ \A m \in Names \ {n} : cache'[m] = cache[m]
  BY DEF TypeOK
<1>3. ~complete /\ promised \subseteq Names
  BY DEF FetchInv, TypeOK
<1>4. FetchInv'
  BY <1>2, <1>3 DEF FetchInv
<1> QED
  BY <1>1, <1>2, <1>3, <1>4 DEF FreshAfterFetch, FoundStaysResolvable

LEMMA GetTopicAttributesFailsStep ==
    ASSUME IInv, NEW n \in Names, GetTopicAttributesFails(n)
    PROVE  IInv'
<1> USE DEF IInv, GetTopicAttributesFails
<1>1. TypeOK'
  BY DEF TypeOK
<1>2. ~complete
  BY DEF FetchInv
<1>3. FetchInv'
  BY <1>2 DEF FetchInv
<1> QED
  BY <1>1, <1>2, <1>3 DEF FreshAfterFetch, FoundStaysResolvable

LEMMA PageDoneStep ==
    ASSUME IInv, PageDone
    PROVE  IInv'
<1> USE DEF IInv, PageDone
<1>1. TypeOK'
  BY DEF TypeOK
<1>2. CASE more
  BY <1>1, <1>2 DEF FetchInv, FreshAfterFetch, FoundStaysResolvable
<1>3. CASE ~more
  <2>1. \A n \in (Exists \cap settled) \ unread : n \in listed \ page
    BY <1>3 DEF FetchInv
  <2>2. \A n \in (Exists \cap settled) \ unread : cache[n] = topic[n]
    BY <2>1 DEF FetchInv
  <2> QED
    BY <1>1, <1>3, <2>2 DEF FetchInv, FreshAfterFetch, FoundStaysResolvable
<1> QED
  BY <1>2, <1>3

LEMMA PublishStep ==
    ASSUME IInv, NEW r \in Rows, Publish(r)
    PROVE  IInv'
<1> USE DEF IInv
<1>1. UNCHANGED <<topic, changes, fetcher, history>>
  BY DEF Publish, RouteFails, LoadMisses, Load, SnsPublish
<1>2. outcome' \in [Rows -> {"none", "ok", "skip", "retry"}]
  BY DEF Publish, RouteFails, LoadMisses, Load, SnsPublish, Result, TypeOK
<1>3. \A m : Lookup(cache, m) \in KindOrNone
  BY DEF Lookup, TypeOK
<1>4. loaded' \in [Rows -> KindOrNone]
  BY <1>3 DEF Publish, RouteFails, LoadMisses, Load, SnsPublish, TypeOK
<1>5. TypeOK'
  BY <1>1, <1>2, <1>4 DEF TypeOK
<1> QED
  BY <1>1, <1>5 DEF FetchInv, FreshAfterFetch, FoundStaysResolvable

LEMMA IInvStep == IInv /\ [Next]_vars => IInv'
<1> SUFFICES ASSUME IInv, [Next]_vars PROVE IInv'
  OBVIOUS
<1>1. ASSUME NEW n \in Names, NEW k \in KindOrNone, Change(n, k) PROVE IInv'
  BY <1>1, ChangeStep
<1>2. CASE Fetch
  BY <1>2, RefetchTickStep, FetchFailsStep, PageDoneStep, ListTopicsStep,
     GetTopicAttributesStep, GetTopicAttributesFailsStep DEF Fetch
<1>3. ASSUME NEW r \in Rows, Publish(r) PROVE IInv'
  BY <1>3, PublishStep
<1>4. CASE UNCHANGED vars
  BY <1>4 DEF IInv, TypeOK, FetchInv, FreshAfterFetch, FoundStaysResolvable
<1> QED
  BY <1>1, <1>2, <1>3, <1>4 DEF Next

-----------------------------------------------------------------------------
\* Type correctness of the cache, the fetch and what Publish has loaded from
\* the cache, for any account and page size.
THEOREM TypeCorrect == Spec => []TypeOK
<1>1. IInv => TypeOK
  BY DEF IInv
<1> QED
  BY InitIInv, IInvStep, <1>1, PTL DEF Spec

\* awsSNS.FindResources over any number of pages: when it returns without an
\* error the cache agrees with the account on every topic that has not changed
\* meanwhile and that it could read.
THEOREM FreshSafe == Spec => []FreshAfterFetch
<1>1. IInv => FreshAfterFetch
  BY DEF IInv
<1> QED
  BY InitIInv, IInvStep, <1>1, PTL DEF Spec

\* A topic that a fetch has found stays in the store while later fetches run or
\* fail: publishEvent never skips its rows as unresolvable.
THEOREM ResolvableSafe == Spec => []FoundStaysResolvable
<1>1. IInv => FoundStaysResolvable
  BY DEF IInv
<1> QED
  BY InitIInv, IInvStep, <1>1, PTL DEF Spec

=============================================================================
