--------------------------------- MODULE RN ---------------------------------
(***************************************************************************)
(* Resource names (pkg/internal/rn) and the key under which the backends   *)
(* look a destination up.  A string is the sequence of its parts between   *)
(* colons; how the parts are spelled does not matter.                      *)
(***************************************************************************)
EXTENDS Integers, Sequences

rnSections == 6
sectionService == 3    \* sections[2] in the code, which counts from 0
sectionResource == 6

isPrefix(rn) == Len(rn) >= 2 /\ rn[1] \in {"rn", "arn"}
IsRN(rn) == isPrefix(rn) /\ Len(rn) >= rnSections

\* Parse of a string with IsRN.  SplitN leaves further colons in the resource.
Service(rn) == rn[sectionService]
Resource(rn) == SubSeq(rn, sectionResource, Len(rn))

\* The key of the topic cache: the resource, or the whole string when there is
\* none.
CacheKey(aggregateType) ==
    IF IsRN(aggregateType) /\ Resource(aggregateType) # <<"">>
      THEN Resource(aggregateType)
      ELSE aggregateType

=============================================================================
