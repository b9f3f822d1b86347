-------------------------- MODULE MCSessionSelection --------------------------
(* prune_stale_sessions' selection for every small input, against what it promises. *)
EXTENDS SessionSelection

CONSTANTS Ids, MaxTime      \* namespace ids; times, lifetimes and caps are at most MaxTime

VARIABLES found, protect, policy, removed

inputs == <<found, protect, policy>>

NotYet == {0}               \* no namespace is numbered 0

SelectionInit ==
    /\ found \in UNION {[S -> 0..MaxTime] : S \in SUBSET Ids}
    /\ protect \in SUBSET Ids
    /\ policy \in [now : {MaxTime - 1}, ttl : 0..MaxTime, max : 0..MaxTime]
    /\ removed = NotYet

SelectionNext ==
    /\ removed' = Selected(found, protect, policy)
    /\ UNCHANGED inputs

SelectionSpec == SelectionInit /\ [][SelectionNext]_<<inputs, removed>>

\* What retention promises, without the order and the counter of the code: no protected
\* session goes; every expired one does; the cap holds unless only protected sessions are
\* left; and it takes others only down to the cap and never before an older one.
SelectionSound ==
    removed # NotYet =>
        LET kept == DOMAIN found \ removed
            Past(n) == policy.ttl # 0 /\ policy.now - found[n] >= policy.ttl
            capped == {n \in removed : ~Past(n)}
        IN /\ removed \subseteq DOMAIN found \ protect
           /\ \A n \in kept \ protect : ~Past(n)
           /\ policy.max = 0 => capped = {}
           /\ policy.max # 0 => Cardinality(kept) <= policy.max \/ kept \subseteq protect
           /\ capped # {} => Cardinality(kept) >= policy.max
           /\ \A n \in capped, m \in kept \ protect : found[n] <= found[m]
================================================================================
