--------------------------- MODULE SessionSelection ---------------------------
(***************************************************************************)
(* Which sessions prune_stale_sessions removes.  found gives the last use  *)
(* of every session the scan accepted, by namespace id; protect is the set *)
(* of protected namespaces; policy has the time of the pass, the lifetime  *)
(* and the cap, where 0 means none.                                        *)
(***************************************************************************)
EXTENDS Integers, Sequences, FiniteSets, SequencesExt

\* Least recently used first; ties by namespace id.
Older(found, m, n) ==
    \/ found[m] < found[n]
    \/ found[m] = found[n] /\ m < n

\* Past their lifetime.  A session used since the pass read the clock is not.
Expired(found, protect, policy) ==
    {n \in DOMAIN found \ protect :
        policy.ttl # 0 /\ found[n] <= policy.now /\ policy.now - found[n] >= policy.ttl}

\* Mutant: the cap counts the sessions that were found, expired ones included.
Projected_CountsExpired(found, expired) == Cardinality(DOMAIN found)

\* What expiry leaves.
Projected(found, expired) == Cardinality(DOMAIN found) - Cardinality(expired)

\* The expired sessions, then the oldest of the others until no more than the cap are
\* left.  Protected sessions count but are never taken.
Selected(found, protect, policy) ==
    LET expired == Expired(found, protect, policy)
        Take(acc, n) ==
            IF acc.projected <= policy.max \/ n \in protect \union acc.remove
            THEN acc
            ELSE [remove |-> acc.remove \union {n}, projected |-> acc.projected - 1]
        start == [remove |-> expired, projected |-> Projected(found, expired)]
        oldestFirst == SetToSortSeq(DOMAIN found, LAMBDA m, n : Older(found, m, n))
    IN IF policy.max = 0 THEN expired ELSE FoldLeft(Take, start, oldestFirst).remove

================================================================================
