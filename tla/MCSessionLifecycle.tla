-------------------------- MODULE MCSessionLifecycle --------------------------
(* The instances of SessionLifecycle that TLC checks. *)
EXTENDS SessionLifecycle, TLC

\* The threads are interchangeable.
MCSymmetry == Permutations(Requests)
================================================================================
