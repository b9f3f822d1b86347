-------------------------- MODULE MCSwarmAdmission --------------------------
(* Small instances of SwarmAdmission for TLC. *)
EXTENDS SwarmAdmission

\* One slot, as server_state configures it.
MCAgentSpecs == {[max_concurrent |-> 1]}

\* Request 2 is urgent, request 1 has a deadline, and the last one gives up
\* waiting: the three ways a request can overtake or leave another.
MCPriority == [r \in Requests |-> IF r = 2 THEN 1 ELSE 0]
MCDeadline == [r \in Requests |-> IF r = 1 THEN {1} ELSE {}]
MCQueueTimeout == [r \in Requests |-> IF r = 2 THEN {1} ELSE {}]

SamePriority == [r \in Requests |-> 0]
AllDeadlines == [r \in Requests |-> {1}]
NoTimeout == [r \in Requests |-> {}]
MCTaskSpecs == {request_spec(r) : r \in Requests}
=============================================================================
