------------------------------- MODULE MCAgent -------------------------------
(***************************************************************************)
(* TLC instance of AgentChannel: agents and requests of one user, or a     *)
(* request of another one, who has no agent.                               *)
(***************************************************************************)
EXTENDS AgentChannel, TLC

OneUser  == [x \in Handle \cup Req |-> 1000]
Other    == CHOOSE r \in Req : TRUE
TwoUsers == [x \in Handle \cup Req |-> IF x = Other THEN 1001 ELSE 1000]

\* Of one user, the agents are interchangeable, and so are the requests.
Symmetry == {p \in Permutations(Handle) \cup Permutations(Req) :
               \A x \in DOMAIN p : Uid[p[x]] = Uid[x]}

=============================================================================
