------------------------------ MODULE MCBroker ------------------------------
(***************************************************************************)
(* TLC instance of Broker.  The policies are rules of module Policy, so    *)
(* that the verdicts the broker works with are those of the real           *)
(* evaluation:                                                             *)
(*   content 1: rule 1 admits `id`, cached for 1 s, 1 per window            *)
(*              rule 2 admits anything but mkfs, never cached, not capped  *)
(*   content 2: the first rule is gone: rule 1 admits anything but mkfs,   *)
(*              cached for 1 s, not capped                                 *)
(*   content 3: rule 1 admits anything, cached for 1 s, 2 per window       *)
(*   content 4: rule 1 admits anything, cached for 1 s, 1 per window.      *)
(***************************************************************************)
EXTENDS Broker, TLC

CONSTANTS id, ls, mkfs   \* commands of one token

Tokens == {id, ls, mkfs}

P == INSTANCE Policy WITH Token <- Tokens, Control <- {},
                          Basename <- [t \in Tokens |-> t]

Empty  == <<>>
Argvs  == {Empty, <<id>>, <<ls>>}
ArgvsA == {Empty, <<id>>}

Deny == << <<P!Literal(mkfs), P!Rest>> >>
PolicyOf ==
  (1 :> [deny |-> Deny, allow |-> << <<P!Literal(id)>>, <<P!Rest>> >>]) @@
  (2 :> [deny |-> Deny, allow |-> << <<P!Rest>> >>]) @@
  (3 :> [deny |-> <<>>, allow |-> << <<P!Rest>> >>]) @@
  (4 :> [deny |-> <<>>, allow |-> << <<P!Rest>> >>])

Verdicts == [k \in Contents |-> [a \in Argv |-> P!Evaluate(PolicyOf[k], a)]]
MCScopes ==
  (1 :> (1 :> [ttl |-> 1, rate |-> 1] @@ 2 :> [ttl |-> 0, rate |-> 0])) @@
  (2 :> (1 :> [ttl |-> 1, rate |-> 0] @@ 2 :> [ttl |-> 0, rate |-> 0])) @@
  (3 :> (1 :> [ttl |-> 1, rate |-> 2] @@ 2 :> [ttl |-> 0, rate |-> 0])) @@
  (4 :> (1 :> [ttl |-> 1, rate |-> 1] @@ 2 :> [ttl |-> 0, rate |-> 0]))
ScopesOf == [k \in Contents |-> MCScopes[k]]

\* The uid 1000 may ask, under content 2 the uid 1001 too.
AgentUidsOf == [k \in Contents |-> IF k = 2 THEN {1000, 1001} ELSE {1000}]
SameUid     == [c \in Conn |-> 1000]
TwoUids     == [c \in Conn |-> IF c = CHOOSE d \in Conn : TRUE THEN 1001 ELSE 1000]

Symmetry == Permutations(Conn)
\* No rule of content 4 tells the two commands apart.
SymmetryOfFour == Symmetry \cup Permutations({id, ls})

=============================================================================
