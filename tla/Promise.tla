------------------------------ MODULE Promise ------------------------------
(***************************************************************************)
(* What sudixd promises of every request, with no word of threads, locks,  *)
(* files or clocks: a command is put to a human only when the policy       *)
(* permits it, it runs only when a human consented to that command under   *)
(* that rule, it runs once at most, and nothing happens to a request that  *)
(* is closed.                                                              *)
(*                                                                         *)
(* An order is a command with the rule that admits it.  A law is a policy  *)
(* the administrator has written; which orders a law permits to whom is a  *)
(* constant.                                                               *)
(***************************************************************************)
CONSTANTS
  Request,
  Order,
  NoOrder,
  Law,
  Permits     \* law -> request -> the orders it permits

VARIABLES
  laws,       \* what has been law so far
  phase,      \* how far each request is
  order,      \* what each request came to ask for
  consents,   \* the orders a human has consented to
  ran         \* the requests whose command was started

vars == <<laws, phase, order, consents, ran>>

Open == {"open", "admitted", "granted", "running"}

Init ==
  /\ laws \in SUBSET Law
  /\ phase = [r \in Request |-> "open"]
  /\ order = [r \in Request |-> NoOrder]
  /\ consents = {} /\ ran = {}

Advance(r, from, to) == phase[r] = from /\ phase' = [phase EXCEPT ![r] = to]

Legislate ==
  /\ \E k \in Law : laws' = laws \cup {k}
  /\ UNCHANGED <<phase, order, consents, ran>>

Admit(r) ==
  /\ Advance(r, "open", "admitted")
  /\ \E k \in laws : \E o \in Permits[k][r] : order' = [order EXCEPT ![r] = o]
  /\ UNCHANGED <<laws, consents, ran>>

Consent(r) ==
  /\ Advance(r, "admitted", "granted")
  /\ consents' = consents \cup {order[r]}
  /\ UNCHANGED <<laws, order, ran>>

Reuse(r) ==
  /\ Advance(r, "admitted", "granted")
  /\ order[r] \in consents
  /\ UNCHANGED <<laws, order, consents, ran>>

Run(r) ==
  /\ Advance(r, "granted", "running")
  /\ ran' = ran \cup {r}
  /\ UNCHANGED <<laws, order, consents>>

\* Requests are refused, answered, or lost with the daemon.
Close(R) ==
  /\ \A r \in R : phase[r] \in Open
  /\ phase' = [r \in Request |-> IF r \in R THEN "closed" ELSE phase[r]]
  /\ UNCHANGED <<laws, order, consents, ran>>

Next ==
  \/ Legislate
  \/ \E r \in Request : Admit(r) \/ Consent(r) \/ Reuse(r) \/ Run(r)
  \/ \E R \in SUBSET Request : Close(R)

Spec == Init /\ [][Next]_vars

=============================================================================
