------------------------------ MODULE MCReload ------------------------------
(***************************************************************************)
(* TLC instance of Reload, with the startup that leads to it (Startup):    *)
(* contents are numbers, the workers are interchangeable, and so are the   *)
(* enrolments.  Contents 1 and 2 approve by TOTP, content 3 by an agent.   *)
(***************************************************************************)
EXTENDS Startup, TLC

MethodOf == [k \in Contents |-> IF k = 3 THEN "agent" ELSE "totp"]

Symmetry == Permutations(Conn) \cup Permutations(Enrolment)

=============================================================================
