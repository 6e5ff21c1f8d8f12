-------------------------------- MODULE Totp --------------------------------
(***************************************************************************)
(* Approval by a one-time code (approval.rs:TotpApprover).  Time is the    *)
(* number of the 30-second step; the code of step k is k itself, and       *)
(* check_current accepts the codes within Skew steps of now (TOTP::new is  *)
(* given a skew of 1).  approve() reads the clock a second time to find    *)
(* the counter it marks as used.  Requests are served one at a time, under *)
(* the approval gate of serve_on (server.rs:496-513).                      *)
(***************************************************************************)
EXTENDS Naturals, FiniteSets

CONSTANTS
  Req,        \* requests for approval
  NoReq,      \* nobody holds the gate
  Skew,       \* steps a code is valid before and after its own
  MaxStep,    \* bound on the clock
  Restarts    \* may the daemon restart?

ASSUME TotpAssumption ==
  /\ NoReq \notin Req
  /\ Skew \in Nat /\ MaxStep \in Nat /\ Restarts \in BOOLEAN

Codes  == 0 .. MaxStep + Skew   \* a code, by its step
NoCode == MaxStep + Skew + 1    \* no code, or one that is not accepted

VARIABLES
  step,           \* the current time step
  used_counters,  \* TotpApprover::used_counters
  gate,           \* the request inside approve()
  code,           \* the step of the accepted code each request carries
  pc,             \* where each request is
  \* History variables.
  counter,        \* the counter each allowed request consumed
  recent          \* the requests allowed since the daemon started

vars == <<step, used_counters, gate, code, pc, counter, recent>>

\* Types; only the holder of the gate is between the two readings of the clock.
TotpTypeOK ==
  /\ step \in Nat
  /\ used_counters \in SUBSET (0 .. step)
  /\ gate \in Req \cup {NoReq}
  /\ code \in [Req -> Codes \cup {NoCode}]
  /\ pc \in [Req -> {"new", "checked", "allowed", "denied", "lost"}]
  /\ counter \in [Req -> 0 .. step]
  /\ recent \in SUBSET Req
  /\ \A r \in Req : pc[r] = "checked" <=> gate = r

Init ==
  /\ step = 0 /\ used_counters = {} /\ gate = NoReq
  /\ code = [r \in Req |-> NoCode]
  /\ pc = [r \in Req |-> "new"]
  /\ counter = [r \in Req |-> 0]
  /\ recent = {}

Tick ==
  /\ step < MaxStep
  /\ step' = step + 1
  /\ UNCHANGED <<used_counters, gate, code, pc, counter, recent>>

\* The code of step k at the present step.
Accepts(k) == k <= step + Skew /\ step <= k + Skew

\* Mutant of Check: requests are not served one at a time.
Check_NoGate(r) ==
  /\ pc[r] = "new"
  /\ \/ \E k \in Codes :
          /\ Accepts(k)
          /\ code' = [code EXCEPT ![r] = k]
          /\ pc' = [pc EXCEPT ![r] = "checked"]
     \/ pc' = [pc EXCEPT ![r] = "denied"] /\ UNCHANGED code
  /\ UNCHANGED <<step, used_counters, gate, counter, recent>>

\* The first half of approve(): the code is checked against the clock.
Check(r) ==
  /\ pc[r] = "new" /\ gate = NoReq
  /\ \/ \E k \in Codes :
          /\ Accepts(k)
          /\ code' = [code EXCEPT ![r] = k]
          /\ pc' = [pc EXCEPT ![r] = "checked"] /\ gate' = r
     \/ pc' = [pc EXCEPT ![r] = "denied"] /\ UNCHANGED <<code, gate>>
  /\ UNCHANGED <<step, used_counters, counter, recent>>

\* Mutant of Consume: the counter is looked up and never recorded.
Consume_Forgets(r) ==
  /\ pc[r] = "checked"
  /\ IF step \in used_counters
     THEN pc' = [pc EXCEPT ![r] = "denied"] /\ UNCHANGED <<counter, recent>>
     ELSE /\ pc' = [pc EXCEPT ![r] = "allowed"]
          /\ counter' = [counter EXCEPT ![r] = step]
          /\ recent' = recent \cup {r}
  /\ gate' = NoReq
  /\ UNCHANGED <<step, used_counters, code>>

\* Mutant of Consume: a refused request does not leave the gate.
Consume_KeepsGate(r) ==
  /\ pc[r] = "checked"
  /\ used_counters' = used_counters \cup {step}
  /\ IF step \in used_counters
     THEN pc' = [pc EXCEPT ![r] = "denied"] /\ UNCHANGED <<counter, recent, gate>>
     ELSE /\ pc' = [pc EXCEPT ![r] = "allowed"]
          /\ counter' = [counter EXCEPT ![r] = step]
          /\ recent' = recent \cup {r}
          /\ gate' = NoReq
  /\ UNCHANGED <<step, code>>

\* The second half: the counter of the step it is by now is consumed.
Consume(r) ==
  /\ pc[r] = "checked"
  /\ used_counters' = used_counters \cup {step}
  /\ gate' = NoReq
  /\ IF step \in used_counters
     THEN pc' = [pc EXCEPT ![r] = "denied"] /\ UNCHANGED <<counter, recent>>
     ELSE /\ pc' = [pc EXCEPT ![r] = "allowed"]
          /\ counter' = [counter EXCEPT ![r] = step]
          /\ recent' = recent \cup {r}
  /\ UNCHANGED <<step, code>>

\* used_counters is only in memory.
Restart ==
  /\ Restarts
  /\ used_counters' = {} /\ gate' = NoReq /\ recent' = {}
  /\ pc' = [r \in Req |-> IF pc[r] = "checked" THEN "lost" ELSE pc[r]]
  /\ UNCHANGED <<step, code, counter>>

Next == \/ Tick \/ Restart
        \/ \E r \in Req : Check(r) \/ Consume(r)

Spec == Init /\ [][Next]_vars

-----------------------------------------------------------------------------
(* Properties. *)

Allowed == {r \in Req : pc[r] = "allowed"}

\* Whatever codes are tried, a time step approves at most one request, for as
\* long as the daemon runs (approval.rs:176-182).
OnePerStep ==
  \A r, q \in recent : counter[r] = counter[q] => r = q

\* As long as the daemon runs, the code of one step may approve several
\* requests, but only so many: one in each of the 2 * Skew + 1 steps it is valid
\* in, and one more that was checked in the last of them and consumed a later
\* one.  The gate keeps it at one (approval.rs:166-182, server.rs:275-278).
CodeUses(k) == {r \in recent : code[r] = k}
CodeReuseBounded ==
  \A k \in Codes : Cardinality(CodeUses(k)) <= 2 * Skew + 2

\* "Each code is accepted at most once" (approval.rs:120).
CodeOnce == \A r, q \in Allowed : code[r] = code[q] => r = q

=============================================================================
