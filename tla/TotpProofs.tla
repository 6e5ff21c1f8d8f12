----------------------------- MODULE TotpProofs -----------------------------
(***************************************************************************)
(* Proofs about Totp: for any skew and any number of requests, a time step *)
(* approves one request at most, and a code 2 * Skew + 2 at most.          *)
(***************************************************************************)
EXTENDS Totp, FiniteSetTheorems, TLAPS

LEMMA TotpInitType == Init => TotpTypeOK
BY TotpAssumption DEF Init, TotpTypeOK

LEMMA TotpStepType == TotpTypeOK /\ [Next]_vars => TotpTypeOK'
<1> SUFFICES ASSUME TotpTypeOK, [Next]_vars PROVE TotpTypeOK'
  OBVIOUS
<1> USE TotpAssumption
<1>1. CASE Tick
  BY <1>1 DEF Tick, TotpTypeOK
<1>2. CASE Restart
  BY <1>2 DEF Restart, TotpTypeOK
<1>3. ASSUME NEW r \in Req, Check(r) PROVE TotpTypeOK'
  BY <1>3 DEF Check, TotpTypeOK
<1>4. ASSUME NEW r \in Req, Consume(r) PROVE TotpTypeOK'
  BY <1>4 DEF Consume, TotpTypeOK
<1>5. CASE UNCHANGED vars
  BY <1>5 DEF vars, TotpTypeOK
<1> QED
  BY <1>1, <1>2, <1>3, <1>4, <1>5 DEF Next

-----------------------------------------------------------------------------
(***************************************************************************)
(* What an allowed request leaves behind: its counter, in used_counters.   *)
(* This is what keeps the counters apart.                                  *)
(***************************************************************************)
StepInv ==
  /\ TotpTypeOK
  /\ \A r \in recent : pc[r] = "allowed" /\ counter[r] \in used_counters
  /\ OnePerStep

LEMMA StepInvStep == StepInv /\ [Next]_vars => StepInv'
<1> SUFFICES ASSUME StepInv, [Next]_vars PROVE StepInv'
  OBVIOUS
<1>t. TotpTypeOK /\ TotpTypeOK'
  BY TotpStepType DEF StepInv
<1>1. CASE Tick
  BY <1>t, <1>1 DEF Tick, StepInv, OnePerStep
<1>2. CASE Restart
  BY <1>t, <1>2 DEF Restart, StepInv, OnePerStep
<1>3. ASSUME NEW r \in Req, Check(r) PROVE StepInv'
  <2>1. r \notin recent /\ recent' = recent /\ counter' = counter
        /\ used_counters' = used_counters
    BY <1>3 DEF Check, StepInv
  <2>2. \A q \in recent : pc'[q] = pc[q]
    BY <1>3, <1>t, <2>1 DEF Check, TotpTypeOK
  <2> QED
    BY <1>t, <2>1, <2>2 DEF StepInv, OnePerStep
<1>4. ASSUME NEW r \in Req, Consume(r) PROVE StepInv'
  <2>1. r \notin recent /\ recent \subseteq Req
    BY <1>4, <1>t DEF Consume, StepInv, TotpTypeOK
  <2>2. CASE step \in used_counters
    <3>1. recent' = recent /\ counter' = counter
          /\ used_counters \subseteq used_counters'
      BY <1>4, <2>2 DEF Consume
    <3>2. \A q \in recent : pc'[q] = pc[q]
      BY <1>4, <2>1, <2>2, <1>t DEF Consume, TotpTypeOK
    <3> QED
      BY <1>t, <3>1, <3>2 DEF StepInv, OnePerStep
  <2>3. CASE step \notin used_counters
    <3>1. /\ recent' = recent \cup {r}
          /\ counter' = [counter EXCEPT ![r] = step]
          /\ pc' = [pc EXCEPT ![r] = "allowed"]
          /\ used_counters' = used_counters \cup {step}
      BY <1>4, <2>3 DEF Consume
    <3>2. \A q \in recent : /\ counter'[q] = counter[q] /\ pc'[q] = pc[q]
                            /\ counter[q] # step
      BY <2>1, <2>3, <3>1, <1>t DEF StepInv, TotpTypeOK
    <3>3. counter'[r] = step /\ pc'[r] = "allowed"
      BY <3>1, <1>t DEF TotpTypeOK
    <3>4. OnePerStep'
      BY <3>1, <3>2, <3>3 DEF StepInv, OnePerStep
    <3>5. \A q \in recent' : pc'[q] = "allowed" /\ counter'[q] \in used_counters'
      BY <3>1, <3>2, <3>3 DEF StepInv
    <3> QED
      BY <1>t, <3>4, <3>5 DEF StepInv
  <2> QED
    BY <2>2, <2>3
<1>5. CASE UNCHANGED vars
  BY <1>t, <1>5 DEF vars, StepInv, OnePerStep
<1> QED
  BY <1>1, <1>2, <1>3, <1>4, <1>5 DEF Next

LEMMA StepInvInit == Init => StepInv
BY TotpInitType DEF Init, StepInv, OnePerStep

\* Types, and only the holder of the gate is between the two readings of the
\* clock (approval.rs:166-174, server.rs:496-513).
THEOREM TotpSafe == Spec => []TotpTypeOK
<1>1. StepInv => TotpTypeOK
  BY DEF StepInv
<1> QED
  BY <1>1, StepInvInit, StepInvStep, PTL DEF Spec

\* Whatever codes are tried, a time step approves at most one request, for as
\* long as the daemon runs (approval.rs:176-182).
THEOREM TotpOnePerStep == Spec => []OnePerStep
<1>1. StepInv => OnePerStep
  BY DEF StepInv
<1> QED
  BY <1>1, StepInvInit, StepInvStep, PTL DEF Spec

-----------------------------------------------------------------------------
(***************************************************************************)
(* How often a code is good: it is used no earlier than Skew steps before  *)
(* its own, and more than Skew steps after it by one request only, the one *)
(* that was checked in time and consumed too late.                         *)
(***************************************************************************)
Late(r) == counter[r] > code[r] + Skew

UseInv ==
  /\ StepInv
  /\ \A r \in Req : pc[r] = "checked" => code[r] \in Codes /\ step + Skew >= code[r]
  /\ \A r \in recent : code[r] \in Codes /\ counter[r] + Skew >= code[r]
  /\ \A r \in Req, q \in recent : pc[r] = "checked" /\ code[q] = code[r] => ~Late(q)
  /\ \A r, q \in recent : code[r] = code[q] /\ Late(r) /\ Late(q) => r = q

LEMMA UseInvInit == Init => UseInv
BY StepInvInit DEF Init, UseInv

LEMMA UseInvStep == UseInv /\ [Next]_vars => UseInv'
<1> SUFFICES ASSUME UseInv, [Next]_vars PROVE UseInv'
  OBVIOUS
<1>s. StepInv /\ StepInv'
  BY StepInvStep DEF UseInv
<1>t. /\ TotpTypeOK /\ TotpTypeOK' /\ Codes \subseteq Nat /\ Skew \in Nat
      /\ recent \subseteq Req /\ step \in Nat
      /\ counter \in [Req -> Nat] /\ code \in [Req -> Nat]
  BY <1>s, TotpAssumption DEF StepInv, TotpTypeOK, Codes, NoCode
<1>1. CASE Tick
  BY <1>s, <1>t, <1>1 DEF Tick, UseInv, Late
<1>2. CASE Restart
  <2>1. /\ recent' = {} /\ \A r \in Req : pc'[r] # "checked"
    BY <1>2, <1>t DEF Restart
  <2> QED
    BY <1>s, <2>1 DEF UseInv
<1>3. ASSUME NEW r \in Req, Check(r) PROVE UseInv'
  <2>1. /\ recent' = recent /\ counter' = counter /\ step' = step
        /\ r \notin recent
    BY <1>3, <1>s DEF Check, StepInv
  <2>2. \A q \in Req : pc[q] # "checked"
    <3>1. gate = NoReq
      BY <1>3 DEF Check
    <3> QED
      BY <3>1, <1>t, TotpAssumption DEF TotpTypeOK
  <2>3. \A q \in recent : code'[q] = code[q] /\ (Late(q)' <=> Late(q))
    BY <1>3, <1>t, <2>1 DEF Check, Late, TotpTypeOK
  <2>4. CASE pc' = [pc EXCEPT ![r] = "denied"]
    <3>1. \A q \in Req : pc'[q] # "checked"
      BY <2>2, <2>4, <1>t DEF TotpTypeOK
    <3> QED
      BY <1>s, <2>1, <2>3, <3>1 DEF UseInv
  <2>5. ASSUME NEW k \in Codes, Accepts(k), code' = [code EXCEPT ![r] = k],
               pc' = [pc EXCEPT ![r] = "checked"]
        PROVE  UseInv'
    <3>1. /\ code'[r] = k /\ \A q \in Req : pc'[q] = "checked" => q = r
      BY <2>2, <2>5, <1>t DEF TotpTypeOK
    <3>2. step + Skew >= k /\ step <= k + Skew
      BY <2>5, <1>t DEF Accepts
    <3>3. \A q \in recent : code[q] = k => ~Late(q)
      <4>1. \A q \in recent : counter[q] <= step
        BY <1>t DEF TotpTypeOK
      <4> QED
        BY <4>1, <3>2, <1>t DEF Late
    <3>4. \A q \in Req : pc'[q] = "checked" => code'[q] \in Codes /\ step' + Skew >= code'[q]
      BY <3>1, <3>2, <2>1
    <3>5. \A q \in recent' : code'[q] \in Codes /\ counter'[q] + Skew >= code'[q]
      BY <2>1, <2>3 DEF UseInv
    <3>6. \A q \in Req, p \in recent' : pc'[q] = "checked" /\ code'[p] = code'[q] => ~Late(p)'
      BY <2>1, <2>3, <3>1, <3>3
    <3>7. \A q, p \in recent' : code'[q] = code'[p] /\ Late(q)' /\ Late(p)' => q = p
      BY <2>1, <2>3 DEF UseInv
    <3> QED
      BY <1>s, <3>4, <3>5, <3>6, <3>7 DEF UseInv
  <2> QED
    BY <1>3, <2>4, <2>5 DEF Check
<1>4. ASSUME NEW r \in Req, Consume(r) PROVE UseInv'
  <2>1. /\ pc[r] = "checked" /\ r \notin recent /\ code' = code
        /\ step' = step
    BY <1>4, <1>s DEF Consume, StepInv
  <2>2. \A q \in Req : pc'[q] # "checked"
    BY <1>4, <1>t DEF Consume, TotpTypeOK
  <2>3. CASE step \in used_counters
    <3>1. recent' = recent /\ counter' = counter
      BY <1>4, <2>3 DEF Consume
    <3> QED
      BY <1>s, <2>1, <2>2, <3>1 DEF UseInv, Late
  <2>4. CASE step \notin used_counters
    <3>1. recent' = recent \cup {r} /\ counter' = [counter EXCEPT ![r] = step]
      BY <1>4, <2>4 DEF Consume
    <3>2. counter'[r] = step /\ \A q \in recent : counter'[q] = counter[q]
      BY <2>1, <3>1, <1>t
    <3>3. \A q \in recent : Late(q)' <=> Late(q)
      BY <2>1, <3>2 DEF Late
    <3>4. \A q \in recent : code[q] = code[r] => ~Late(q)'
      BY <2>1, <3>3 DEF UseInv
    <3>5. \A q \in recent' : code'[q] \in Codes /\ counter'[q] + Skew >= code'[q]
      BY <2>1, <3>1, <3>2 DEF UseInv
    <3>6. \A q, p \in recent' : code'[q] = code'[p] /\ Late(q)' /\ Late(p)' => q = p
      BY <2>1, <3>1, <3>3, <3>4 DEF UseInv
    <3> QED
      BY <1>s, <2>2, <3>5, <3>6 DEF UseInv
  <2> QED
    BY <2>3, <2>4
<1>5. CASE UNCHANGED vars
  BY <1>s, <1>5 DEF vars, UseInv, Late
<1> QED
  BY <1>1, <1>2, <1>3, <1>4, <1>5 DEF Next

\* The uses of a code have different places among the steps it is valid in and
\* one more, so there are no more uses than places.
LEMMA UsesBounded == UseInv => CodeReuseBounded
<1> SUFFICES ASSUME UseInv, NEW k \in Codes
             PROVE  Cardinality(CodeUses(k)) <= 2 * Skew + 2
  BY DEF CodeReuseBounded
<1> DEFINE S == k - Skew .. k + Skew + 1
           f == [r \in CodeUses(k) |-> IF Late(r) THEN k + Skew + 1 ELSE counter[r]]
<1>t. /\ k \in Nat /\ Skew \in Nat /\ CodeUses(k) \subseteq recent
      /\ \A r \in CodeUses(k) : /\ code[r] = k /\ counter[r] \in Nat
                                /\ counter[r] + Skew >= k
  <2>1. TotpTypeOK
    BY DEF UseInv, StepInv
  <2> QED
    BY <2>1, TotpAssumption DEF UseInv, CodeUses, TotpTypeOK, Codes
<1>1. IsFiniteSet(S) /\ Cardinality(S) = 2 * Skew + 2
  <2>1. k - Skew \in Int /\ k + Skew + 1 \in Int
    BY <1>t
  <2> QED
    BY <2>1, <1>t, FS_Interval
<1>2. f \in [CodeUses(k) -> S]
  BY <1>t DEF Late
<1>3. ASSUME NEW r \in CodeUses(k), NEW q \in CodeUses(k), f[r] = f[q] PROVE r = q
  <2>1. CASE Late(r) /\ Late(q)
    BY <2>1, <1>t DEF UseInv
  <2>2. CASE ~Late(r) /\ ~Late(q)
    <3>1. counter[r] = counter[q]
      BY <2>2, <1>3
    <3> QED
      BY <3>1, <1>t DEF UseInv, StepInv, OnePerStep
  <2>3. CASE Late(r) /\ ~Late(q)
    BY <2>3, <1>3, <1>t DEF Late
  <2>4. CASE ~Late(r) /\ Late(q)
    BY <2>4, <1>3, <1>t DEF Late
  <2> QED
    BY <2>1, <2>2, <2>3, <2>4
<1>4. f \in Injection(CodeUses(k), S)
  BY <1>2, <1>3, Zenon DEF Injection, IsInjective
<1>5. Cardinality(CodeUses(k)) <= Cardinality(S)
  BY <1>1, <1>4, FS_Injection, Zenon
<1> QED
  BY <1>1, <1>5

\* As long as the daemon runs, a code approves 2 * Skew + 2 requests at most
\* (approval.rs:166-182, server.rs:275-278).
THEOREM TotpCodeReuse == Spec => []CodeReuseBounded
BY UsesBounded, UseInvInit, UseInvStep, PTL DEF Spec

=============================================================================
