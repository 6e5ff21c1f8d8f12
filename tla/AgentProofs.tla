----------------------------- MODULE AgentProofs -----------------------------
(***************************************************************************)
(* Proofs about AgentChannel, for any number of agents, users and requests *)
(* and any number of slots.                                                *)
(***************************************************************************)
EXTENDS AgentChannel, FiniteSetTheorems, TLAPS

(***************************************************************************)
(* What waits for a slot is queued, and queued once.                       *)
(***************************************************************************)
Queued == {h \in Handle : hstate[h] = "queued"} \cup {r \in Req : rstate[r] = "queued"}

QueueInv ==
  /\ \A i \in 1 .. Len(backlog) : backlog[i] \in Queued
  /\ \A i, j \in 1 .. Len(backlog) : backlog[i] = backlog[j] => i = j

Pool == IsFiniteSet(Threads) /\ SlotsExact

ChannelInv ==
  /\ AgentTypeOK
  /\ QueueInv
  /\ GateAroundPrompt
  /\ RegistryServed
  /\ Pool

-----------------------------------------------------------------------------
LEMMA HeadType ==
  ASSUME NEW S, NEW s \in Seq(S), s # <<>> PROVE Head(s) \in S
OBVIOUS

LEMMA EmptyType == ASSUME NEW S PROVE <<>> \in Seq(S)
OBVIOUS

LEMMA AppendType ==
  ASSUME NEW S, NEW s \in Seq(S), NEW e \in S PROVE Append(s, e) \in Seq(S)
OBVIOUS

(* Threads that come and go. *)

LEMMA PoolLeft ==
  ASSUME Pool, NEW x \in Threads, Threads' = Threads \ {x}, slots' = slots - 1,
         slots \in Nat
  PROVE  Pool' /\ slots' \in Nat
<1>1. /\ IsFiniteSet(Threads \ {x})
      /\ Cardinality(Threads \ {x}) = Cardinality(Threads) - 1
  BY FS_RemoveElement DEF Pool
<1>2. Cardinality(Threads \ {x}) \in Nat
  BY <1>1, FS_CardinalityType
<1>3. slots' = Cardinality(Threads') /\ Cardinality(Threads') \in Nat
  BY <1>1, <1>2 DEF Pool, SlotsExact
<1>4. slots' <= MaxConcurrent
  <2>1. slots = slots' + 1 /\ slots' \in Nat /\ slots <= MaxConcurrent
    BY <1>1, <1>2, <1>3 DEF Pool, SlotsExact
  <2> QED
    BY <2>1, AgentChannelAssumption
<1> QED
  BY <1>1, <1>3, <1>4 DEF Pool, SlotsExact

LEMMA PoolJoined ==
  ASSUME Pool, NEW x, x \notin Threads, slots < MaxConcurrent,
         Threads' = Threads \cup {x}, slots' = slots + 1
  PROVE  Pool' /\ slots' \in Nat
<1>1. /\ IsFiniteSet(Threads \cup {x})
      /\ Cardinality(Threads \cup {x}) = Cardinality(Threads) + 1
  BY FS_AddElement DEF Pool
<1>2. Cardinality(Threads) \in Nat
  BY FS_CardinalityType DEF Pool
<1> QED
  BY <1>1, <1>2, AgentChannelAssumption DEF Pool, SlotsExact

LEMMA PoolKept ==
  ASSUME Pool, Threads' = Threads, slots' = slots
  PROVE  Pool'
BY DEF Pool, SlotsExact

\* A request that goes on keeps its slot, one that returns leaves it.
LEMMA RequestThreads ==
  ASSUME AgentTypeOK, NEW r \in Req, rstate[r] \in ReqActive, UNCHANGED hstate,
         NEW s, rstate' = [rstate EXCEPT ![r] = s]
  PROVE  /\ s \in ReqActive => Threads' = Threads
         /\ s = "done" => Threads' = Threads \ {r}
         /\ r \in Threads
<1>1. rstate \in [Req -> {"none", "queued", "done"} \cup ReqActive] /\ r \notin Handle
  BY AgentChannelAssumption DEF AgentTypeOK
<1> QED
  BY <1>1 DEF Threads, ReqActive

\* A request in its middle is not in the queue: moving it leaves the queue alone.
LEMMA RequestQueue ==
  ASSUME AgentTypeOK, QueueInv, NEW r \in Req, rstate[r] \in ReqActive,
         UNCHANGED <<hstate, backlog>>, NEW s \in ReqActive \cup {"done"},
         rstate' = [rstate EXCEPT ![r] = s]
  PROVE  QueueInv'
<1>1. Queued' = Queued
  BY DEF Queued, ReqActive, AgentTypeOK
<1> QED
  BY <1>1 DEF QueueInv

-----------------------------------------------------------------------------
LEMMA ChannelInit == Init => ChannelInv
<1> SUFFICES ASSUME Init PROVE ChannelInv
  OBVIOUS
<1>1. Threads = {}
  BY DEF Init, Threads, HandleActive, ReqActive
<1>2. Pool
  BY <1>1, FS_EmptySet, AgentChannelAssumption DEF Init, Pool, SlotsExact
<1>3. AgentTypeOK
  BY AgentChannelAssumption DEF Init, AgentTypeOK, Answers
<1>4. QueueInv
  BY DEF Init, QueueInv
<1>5. GateAroundPrompt /\ RegistryServed
  BY AgentChannelAssumption DEF Init, GateAroundPrompt, RegistryServed
<1> QED
  BY <1>2, <1>3, <1>4, <1>5 DEF ChannelInv

\* Steps of requests.
LEMMA SeekStep ==
  ASSUME ChannelInv, NEW r \in Req, Seek(r) \/ WaitTimesOut(r) PROVE ChannelInv'
<1>t. AgentTypeOK /\ QueueInv /\ Pool
  BY DEF ChannelInv
<1>1. PICK s \in {"have", "waiting", "timedout"} : rstate' = [rstate EXCEPT ![r] = s]
  BY DEF Seek, WaitTimesOut
<1>2. rstate[r] \in {"seek", "waiting"} /\ UNCHANGED <<daemonVars, agentVars, result, source>>
  BY DEF Seek, WaitTimesOut
<1>3. rstate[r] \in ReqActive /\ s \in ReqActive
  BY <1>1, <1>2 DEF ReqActive
<1>4. Pool' /\ QueueInv'
  BY <1>t, <1>1, <1>2, <1>3, RequestThreads, RequestQueue, PoolKept DEF daemonVars
<1>5. AgentTypeOK'
  <2>1. CASE handle' = handle /\ s # "have"
    BY <2>1, <1>t, <1>1, <1>2, <1>3 DEF AgentTypeOK, daemonVars, agentVars
  <2>2. CASE handle' = [handle EXCEPT ![r] = registry[Uid[r]]] /\ registry[Uid[r]] # None
             /\ s = "have"
    <3>1. Uid[r] \in Uids
      BY DEF Uids
    <3>2. registry[Uid[r]] \in Handle /\ Uid[registry[Uid[r]]] = Uid[r]
      BY <3>1, <2>2, <1>t DEF AgentTypeOK
    <3> QED
      BY <2>2, <3>2, <1>t, <1>1, <1>2, <1>3, AgentChannelAssumption
         DEF AgentTypeOK, daemonVars, agentVars
  <2> QED
    BY <2>1, <2>2, <1>1, <1>t DEF Seek, WaitTimesOut, AgentTypeOK
<1>6. GateAroundPrompt'
  BY <1>t, <1>1, <1>2 DEF ChannelInv, GateAroundPrompt, daemonVars, AgentTypeOK
<1>7. RegistryServed'
  BY <1>2 DEF ChannelInv, RegistryServed, daemonVars
<1> QED
  BY <1>4, <1>5, <1>6, <1>7 DEF ChannelInv

LEMMA GateStep ==
  ASSUME ChannelInv, NEW r \in Req, TakeGate(r) \/ Send(r) PROVE ChannelInv'
<1>t. AgentTypeOK /\ QueueInv /\ Pool
  BY DEF ChannelInv
<1>1. PICK s \in {"prompt", "await"} : rstate' = [rstate EXCEPT ![r] = s]
  BY DEF TakeGate, Send
<1>2. /\ rstate[r] \in {"have", "prompt"}
      /\ UNCHANGED <<backlog, slots, registry, hstate, broken, open, showing, verdicts,
                     answered, handle, result, source>>
  BY DEF TakeGate, Send, daemonVars, agentVars
<1>3. rstate[r] \in ReqActive /\ s \in ReqActive
  BY <1>1, <1>2 DEF ReqActive
<1>4. Pool' /\ QueueInv'
  BY <1>t, <1>1, <1>2, <1>3, RequestThreads, RequestQueue, PoolKept
<1>5. prompts' \in [Handle -> Seq(Req)] /\ gate' \in Req \cup {None}
  <2>1. CASE TakeGate(r)
    BY <2>1, <1>t DEF TakeGate, AgentTypeOK, agentVars
  <2>2. CASE Send(r)
    <3>1. handle[r] \in Handle
      BY <2>2, <1>t DEF Send, AgentTypeOK
    <3>2. Append(prompts[handle[r]], r) \in Seq(Req)
      BY <3>1, <1>t DEF AgentTypeOK
    <3> QED
      BY <3>2, <2>2, <1>t DEF Send, AgentTypeOK, daemonVars
  <2> QED
    BY <2>1, <2>2
<1>6. AgentTypeOK'
  BY <1>t, <1>1, <1>2, <1>3, <1>5 DEF AgentTypeOK
<1>7. GateAroundPrompt'
  <2>1. CASE TakeGate(r)
    BY <2>1, <1>t, AgentChannelAssumption DEF TakeGate, ChannelInv, GateAroundPrompt, AgentTypeOK
  <2>2. CASE Send(r)
    BY <2>2, <1>t DEF Send, ChannelInv, GateAroundPrompt, AgentTypeOK, daemonVars
  <2> QED
    BY <2>1, <2>2
<1>8. RegistryServed'
  BY <1>2 DEF ChannelInv, RegistryServed
<1> QED
  BY <1>4, <1>6, <1>7, <1>8 DEF ChannelInv

\* Every way approve() returns.
Returns(r) ==
  GiveUp(r) \/ SendFails(r) \/ ReadVerdict(r) \/ ReadEof(r) \/ ReadTimesOut(r)

LEMMA ReturnStep ==
  ASSUME ChannelInv, NEW r \in Req, Returns(r) PROVE ChannelInv'
<1>t. AgentTypeOK /\ QueueInv /\ Pool
  BY DEF ChannelInv
<1>1. /\ rstate[r] \in {"timedout", "prompt", "await"}
      /\ rstate' = [rstate EXCEPT ![r] = "done"] /\ slots' = slots - 1
      /\ UNCHANGED <<backlog, registry, hstate, open, prompts, showing, answered, handle>>
  BY DEF Returns, GiveUp, SendFails, ReadVerdict, ReadEof, ReadTimesOut, Broken, Return,
         agentVars
<1>2. rstate[r] \in ReqActive
  BY <1>1 DEF ReqActive
<1>3. Pool' /\ slots' \in Nat
  BY <1>t, <1>1, <1>2, RequestThreads, PoolLeft DEF AgentTypeOK
<1>4. QueueInv'
  BY <1>t, <1>1, <1>2, RequestQueue
<1>5. /\ broken' \in [Handle -> BOOLEAN]
      /\ verdicts' \in [Handle -> Seq([req : Req, answer : Answers])]
      /\ result' \in [Req -> {"none"} \cup Answers]
      /\ source' \in [Req -> Req \cup {None}]
  <2>1. CASE GiveUp(r)
    BY <2>1, <1>t DEF GiveUp, Return, agentVars, AgentTypeOK, Answers
  <2>2. CASE Broken(r)
    BY <2>2, <1>t DEF Broken, Return, agentVars, AgentTypeOK, Answers
  <2>3. CASE ReadVerdict(r)
    <3>1. handle[r] \in Handle
      BY <2>3, <1>t DEF ReadVerdict, AgentTypeOK
    <3>2. /\ verdicts[handle[r]] \in Seq([req : Req, answer : Answers])
          /\ verdicts[handle[r]] # <<>>
      BY <3>1, <2>3, <1>t DEF ReadVerdict, AgentTypeOK
    <3>3. Head(verdicts[handle[r]]) \in [req : Req, answer : Answers]
      BY <3>2, HeadType
    <3>4. /\ Head(verdicts[handle[r]]).answer \in Answers
          /\ Head(verdicts[handle[r]]).req \in Req
      BY <3>3
    <3>5. result' \in [Req -> {"none"} \cup Answers] /\ source' \in [Req -> Req \cup {None}]
      BY <3>4, <2>3, <1>t DEF ReadVerdict, Return, AgentTypeOK
    <3>6. broken' \in [Handle -> BOOLEAN]
      BY <2>3, <1>t DEF ReadVerdict, AgentTypeOK
    <3>7. verdicts' \in [Handle -> Seq([req : Req, answer : Answers])]
      <4>1. verdicts' = [verdicts EXCEPT ![handle[r]] = <<>>]
        BY <2>3 DEF ReadVerdict
      <4> QED
        BY <4>1, <3>1, <1>t, EmptyType DEF AgentTypeOK
    <3> QED
      BY <3>5, <3>6, <3>7
  <2> QED
    BY <2>1, <2>2, <2>3 DEF Returns, SendFails, ReadEof, ReadTimesOut
<1>6. gate' \in {gate, None} /\ (gate' = None <=> gate \in {None, r})
  BY <1>t, <1>1, AgentChannelAssumption
     DEF Returns, GiveUp, SendFails, ReadVerdict, ReadEof, ReadTimesOut, Broken, Return,
         ChannelInv, GateAroundPrompt
<1>7. AgentTypeOK'
  BY <1>t, <1>1, <1>3, <1>5, <1>6 DEF AgentTypeOK
<1>8. GateAroundPrompt'
  BY <1>t, <1>1, <1>6, AgentChannelAssumption DEF ChannelInv, GateAroundPrompt, AgentTypeOK
<1>9. RegistryServed'
  BY <1>1 DEF ChannelInv, RegistryServed
<1> QED
  BY <1>3, <1>4, <1>7, <1>8, <1>9 DEF ChannelInv

-----------------------------------------------------------------------------
(* Connections. *)

\* A connection that joins the queue was not in it.
LEMMA QueueJoined ==
  ASSUME AgentTypeOK, QueueInv, NEW x \in Handle \cup Req, x \notin Queued,
         Queued' = Queued \cup {x},
         backlog' = Append(backlog, x)
  PROVE  QueueInv'
<1>1. backlog \in Seq(Handle \cup Req)
  BY DEF AgentTypeOK
<1>2. /\ Len(backlog') = Len(backlog) + 1 /\ Len(backlog) \in Nat
      /\ backlog'[Len(backlog) + 1] = x
      /\ \A i \in 1 .. Len(backlog) : backlog'[i] = backlog[i] /\ backlog[i] \in Handle \cup Req
  BY <1>1
<1>3. \A i \in 1 .. Len(backlog) : backlog[i] \in Queued /\ backlog[i] # x
  BY DEF QueueInv
<1>4. \A i \in 1 .. Len(backlog') : i \in 1 .. Len(backlog) \/ i = Len(backlog) + 1
  BY <1>2
<1>5. ASSUME NEW i \in 1 .. Len(backlog') PROVE backlog'[i] \in Queued'
  BY <1>2, <1>3, <1>4
<1>6. ASSUME NEW i \in 1 .. Len(backlog'), NEW j \in 1 .. Len(backlog'),
             backlog'[i] = backlog'[j]
      PROVE  i = j
  BY <1>2, <1>3, <1>4, <1>6 DEF QueueInv
<1> QED
  BY <1>5, <1>6 DEF QueueInv

LEMMA ConnectStep ==
  ASSUME ChannelInv, NEW h \in Handle, AgentConnects(h) PROVE ChannelInv'
<1>t. AgentTypeOK /\ QueueInv /\ Pool /\ RegistryServed /\ GateAroundPrompt
  BY DEF ChannelInv
<1>1. Threads' = Threads /\ slots' = slots
  BY <1>t DEF AgentConnects, Threads, HandleActive, reqVars, AgentTypeOK
<1>2. QueueInv'
  <2>1. h \notin Queued
    BY AgentChannelAssumption DEF AgentConnects, Queued
  <2>2. Queued' = Queued \cup {h}
    BY <1>t DEF AgentConnects, Queued, reqVars, AgentTypeOK
  <2> QED
    BY <2>1, <2>2, <1>t, QueueJoined DEF AgentConnects
<1>3. AgentTypeOK'
  <2>1. backlog' \in Seq(Handle \cup Req)
    BY <1>t DEF AgentConnects, AgentTypeOK
  <2> QED
    BY <2>1, <1>t DEF AgentConnects, AgentTypeOK, reqVars
<1>4. GateAroundPrompt'
  BY <1>t DEF AgentConnects, reqVars, GateAroundPrompt
<1>5. RegistryServed'
  BY <1>t DEF AgentConnects, RegistryServed, AgentTypeOK
<1> QED
  BY <1>1, <1>2, <1>3, <1>4, <1>5, <1>t, PoolKept DEF ChannelInv

LEMMA ArriveStep ==
  ASSUME ChannelInv, NEW r \in Req, RequestArrives(r) PROVE ChannelInv'
<1>t. AgentTypeOK /\ QueueInv /\ Pool /\ RegistryServed /\ GateAroundPrompt
  BY DEF ChannelInv
<1>1. Threads' = Threads /\ slots' = slots
  BY <1>t DEF RequestArrives, Threads, ReqActive, AgentTypeOK
<1>2. QueueInv'
  <2>1. r \notin Queued
    BY AgentChannelAssumption DEF RequestArrives, Queued
  <2>2. Queued' = Queued \cup {r}
    BY <1>t DEF RequestArrives, Queued, AgentTypeOK
  <2> QED
    BY <2>1, <2>2, <1>t, QueueJoined DEF RequestArrives
<1>3. AgentTypeOK'
  <2>1. backlog' \in Seq(Handle \cup Req)
    BY <1>t DEF RequestArrives, AgentTypeOK
  <2> QED
    BY <2>1, <1>t DEF RequestArrives, AgentTypeOK, agentVars
<1>4. GateAroundPrompt'
  BY <1>t DEF RequestArrives, GateAroundPrompt, AgentTypeOK
<1>5. RegistryServed'
  BY <1>t DEF RequestArrives, RegistryServed
<1> QED
  BY <1>1, <1>2, <1>3, <1>4, <1>5, <1>t, PoolKept DEF ChannelInv

LEMMA DispatchStep ==
  ASSUME ChannelInv, Dispatch PROVE ChannelInv'
<1> DEFINE x == Head(backlog)
<1>t. AgentTypeOK /\ QueueInv /\ Pool /\ RegistryServed /\ GateAroundPrompt
  BY DEF ChannelInv
<1>1. backlog \in Seq(Handle \cup Req) /\ backlog # <<>>
  BY <1>t DEF AgentTypeOK, Dispatch
<1>2. /\ Len(backlog) \in Nat \ {0} /\ x = backlog[1] /\ x \in Handle \cup Req
      /\ Tail(backlog) \in Seq(Handle \cup Req)
      /\ Len(Tail(backlog)) = Len(backlog) - 1
      /\ \A i \in 1 .. Len(Tail(backlog)) :
           /\ i + 1 \in 2 .. Len(backlog) /\ Tail(backlog)[i] = backlog[i + 1]
           /\ backlog[i + 1] \in Handle \cup Req
  BY <1>1
<1>3. x \in Queued
  BY <1>2, <1>t DEF QueueInv
<1>4. /\ backlog' = Tail(backlog) /\ slots < MaxConcurrent /\ slots' = slots + 1
      /\ UNCHANGED <<registry, gate, broken, agentVars, handle, result, source>>
  BY DEF Dispatch
<1>5. \/ /\ x \in Handle /\ hstate[x] = "queued" /\ UNCHANGED rstate
         /\ hstate' = [hstate EXCEPT ![x] = "starting"]
      \/ /\ x \in Req /\ x \notin Handle /\ rstate[x] = "queued" /\ UNCHANGED hstate
         /\ rstate' = [rstate EXCEPT ![x] = "seek"]
  BY <1>2, <1>3, AgentChannelAssumption DEF Dispatch, Queued
<1>6. x \notin Threads /\ Threads' = Threads \cup {x}
  <2>1. /\ hstate \in [Handle -> {"none", "queued", "gone"} \cup HandleActive]
        /\ rstate \in [Req -> {"none", "queued", "done"} \cup ReqActive]
    BY <1>t DEF AgentTypeOK
  <2> QED
    BY <1>5, <2>1, AgentChannelAssumption DEF Threads, HandleActive, ReqActive
<1>7. Pool' /\ slots' \in Nat
  BY <1>6, <1>4, <1>t, PoolJoined
<1>8. QueueInv'
  <2>1. \A i \in 1 .. Len(Tail(backlog)) : backlog[i + 1] # x
    BY <1>2, <1>t DEF QueueInv
  <2>2. Queued \ {x} \subseteq Queued'
    BY <1>5, <1>t DEF Queued, AgentTypeOK
  <2>3. \A i \in 1 .. Len(Tail(backlog)) : Tail(backlog)[i] \in Queued'
    BY <2>1, <2>2, <1>2, <1>t DEF QueueInv
  <2>4. \A i, j \in 1 .. Len(Tail(backlog)) :
          Tail(backlog)[i] = Tail(backlog)[j] => i = j
    BY <1>2, <1>t DEF QueueInv
  <2> QED
    BY <2>3, <2>4, <1>4 DEF QueueInv
<1>9. AgentTypeOK'
  <2>1. /\ hstate' \in [Handle -> {"none", "queued", "gone"} \cup HandleActive]
        /\ rstate' \in [Req -> {"none", "queued", "done"} \cup ReqActive]
    BY <1>5, <1>t DEF AgentTypeOK, HandleActive, ReqActive
  <2>2. \A r \in Req : rstate'[r] \in {"have", "prompt", "await"} =>
                       rstate[r] \in {"have", "prompt", "await"}
    BY <1>5, <1>t DEF AgentTypeOK
  <2> QED
    BY <2>1, <2>2, <1>2, <1>4, <1>7, <1>t DEF AgentTypeOK, agentVars
<1>10. GateAroundPrompt'
  BY <1>5, <1>4, <1>t DEF GateAroundPrompt, AgentTypeOK
<1>11. RegistryServed'
  BY <1>5, <1>4, <1>t DEF RegistryServed, AgentTypeOK
<1> QED
  BY <1>7, <1>8, <1>9, <1>10, <1>11 DEF ChannelInv

\* A worker of an agent, and the requests it wakes, are not in the queue.
LEMMA HandleQueue ==
  ASSUME AgentTypeOK, QueueInv, NEW h \in Handle, hstate[h] # "queued",
         NEW s \in HandleActive \cup {"gone"}, hstate' = [hstate EXCEPT ![h] = s], UNCHANGED backlog,
         \A r \in Req : rstate[r] = "queued" => rstate'[r] = "queued"
  PROVE  QueueInv'
<1>1. Queued \subseteq Queued'
  BY DEF Queued, AgentTypeOK
<1> QED
  BY <1>1 DEF QueueInv

LEMMA RegisterStep ==
  ASSUME ChannelInv, NEW h \in Handle, Register(h) PROVE ChannelInv'
<1>t. AgentTypeOK /\ QueueInv /\ Pool /\ RegistryServed /\ GateAroundPrompt
  BY DEF ChannelInv
<1>1. /\ rstate \in [Req -> {"none", "queued", "done"} \cup ReqActive]
      /\ hstate \in [Handle -> {"none", "queued", "gone"} \cup HandleActive]
      /\ registry \in [Uids -> Handle \cup {None}]
      /\ Uid[h] \in Uids
  BY <1>t DEF AgentTypeOK, Uids
<1>2. /\ hstate[h] = "starting" /\ hstate' = [hstate EXCEPT ![h] = "registered"]
      /\ registry' = [registry EXCEPT ![Uid[h]] = h]
      /\ UNCHANGED <<backlog, slots, gate, broken, agentVars, handle, result, source>>
  BY DEF Register
<1>3. \A r \in Req : \/ rstate'[r] = rstate[r]
                     \/ rstate[r] = "waiting" /\ rstate'[r] = "seek"
  BY DEF Register
<1>4. rstate' \in [Req -> {"none", "queued", "done"} \cup ReqActive]
  BY <1>1 DEF Register, ReqActive
<1>5. Threads' = Threads
  BY <1>1, <1>2, <1>3 DEF Threads, HandleActive, ReqActive
<1>6. QueueInv'
  BY <1>2, <1>3, <1>t, HandleQueue DEF HandleActive
<1>7. AgentTypeOK'
  <2>1. /\ hstate' \in [Handle -> {"none", "queued", "gone"} \cup HandleActive]
        /\ registry' \in [Uids -> Handle \cup {None}]
        /\ \A u \in Uids : registry'[u] # None => Uid[registry'[u]] = u
    BY <1>1, <1>2, <1>t DEF AgentTypeOK, HandleActive
  <2>2. \A r \in Req : rstate'[r] \in {"have", "prompt", "await"} =>
                       rstate[r] \in {"have", "prompt", "await"}
    BY <1>3
  <2> QED
    BY <2>1, <2>2, <1>2, <1>4, <1>t DEF AgentTypeOK, agentVars
<1>8. GateAroundPrompt'
  BY <1>2, <1>3, <1>t DEF GateAroundPrompt
<1>9. RegistryServed'
  BY <1>1, <1>2, <1>t, AgentChannelAssumption DEF RegistryServed
<1> QED
  BY <1>2, <1>5, <1>6, <1>7, <1>8, <1>9, <1>t, PoolKept DEF ChannelInv

LEMMA UnregisterStep ==
  ASSUME ChannelInv, NEW h \in Handle, Unregister(h) PROVE ChannelInv'
<1>t. AgentTypeOK /\ QueueInv /\ Pool /\ RegistryServed /\ GateAroundPrompt
  BY DEF ChannelInv
<1>1. /\ hstate \in [Handle -> {"none", "queued", "gone"} \cup HandleActive]
      /\ registry \in [Uids -> Handle \cup {None}]
      /\ h \notin Req /\ Uid[h] \in Uids
  BY <1>t, AgentChannelAssumption DEF AgentTypeOK, Uids
<1>2. /\ hstate[h] = "registered" /\ hstate' = [hstate EXCEPT ![h] = "gone"]
      /\ registry' = [registry EXCEPT ![Uid[h]] = None] /\ slots' = slots - 1
      /\ UNCHANGED <<backlog, gate, broken, agentVars, rstate, handle, result, source>>
  BY DEF Unregister, reqVars
<1>3. h \in Threads /\ Threads' = Threads \ {h}
  BY <1>1, <1>2 DEF Threads, HandleActive
<1>4. Pool' /\ slots' \in Nat
  BY <1>2, <1>3, <1>t, PoolLeft DEF AgentTypeOK
<1>5. QueueInv'
  BY <1>2, <1>t, HandleQueue
<1>6. AgentTypeOK'
  <2>1. /\ hstate' \in [Handle -> {"none", "queued", "gone"} \cup HandleActive]
        /\ registry' \in [Uids -> Handle \cup {None}]
        /\ \A u \in Uids : registry'[u] # None => Uid[registry'[u]] = u
    BY <1>1, <1>2, <1>t DEF AgentTypeOK
  <2> QED
    BY <2>1, <1>2, <1>4, <1>t DEF AgentTypeOK, agentVars
<1>7. GateAroundPrompt'
  BY <1>2, <1>t DEF GateAroundPrompt
<1>8. RegistryServed'
  <2> SUFFICES ASSUME NEW u \in Uids, registry'[u] # None
               PROVE  hstate'[registry'[u]] = "registered"
    BY DEF RegistryServed
  <2>1. u # Uid[h] /\ registry'[u] = registry[u]
    BY <1>1, <1>2
  <2>2. hstate[registry[u]] = "registered" /\ Uid[registry[u]] = u /\ registry[u] \in Handle
    BY <2>1, <1>1, <1>t DEF RegistryServed, AgentTypeOK
  <2> QED
    BY <2>1, <2>2, <1>1, <1>2
<1> QED
  BY <1>4, <1>5, <1>6, <1>7, <1>8 DEF ChannelInv

-----------------------------------------------------------------------------
(* The agent's side touches nothing of the daemon's. *)

LEMMA AgentStep ==
  ASSUME ChannelInv, NEW h \in Handle, Show(h) \/ Decide(h) \/ AgentCloses(h)
  PROVE  ChannelInv'
<1>t. AgentTypeOK /\ QueueInv /\ Pool /\ RegistryServed /\ GateAroundPrompt
  BY DEF ChannelInv
<1>1. UNCHANGED <<daemonVars, reqVars>>
  BY DEF Show, Decide, AgentCloses
<1>2. Pool' /\ QueueInv' /\ RegistryServed' /\ GateAroundPrompt'
  BY <1>1, <1>t DEF daemonVars, reqVars, Pool, SlotsExact, Threads, QueueInv, Queued,
                    RegistryServed, GateAroundPrompt
<1>3. /\ open' \in [Handle -> BOOLEAN] /\ prompts' \in [Handle -> Seq(Req)]
      /\ showing' \in [Handle -> Req \cup {None}]
      /\ verdicts' \in [Handle -> Seq([req : Req, answer : Answers])]
      /\ answered' \in [Req -> {"none"} \cup Answers]
  <2>1. CASE Show(h)
    <3>1. prompts[h] \in Seq(Req) /\ prompts[h] # <<>>
      BY <2>1, <1>t DEF Show, AgentTypeOK
    <3>2. Head(prompts[h]) \in Req /\ Tail(prompts[h]) \in Seq(Req)
      BY <3>1, HeadType
    <3> QED
      BY <3>2, <2>1, <1>t DEF Show, AgentTypeOK
  <2>2. CASE Decide(h)
    <3>1. PICK v \in Answers :
            /\ answered' = [answered EXCEPT ![showing[h]] = v]
            /\ verdicts' = IF Held(h)
                           THEN [verdicts EXCEPT ![h] =
                                   Append(@, [req |-> showing[h], answer |-> v])]
                           ELSE verdicts
      BY <2>2 DEF Decide
    <3>2. showing[h] \in Req
      BY <2>2, <1>t DEF Decide, AgentTypeOK
    <3>3. [req |-> showing[h], answer |-> v] \in [req : Req, answer : Answers]
      BY <3>2
    <3>4. verdicts' \in [Handle -> Seq([req : Req, answer : Answers])]
      <4>1. verdicts[h] \in Seq([req : Req, answer : Answers])
        BY <1>t DEF AgentTypeOK
      <4>2. Append(verdicts[h], [req |-> showing[h], answer |-> v])
              \in Seq([req : Req, answer : Answers])
        BY <4>1, <3>3, AppendType
      <4> QED
        BY <4>2, <3>1, <1>t DEF AgentTypeOK
    <3> QED
      BY <3>1, <3>2, <3>4, <2>2, <1>t DEF Decide, AgentTypeOK
  <2>3. CASE AgentCloses(h)
    <3>1. prompts' = [prompts EXCEPT ![h] = <<>>] /\ UNCHANGED <<verdicts, answered>>
          /\ open' = [open EXCEPT ![h] = FALSE] /\ showing' = [showing EXCEPT ![h] = None]
      BY <2>3 DEF AgentCloses
    <3>2. prompts' \in [Handle -> Seq(Req)]
      BY <3>1, EmptyType, <1>t DEF AgentTypeOK
    <3> QED
      BY <3>1, <3>2, <1>t DEF AgentTypeOK
  <2> QED
    BY <2>1, <2>2, <2>3
<1>4. AgentTypeOK'
  BY <1>1, <1>3, <1>t DEF AgentTypeOK, daemonVars, reqVars
<1> QED
  BY <1>2, <1>4 DEF ChannelInv

-----------------------------------------------------------------------------
LEMMA ChannelStep == ChannelInv /\ [Next]_vars => ChannelInv'
<1> SUFFICES ASSUME ChannelInv, [Next]_vars PROVE ChannelInv'
  OBVIOUS
<1>1. CASE Dispatch
  BY <1>1, DispatchStep
<1>2. ASSUME NEW r \in Req, RequestArrives(r) PROVE ChannelInv'
  BY <1>2, ArriveStep
<1>3. ASSUME NEW r \in Req, RequestStep(r) PROVE ChannelInv'
  BY <1>3, SeekStep, GateStep, ReturnStep DEF RequestStep, Returns
<1>4. ASSUME NEW h \in Handle, AgentConnects(h) \/ HandlerStep(h) PROVE ChannelInv'
  BY <1>4, ConnectStep, RegisterStep, UnregisterStep DEF HandlerStep
<1>5. ASSUME NEW h \in Handle, Show(h) \/ Decide(h) \/ AgentCloses(h) PROVE ChannelInv'
  BY <1>5, AgentStep
<1>6. CASE UNCHANGED vars
  <2>1. UNCHANGED <<backlog, slots, registry, gate, hstate, broken, open, prompts, showing,
                    verdicts, rstate, handle, result, answered, source>>
    BY <1>6 DEF vars, daemonVars, agentVars, reqVars
  <2>2. AgentTypeOK'
    BY <2>1 DEF ChannelInv, AgentTypeOK
  <2>3. QueueInv' /\ GateAroundPrompt' /\ RegistryServed'
    BY <2>1 DEF ChannelInv, QueueInv, Queued, GateAroundPrompt, RegistryServed
  <2>4. Pool'
    BY <2>1, PoolKept DEF ChannelInv, Threads
  <2> QED
    BY <2>2, <2>3, <2>4 DEF ChannelInv
<1> QED
  BY <1>1, <1>2, <1>3, <1>4, <1>5, <1>6 DEF Next

LEMMA ChannelSafe == Spec => []ChannelInv
BY ChannelInit, ChannelStep, PTL DEF Spec

\* Types, and a request past the lookup has the agent of its own uid
\* (approval.rs:349-367).
THEOREM AgentSafe == Spec => []AgentTypeOK
<1>1. ChannelInv => AgentTypeOK
  BY DEF ChannelInv
<1> QED
  BY <1>1, ChannelSafe, PTL

\* No way out of a worker loses a slot or gives one back twice, and no more
\* than MAX_CONCURRENT run (server.rs:432-473).
THEOREM AgentSlots == Spec => []SlotsExact
<1>1. ChannelInv => SlotsExact
  BY DEF ChannelInv, Pool
<1> QED
  BY <1>1, ChannelSafe, PTL

\* One prompt is out at a time, whatever else happens
\* (approval.rs:339-341, 375-380).
THEOREM AgentGate == Spec => []GateAroundPrompt
<1>1. ChannelInv => GateAroundPrompt
  BY DEF ChannelInv
<1> QED
  BY <1>1, ChannelSafe, PTL

\* The registry never hands out a connection whose worker has gone
\* (server.rs:588-608).
THEOREM AgentRegistry == Spec => []RegistryServed
<1>1. ChannelInv => RegistryServed
  BY DEF ChannelInv
<1> QED
  BY <1>1, ChannelSafe, PTL

-----------------------------------------------------------------------------
(***************************************************************************)
(* What becomes of a prompt and of the verdict on it (approval.rs:286-326).*)
(* The prompt of a request is in one place at a time: unread, in the       *)
(* dialog, in a verdict the daemon has not read, or in the result it       *)
(* decided.                                                                *)
(***************************************************************************)

\* The requests whose prompt is on its way to the human, and the ones whose
\* verdict is on its way back.
Unread(h)     == {prompts[h][i] : i \in 1 .. Len(prompts[h])}
Unanswered(h) == Unread(h) \cup ({showing[h]} \ {None})
Written(h)    == {verdicts[h][i].req : i \in 1 .. Len(verdicts[h])}

Sent(q)    == rstate[q] \in {"await", "done"}
GivenUp(h) == broken[h] /\ \E g \in Req : handle[g] = h /\ result[g] = "error" /\ source[g] = None

\* A prompt has been sent once, on the handle of its request, and is unanswered.
PromptFate ==
  \A h \in Handle :
    /\ \A q \in Unanswered(h) : handle[q] = h /\ Sent(q) /\ answered[q] = "none"
    /\ \A i, j \in 1 .. Len(prompts[h]) : prompts[h][i] = prompts[h][j] => i = j
    /\ showing[h] \notin Unread(h)

\* A verdict in the stream says what the human answered, and has decided nothing.
VerdictFate ==
  \A h \in Handle :
    /\ \A i \in 1 .. Len(verdicts[h]) : LET e == verdicts[h][i] IN
         handle[e.req] = h /\ Sent(e.req) /\ answered[e.req] = e.answer
    /\ \A r \in Req : source[r] \notin Written(h)

\* What decided a request is over with it, and decided nothing else.
SourceFate ==
  /\ \A r \in Req : source[r] # None =>
       /\ rstate[r] = "done" /\ rstate[source[r]] = "done"
       /\ handle[r] # None /\ handle[source[r]] = handle[r]
       /\ result[r] # "none" /\ answered[source[r]] = result[r]
       /\ \A q \in Req \ {r} : source[q] # source[r]
  /\ \A r \in Req :
       /\ handle[r] # None => Uid[handle[r]] = Uid[r]
       /\ ~Sent(r) => answered[r] = "none"
       /\ result[r] # "none" => rstate[r] = "done"
       /\ result[r] = "allow" => source[r] # None

\* What is under way when its request is over is under way on a connection
\* that is given up.
LateFate ==
  /\ \A h \in Handle : \A q \in Unanswered(h) \cup Written(h) :
       rstate[q] = "done" => GivenUp(h)
  /\ \A r \in Req : source[r] \notin {None, r} => GivenUp(handle[r])

FateInv == PromptFate /\ VerdictFate /\ SourceFate /\ LateFate

-----------------------------------------------------------------------------
LEMMA ElementType ==
  ASSUME NEW S, NEW s \in Seq(S), NEW i \in 1 .. Len(s) PROVE s[i] \in S
OBVIOUS

LEMMA PlaceType ==
  ASSUME AgentTypeOK, NEW h \in Handle
  PROVE  /\ Unread(h) \subseteq Req /\ Unanswered(h) \subseteq Req /\ Written(h) \subseteq Req
         /\ \A i \in 1 .. Len(verdicts[h]) :
              verdicts[h][i].req \in Req /\ verdicts[h][i].answer \in Answers
<1>1. prompts[h] \in Seq(Req) /\ showing[h] \in Req \cup {None}
  BY DEF AgentTypeOK
<1>2. verdicts[h] \in Seq([req : Req, answer : Answers])
  BY DEF AgentTypeOK
<1>3. \A i \in 1 .. Len(verdicts[h]) : verdicts[h][i] \in [req : Req, answer : Answers]
  BY <1>2, ElementType
<1>4. \A i \in 1 .. Len(verdicts[h]) :
        verdicts[h][i].req \in Req /\ verdicts[h][i].answer \in Answers
  BY <1>3
<1>5. Unread(h) \subseteq Req
  BY <1>1 DEF Unread
<1> QED
  BY <1>1, <1>4, <1>5 DEF Unanswered, Written

\* Prompts and verdicts that nobody touches.
LEMMA PlaceKept ==
  ASSUME AgentTypeOK, UNCHANGED <<prompts, showing, verdicts>>
  PROVE  \A h \in Handle : /\ Unread(h)' = Unread(h) /\ Unanswered(h)' = Unanswered(h)
                           /\ Written(h)' = Written(h)
                           /\ Unanswered(h) \subseteq Req /\ Written(h) \subseteq Req
BY PlaceType DEF Unread, Unanswered, Written

LEMMA FateInit == Init => FateInv
<1> SUFFICES ASSUME Init PROVE FateInv
  OBVIOUS
<1>1. \A h \in Handle : Unanswered(h) = {} /\ Unread(h) = {} /\ Written(h) = {}
  BY DEF Init, Unanswered, Unread, Written
<1>2. PromptFate
  BY <1>1 DEF Init, PromptFate, Unread
<1>3. VerdictFate
  BY <1>1 DEF Init, VerdictFate
<1>4. SourceFate
  BY DEF Init, SourceFate
<1>5. LateFate
  BY <1>1 DEF Init, LateFate
<1> QED
  BY <1>2, <1>3, <1>4, <1>5 DEF FateInv

\* Steps before a prompt is sent, and those of the handlers of agents.
LEMMA QuietFate ==
  ASSUME AgentTypeOK, FateInv,
         UNCHANGED <<broken, prompts, showing, verdicts, result, source, answered>>,
         \A r \in Req : /\ rstate'[r] = "await" <=> rstate[r] = "await"
                        /\ rstate'[r] = "done" <=> rstate[r] = "done",
         \A r \in Req : \/ handle'[r] = handle[r]
                        \/ /\ ~Sent(r) /\ handle'[r] \in Handle
                           /\ Uid[handle'[r]] = Uid[r]
  PROVE  FateInv'
<1>1. \A h \in Handle : /\ Unread(h)' = Unread(h) /\ Unanswered(h)' = Unanswered(h)
                        /\ Written(h)' = Written(h)
                        /\ Unanswered(h) \subseteq Req /\ Written(h) \subseteq Req
  BY PlaceKept
<1>2. \A r \in Req : (Sent(r)' <=> Sent(r)) /\ (Sent(r) => handle'[r] = handle[r])
  BY DEF Sent
<1>3. PromptFate'
  BY <1>1, <1>2 DEF FateInv, PromptFate
<1>4. VerdictFate'
  <2>1. ASSUME NEW h \in Handle, NEW i \in 1 .. Len(verdicts[h])
        PROVE  verdicts[h][i].req \in Req
    BY PlaceType
  <2> QED
    BY <1>1, <1>2, <2>1 DEF FateInv, VerdictFate
<1>5. SourceFate'
  <2>1. ASSUME NEW r \in Req, source[r] # None
        PROVE  /\ source[r] \in Req /\ handle'[r] = handle[r]
               /\ handle'[source[r]] = handle[source[r]]
    BY <2>1, <1>2 DEF AgentTypeOK, FateInv, SourceFate, Sent
  <2>2. \A r \in Req : handle'[r] # None => Uid[handle'[r]] = Uid[r]
    BY DEF FateInv, SourceFate
  <2> QED
    BY <2>1, <2>2, <1>2 DEF FateInv, SourceFate
<1>6. ASSUME NEW h, GivenUp(h) PROVE GivenUp(h)'
  <2>1. PICK g \in Req : handle[g] = h /\ result[g] = "error" /\ source[g] = None
    BY <1>6 DEF GivenUp
  <2>2. Sent(g)
    BY <2>1 DEF FateInv, SourceFate, Sent
  <2> QED
    BY <2>1, <2>2, <1>2, <1>6 DEF GivenUp
<1>7. LateFate'
  <2>1. \A r \in Req : source[r] \notin {None, r} => handle'[r] = handle[r]
    BY <1>2 DEF FateInv, SourceFate, Sent
  <2> QED
    BY <2>1, <1>1, <1>6 DEF FateInv, LateFate
<1> QED
  BY <1>3, <1>4, <1>5, <1>7 DEF FateInv

LEMMA SendFate ==
  ASSUME ChannelInv, FateInv, NEW r \in Req, Send(r) PROVE FateInv'
<1>t. AgentTypeOK /\ GateAroundPrompt
  BY DEF ChannelInv
<1>k. PICK k \in Handle : k = handle[r]
  BY <1>t DEF Send, AgentTypeOK
<1>1. /\ rstate[r] = "prompt"
      /\ prompts' = [prompts EXCEPT ![k] = Append(@, r)]
      /\ rstate' = [rstate EXCEPT ![r] = "await"]
      /\ UNCHANGED <<broken, showing, verdicts, answered, handle, result, source>>
  BY <1>k DEF Send, daemonVars
<1>2. \A q \in Req : /\ Sent(q)' <=> Sent(q) \/ q = r
                     /\ rstate'[q] = "done" <=> rstate[q] = "done"
  BY <1>1, <1>t DEF Sent, AgentTypeOK
<1>3. ~Sent(r) /\ answered[r] = "none"
  BY <1>1 DEF Sent, FateInv, SourceFate
<1>4. /\ Len(prompts'[k]) = Len(prompts[k]) + 1 /\ Len(prompts[k]) \in Nat
      /\ prompts'[k][Len(prompts[k]) + 1] = r
      /\ \A i \in 1 .. Len(prompts[k]) : prompts'[k][i] = prompts[k][i]
      /\ \A h \in Handle \ {k} : prompts'[h] = prompts[h]
  <2>1. prompts[k] \in Seq(Req) /\ prompts'[k] = Append(prompts[k], r)
    BY <1>1, <1>t DEF AgentTypeOK
  <2> QED
    BY <1>1, <1>t, <2>1 DEF AgentTypeOK
<1>5. \A h \in Handle :
        /\ Unread(h)' = IF h = k THEN Unread(h) \cup {r} ELSE Unread(h)
        /\ Unanswered(h)' = IF h = k THEN Unanswered(h) \cup {r} ELSE Unanswered(h)
        /\ Written(h)' = Written(h)
        /\ Unanswered(h) \subseteq Req /\ Written(h) \subseteq Req
  <2>1. \A h \in Handle :
          Unread(h)' = IF h = k THEN Unread(h) \cup {r} ELSE Unread(h)
    <3>1. \A i \in 1 .. Len(prompts'[k]) :
            i \in 1 .. Len(prompts[k]) \/ i = Len(prompts[k]) + 1
      BY <1>4
    <3>2. /\ Len(prompts[k]) + 1 \in 1 .. Len(prompts'[k])
          /\ \A i \in 1 .. Len(prompts[k]) : i \in 1 .. Len(prompts'[k])
      BY <1>4
    <3>3. Unread(k)' = Unread(k) \cup {r}
      BY <3>1, <3>2, <1>4 DEF Unread
    <3>4. \A h \in Handle \ {k} : Unread(h)' = Unread(h)
      BY <1>4 DEF Unread
    <3> QED
      BY <3>3, <3>4
  <2>2. \A h \in Handle : Written(h)' = Written(h)
    BY <1>1 DEF Written
  <2>3. \A h \in Handle : Unanswered(h) \subseteq Req /\ Written(h) \subseteq Req
    BY <1>t, PlaceType
  <2> QED
    BY <2>1, <2>2, <2>3, <1>1 DEF Unanswered
<1>6. r \notin Unread(k) /\ showing[k] # r
  BY <1>1, <1>3, AgentChannelAssumption DEF FateInv, PromptFate, Unanswered
<1>7. PromptFate'
  <2>1. ASSUME NEW h \in Handle
        PROVE  \A q \in Unanswered(h)' : handle'[q] = h /\ Sent(q)' /\ answered'[q] = "none"
    BY <1>k, <1>1, <1>2, <1>3, <1>5 DEF FateInv, PromptFate
  <2>2. ASSUME NEW h \in Handle, NEW i \in 1 .. Len(prompts'[h]), NEW j \in 1 .. Len(prompts'[h]),
               prompts'[h][i] = prompts'[h][j]
        PROVE  i = j
    <3>1. CASE h # k
      BY <3>1, <2>2, <1>4 DEF FateInv, PromptFate
    <3>2. CASE h = k
      <4>1. /\ i \in 1 .. Len(prompts[k]) \/ i = Len(prompts[k]) + 1
            /\ j \in 1 .. Len(prompts[k]) \/ j = Len(prompts[k]) + 1
        BY <3>2, <1>4
      <4>2. \A m \in 1 .. Len(prompts[k]) : prompts[k][m] # r
        BY <1>6 DEF Unread
      <4> QED
        BY <4>1, <4>2, <3>2, <2>2, <1>4, <1>1 DEF FateInv, PromptFate
    <3> QED
      BY <3>1, <3>2
  <2>3. ASSUME NEW h \in Handle PROVE showing'[h] \notin Unread(h)'
    BY <1>1, <1>5, <1>6 DEF FateInv, PromptFate
  <2> QED
    BY <2>1, <2>2, <2>3 DEF PromptFate
<1>8. VerdictFate'
  <2>1. ASSUME NEW h \in Handle, NEW i \in 1 .. Len(verdicts[h])
        PROVE  verdicts[h][i].req \in Req
    BY <1>t, PlaceType
  <2> QED
    BY <1>1, <1>2, <1>5, <2>1 DEF FateInv, VerdictFate
<1>9. SourceFate'
  <2>1. \A q \in Req : source[q] # None => source[q] \in Req
    BY <1>t DEF AgentTypeOK
  <2> QED
    BY <2>1, <1>1, <1>2 DEF FateInv, SourceFate
<1>10. LateFate'
  <2>1. \A h : GivenUp(h)' <=> GivenUp(h)
    BY <1>1 DEF GivenUp
  <2>2. rstate'[r] # "done"
    BY <1>1, <1>t DEF AgentTypeOK
  <2> QED
    BY <2>1, <2>2, <1>1, <1>2, <1>5 DEF FateInv, LateFate
<1> QED
  BY <1>7, <1>8, <1>9, <1>10 DEF FateInv

\* A request that fails without a verdict: what it has sent is under way on a
\* connection it gives up.
LEMMA FailFate ==
  ASSUME ChannelInv, FateInv, NEW r \in Req,
         GiveUp(r) \/ SendFails(r) \/ ReadEof(r) \/ ReadTimesOut(r)
  PROVE  FateInv'
<1>t. AgentTypeOK /\ GateAroundPrompt
  BY DEF ChannelInv
<1>1. /\ rstate' = [rstate EXCEPT ![r] = "done"]
      /\ result' = [result EXCEPT ![r] = "error"]
      /\ source' = [source EXCEPT ![r] = None]
      /\ rstate[r] \in {"timedout", "prompt", "await"}
      /\ UNCHANGED <<prompts, showing, verdicts, answered, handle>>
  BY DEF GiveUp, SendFails, ReadEof, ReadTimesOut, Broken, Return, agentVars
<1>2. /\ \A h \in Handle : broken[h] => broken'[h]
      /\ rstate[r] = "await" => handle[r] \in Handle /\ broken'[handle[r]]
  <2>1. CASE GiveUp(r)
    BY <2>1 DEF GiveUp
  <2>2. CASE Broken(r)
    <3>1. broken' = [broken EXCEPT ![handle[r]] = TRUE] /\ broken \in [Handle -> BOOLEAN]
      BY <2>2, <1>t DEF Broken, AgentTypeOK
    <3>2. rstate[r] = "await" => handle[r] \in Handle
      BY <1>t DEF AgentTypeOK
    <3> QED
      BY <3>1, <3>2
  <2> QED
    BY <2>1, <2>2 DEF SendFails, ReadEof, ReadTimesOut
<1>3. source[r] = None /\ result[r] = "none" /\ (\A q \in Req : source[q] = r => q = r)
  BY <1>1, <1>t, AgentChannelAssumption DEF FateInv, SourceFate, AgentTypeOK
<1>4. source' = source
  BY <1>1, <1>3, <1>t DEF AgentTypeOK
<1>5. \A h \in Handle : /\ Unread(h)' = Unread(h) /\ Unanswered(h)' = Unanswered(h)
                        /\ Written(h)' = Written(h)
                        /\ Unanswered(h) \subseteq Req /\ Written(h) \subseteq Req
  BY <1>1, <1>t, PlaceKept
<1>6. \A q \in Req : /\ Sent(q) => Sent(q)'
                     /\ rstate'[q] = "done" <=> rstate[q] = "done" \/ q = r
                     /\ q # r => Sent(q)' = Sent(q) /\ result'[q] = result[q]
  BY <1>1, <1>t DEF Sent, AgentTypeOK
<1>7. PromptFate'
  BY <1>1, <1>5, <1>6 DEF FateInv, PromptFate
<1>8. VerdictFate'
  <2>1. ASSUME NEW h \in Handle, NEW i \in 1 .. Len(verdicts[h])
        PROVE  verdicts[h][i].req \in Req
    BY <1>t, PlaceType
  <2> QED
    BY <1>1, <1>4, <1>5, <1>6, <2>1 DEF FateInv, VerdictFate
<1>9. SourceFate'
  <2>1. result'[r] = "error" /\ rstate'[r] = "done"
    BY <1>1, <1>t DEF AgentTypeOK
  <2>2. \A q \in Req : source[q] # None => source[q] \in Req /\ q # r
    BY <1>3, <1>t DEF AgentTypeOK
  <2>3. Sent(r)'
    BY <2>1 DEF Sent
  <2> QED
    BY <2>1, <2>2, <2>3, <1>1, <1>4, <1>6 DEF FateInv, SourceFate
<1>10. LateFate'
  <2>1. \A h \in Handle : GivenUp(h) => GivenUp(h)'
    BY <1>1, <1>2, <1>3, <1>4, <1>6 DEF GivenUp, FateInv, SourceFate
  <2>2. rstate[r] = "await" => GivenUp(handle[r])'
    BY <1>1, <1>2, <1>3, <1>4, <1>t DEF GivenUp, AgentTypeOK
  <2>3. ASSUME NEW h \in Handle, NEW q \in Unanswered(h) \cup Written(h), rstate'[q] = "done"
        PROVE  GivenUp(h)'
    <3>1. q \in Req /\ handle[q] = h /\ Sent(q)
      BY <1>5 DEF FateInv, PromptFate, VerdictFate, Written
    <3>2. CASE rstate[q] = "done"
      BY <3>2, <2>1 DEF FateInv, LateFate
    <3>3. CASE q = r
      BY <3>1, <3>3, <2>2, <1>1, <1>t, <2>1 DEF FateInv, LateFate, Sent
    <3> QED
      BY <3>1, <3>2, <3>3, <2>3, <1>6
  <2>4. ASSUME NEW q \in Req, source[q] \notin {None, q} PROVE GivenUp(handle[q])'
    <3>1. handle[q] \in Handle
      BY <2>4, <1>t DEF FateInv, SourceFate, AgentTypeOK
    <3> QED
      BY <3>1, <2>4, <2>1, <1>1 DEF FateInv, LateFate
  <2> QED
    BY <2>3, <2>4, <1>1, <1>4, <1>5 DEF LateFate
<1> QED
  BY <1>7, <1>8, <1>9, <1>10 DEF FateInv

\* A verdict is read: what decided the request was on its way to it.
LEMMA ReadFate ==
  ASSUME ChannelInv, FateInv, NEW r \in Req, ReadVerdict(r) PROVE FateInv'
<1>t. AgentTypeOK /\ GateAroundPrompt
  BY DEF ChannelInv
<1>k. PICK k \in Handle : k = handle[r]
  BY <1>t DEF ReadVerdict, AgentTypeOK
<1>s. PICK s : s = verdicts[k][1].req
  OBVIOUS
<1>1. /\ rstate[r] = "await" /\ rstate' = [rstate EXCEPT ![r] = "done"]
      /\ verdicts[k] # <<>> /\ verdicts' = [verdicts EXCEPT ![k] = <<>>]
      /\ result' = [result EXCEPT ![r] = verdicts[k][1].answer]
      /\ source' = [source EXCEPT ![r] = s]
      /\ UNCHANGED <<broken, prompts, showing, answered, handle>>
  <2>1. Head(verdicts[k]) = verdicts[k][1]
    BY <1>t DEF AgentTypeOK
  <2> QED
    BY <2>1, <1>k, <1>s DEF ReadVerdict, Return
<1>2. 1 \in 1 .. Len(verdicts[k])
  <2>1. verdicts[k] \in Seq([req : Req, answer : Answers]) /\ verdicts[k] # <<>>
    BY <1>1, <1>t DEF AgentTypeOK
  <2> QED
    BY <2>1
<1>3. /\ s \in Req /\ handle[s] = k /\ Sent(s) /\ s \in Written(k)
      /\ answered[s] = verdicts[k][1].answer
      /\ answered[s] \in Answers
      /\ \A q \in Req : source[q] # s
  <2>1. s \in Req /\ verdicts[k][1].answer \in Answers
    BY <1>2, <1>s, <1>t, PlaceType
  <2>2. s \in Written(k)
    BY <1>2, <1>s DEF Written
  <2> QED
    BY <2>1, <2>2, <1>2, <1>s DEF FateInv, VerdictFate
<1>4. rstate[s] = "done" \/ s = r
  BY <1>1, <1>3, <1>t DEF Sent, GateAroundPrompt
<1>5. source[r] = None /\ result[r] = "none" /\ \A q \in Req : source[q] = r => q = r
  BY <1>1, <1>t, AgentChannelAssumption DEF FateInv, SourceFate, AgentTypeOK
<1>6. \A q \in Req : /\ Sent(q)' <=> Sent(q)
                     /\ rstate'[q] = "done" <=> rstate[q] = "done" \/ q = r
                     /\ q # r => result'[q] = result[q] /\ source'[q] = source[q]
  BY <1>1, <1>t DEF Sent, AgentTypeOK
<1>7. /\ rstate'[r] = "done" /\ rstate'[s] = "done" /\ source'[r] = s /\ s # None
      /\ result'[r] = answered[s] /\ result'[r] # "none"
  BY <1>1, <1>3, <1>4, <1>6, <1>t, AgentChannelAssumption DEF AgentTypeOK, Answers
<1>8. /\ \A h \in Handle : /\ Unread(h)' = Unread(h) /\ Unanswered(h)' = Unanswered(h)
                           /\ Unanswered(h) \subseteq Req /\ Written(h) \subseteq Req
      /\ \A h \in Handle \ {k} : verdicts'[h] = verdicts[h] /\ Written(h)' = Written(h)
      /\ verdicts'[k] = <<>> /\ Written(k)' = {}
  <2>1. \A h \in Handle \ {k} : verdicts'[h] = verdicts[h]
    BY <1>1, <1>t DEF AgentTypeOK
  <2>2. verdicts'[k] = <<>>
    BY <1>1, <1>t DEF AgentTypeOK
  <2>3. \A h \in Handle : Unread(h)' = Unread(h) /\ Unanswered(h)' = Unanswered(h)
    BY <1>1 DEF Unread, Unanswered
  <2> QED
    BY <2>1, <2>2, <2>3, <1>t, PlaceType DEF Written
<1>9. PromptFate'
  BY <1>1, <1>6, <1>8 DEF FateInv, PromptFate
<1>10. VerdictFate'
  <2>1. ASSUME NEW h \in Handle, h # k PROVE s \notin Written(h)
    <3> SUFFICES ASSUME NEW i \in 1 .. Len(verdicts[h]), verdicts[h][i].req = s PROVE FALSE
      BY DEF Written
    <3> QED
      BY <2>1, <1>3 DEF FateInv, VerdictFate
  <2>2. ASSUME NEW h \in Handle, h # k
        PROVE  /\ \A i \in 1 .. Len(verdicts[h]) :
                    LET e == verdicts[h][i] IN
                    handle[e.req] = h /\ Sent(e.req)' /\ answered[e.req] = e.answer
               /\ \A q \in Req : source'[q] \notin Written(h)
    BY <2>1, <2>2, <1>1, <1>6, <1>7, <1>t, PlaceType DEF FateInv, VerdictFate
  <2> QED
    BY <2>2, <1>1, <1>8 DEF VerdictFate
<1>11. SourceFate'
  <2>1. \A q \in Req : source[q] # None => source[q] \in Req /\ q # r /\ source[q] # r
    BY <1>5, <1>t DEF AgentTypeOK
  <2>2. ASSUME NEW q \in Req, source'[q] # None
        PROVE  /\ rstate'[q] = "done" /\ rstate'[source'[q]] = "done"
               /\ handle[q] # None /\ handle[source'[q]] = handle[q]
               /\ result'[q] # "none" /\ answered[source'[q]] = result'[q]
               /\ \A p \in Req \ {q} : source'[p] # source'[q]
    <3>1. CASE q = r
      BY <3>1, <1>k, <1>3, <1>6, <1>7, AgentChannelAssumption
    <3>2. CASE q # r
      BY <3>2, <2>1, <2>2, <1>3, <1>6, <1>7 DEF FateInv, SourceFate
    <3> QED
      BY <3>1, <3>2
  <2>3. ASSUME NEW q \in Req
        PROVE  /\ handle[q] # None => Uid[handle[q]] = Uid[q]
               /\ ~Sent(q)' => answered[q] = "none"
               /\ result'[q] # "none" => rstate'[q] = "done"
               /\ result'[q] = "allow" => source'[q] # None
    BY <1>6, <1>7 DEF FateInv, SourceFate
  <2> QED
    BY <2>2, <2>3, <1>1 DEF SourceFate
<1>12. LateFate'
  <2>1. ASSUME NEW h, GivenUp(h) PROVE GivenUp(h)'
    <3>1. PICK g \in Req : handle[g] = h /\ result[g] = "error" /\ source[g] = None
      BY <2>1 DEF GivenUp
    <3>2. g # r
      BY <3>1, <1>5
    <3> QED
      BY <3>1, <3>2, <2>1, <1>1, <1>6 DEF GivenUp
  <2>2. s # r => GivenUp(k)
    BY <1>3, <1>4 DEF FateInv, LateFate
  <2>3. ASSUME NEW h \in Handle, NEW q \in Unanswered(h)' \cup Written(h)',
               rstate'[q] = "done"
        PROVE  GivenUp(h)'
    <3>1. q \in Unanswered(h) \cup Written(h) /\ q \in Req
      BY <1>8
    <3>2. CASE rstate[q] = "done"
      BY <3>1, <3>2, <2>1 DEF FateInv, LateFate
    <3>3. CASE q = r
      <4>1. h = k
        BY <3>1, <3>3, <1>k DEF FateInv, PromptFate, VerdictFate, Written
      <4>2. q \in Unanswered(k)
        BY <4>1, <2>3, <1>8
      <4>3. s # r
        BY <4>2, <3>3, <1>3 DEF FateInv, PromptFate, Answers
      <4> QED
        BY <4>1, <4>3, <2>1, <2>2
    <3> QED
      BY <3>1, <3>2, <3>3, <2>3, <1>6
  <2>4. ASSUME NEW q \in Req, source'[q] \notin {None, q} PROVE GivenUp(handle[q])
    <3>1. CASE q = r
      BY <3>1, <2>4, <2>2, <1>7, <1>k
    <3>2. CASE q # r
      BY <3>2, <2>4, <1>6 DEF FateInv, LateFate
    <3> QED
      BY <3>1, <3>2
  <2>5. ASSUME NEW q \in Req, source'[q] \notin {None, q} PROVE GivenUp(handle[q])'
    <3>1. PICK h : h = handle[q]
      OBVIOUS
    <3>2. GivenUp(h)'
      BY <3>1, <2>4, <2>5, <2>1
    <3> QED
      BY <3>1, <3>2, <1>1 DEF GivenUp
  <2> QED
    BY <2>3, <2>5 DEF LateFate
<1> QED
  BY <1>9, <1>10, <1>11, <1>12 DEF FateInv

\* The dialog opens.
LEMMA ShowFate ==
  ASSUME ChannelInv, FateInv, NEW k \in Handle, Show(k) PROVE FateInv'
<1>t. AgentTypeOK
  BY DEF ChannelInv
<1>1. /\ showing[k] = None /\ prompts[k] # <<>>
      /\ showing' = [showing EXCEPT ![k] = Head(prompts[k])]
      /\ prompts' = [prompts EXCEPT ![k] = Tail(@)]
      /\ UNCHANGED <<broken, verdicts, answered, rstate, handle, result, source>>
  BY DEF Show, daemonVars, reqVars
<1>2. /\ showing'[k] = prompts[k][1] /\ prompts'[k] = Tail(prompts[k])
      /\ \A h \in Handle \ {k} : showing'[h] = showing[h] /\ prompts'[h] = prompts[h]
  BY <1>1, <1>t DEF AgentTypeOK
<1>3. /\ Len(prompts[k]) \in Nat \ {0} /\ Len(prompts'[k]) = Len(prompts[k]) - 1
      /\ \A i \in 1 .. Len(prompts'[k]) : prompts'[k][i] = prompts[k][i + 1]
  <2>1. prompts[k] \in Seq(Req) /\ prompts[k] # <<>>
    BY <1>1, <1>t DEF AgentTypeOK
  <2> QED
    BY <2>1, <1>2
<1>4. 1 \in 1 .. Len(prompts[k]) /\ \A i \in 1 .. Len(prompts'[k]) : i + 1 \in 2 .. Len(prompts[k])
  BY <1>3
<1>5. /\ Unread(k)' \subseteq Unread(k) /\ prompts[k][1] \in Unread(k)
      /\ prompts[k][1] \notin Unread(k)'
  <2>1. Unread(k)' \subseteq Unread(k) /\ prompts[k][1] \in Unread(k)
    BY <1>3, <1>4 DEF Unread
  <2>2. \A i \in 1 .. Len(prompts'[k]) : prompts'[k][i] # prompts[k][1]
    BY <1>3, <1>4 DEF FateInv, PromptFate
  <2> QED
    BY <2>1, <2>2 DEF Unread
<1>6. \A h \in Handle : /\ h # k => Unread(h)' = Unread(h)
                        /\ Unanswered(h)' \subseteq Unanswered(h)
                        /\ Written(h)' = Written(h)
  BY <1>1, <1>2, <1>5 DEF Unread, Unanswered, Written
<1>7. PromptFate'
  <2>1. \A h \in Handle : \A q \in Unanswered(h)' : handle[q] = h /\ Sent(q)' /\ answered[q] = "none"
    BY <1>1, <1>6 DEF FateInv, PromptFate, Sent
  <2>2. ASSUME NEW h \in Handle, NEW i \in 1 .. Len(prompts'[h]), NEW j \in 1 .. Len(prompts'[h]),
               prompts'[h][i] = prompts'[h][j]
        PROVE  i = j
    <3>1. CASE h # k
      BY <3>1, <2>2, <1>2 DEF FateInv, PromptFate
    <3>2. CASE h = k
      BY <3>2, <2>2, <1>3, <1>4 DEF FateInv, PromptFate
    <3> QED
      BY <3>1, <3>2
  <2>3. \A h \in Handle : showing'[h] \notin Unread(h)'
    BY <1>2, <1>5, <1>6 DEF FateInv, PromptFate
  <2> QED
    BY <2>1, <2>2, <2>3, <1>1 DEF PromptFate
<1>8. VerdictFate' /\ SourceFate'
  BY <1>1 DEF FateInv, VerdictFate, SourceFate, Sent, Written
<1>9. LateFate'
  BY <1>1, <1>6 DEF FateInv, LateFate, GivenUp
<1> QED
  BY <1>7, <1>8, <1>9 DEF FateInv

\* The dialog is answered.
LEMMA DecideFate ==
  ASSUME ChannelInv, FateInv, NEW k \in Handle, Decide(k) PROVE FateInv'
<1>t. AgentTypeOK
  BY DEF ChannelInv
<1>s. PICK s \in Req : s = showing[k]
  BY <1>t DEF Decide, AgentTypeOK
<1>1. PICK v \in Answers :
        /\ answered' = [answered EXCEPT ![s] = v]
        /\ verdicts' = IF Held(k)
                       THEN [verdicts EXCEPT ![k] = Append(@, [req |-> s, answer |-> v])]
                       ELSE verdicts
  BY <1>s DEF Decide
<1>2. /\ showing' = [showing EXCEPT ![k] = None]
      /\ UNCHANGED <<broken, prompts, rstate, handle, result, source>>
  BY DEF Decide, daemonVars, reqVars
<1>3. /\ s \in Unanswered(k) /\ s \notin Unread(k)
      /\ handle[s] = k /\ Sent(s) /\ answered[s] = "none"
  BY <1>s, AgentChannelAssumption DEF FateInv, PromptFate, Unanswered
<1>4. answered'[s] = v /\ \A q \in Req \ {s} : answered'[q] = answered[q]
  BY <1>1, <1>t DEF AgentTypeOK
<1>5. \A q \in Req : source[q] # s
  BY <1>3, AgentChannelAssumption DEF FateInv, SourceFate
<1>6. \A h \in Handle : /\ Unread(h)' = Unread(h)
                        /\ Unanswered(h)' \subseteq Unanswered(h) \ {s}
                        /\ Unanswered(h) \subseteq Req
  <2>1. \A h \in Handle : Unread(h)' = Unread(h)
    BY <1>2 DEF Unread
  <2>2. Unanswered(k)' \subseteq Unanswered(k) \ {s}
    BY <2>1, <1>2, <1>3, <1>t DEF Unanswered, AgentTypeOK
  <2>3. \A h \in Handle \ {k} : Unanswered(h)' = Unanswered(h) /\ s \notin Unanswered(h)
    BY <2>1, <1>2, <1>3, <1>t DEF Unanswered, AgentTypeOK, FateInv, PromptFate
  <2> QED
    BY <2>1, <2>2, <2>3, <1>t, PlaceType
<1>7. ASSUME NEW h \in Handle
      PROVE  /\ \A i \in 1 .. Len(verdicts'[h]) :
                  \/ i \in 1 .. Len(verdicts[h]) /\ verdicts'[h][i] = verdicts[h][i]
                  \/ h = k /\ verdicts'[h][i] = [req |-> s, answer |-> v]
             /\ \A i \in 1 .. Len(verdicts[h]) : verdicts[h][i].req \in Req \ {s}
  <2>1. verdicts[h] \in Seq([req : Req, answer : Answers])
    BY <1>t DEF AgentTypeOK
  <2>2. \/ verdicts'[h] = verdicts[h]
        \/ h = k /\ verdicts'[h] = Append(verdicts[h], [req |-> s, answer |-> v])
    BY <1>1, <1>t DEF AgentTypeOK
  <2>3. \A i \in 1 .. Len(verdicts'[h]) :
          \/ i \in 1 .. Len(verdicts[h]) /\ verdicts'[h][i] = verdicts[h][i]
          \/ h = k /\ verdicts'[h][i] = [req |-> s, answer |-> v]
    <3> DEFINE e == [req |-> s, answer |-> v]
    <3> HIDE DEF e
    <3>1. verdicts'[h] = verdicts[h] \/ (h = k /\ verdicts'[h] = Append(verdicts[h], e))
      BY <2>2 DEF e
    <3>2. \A i \in 1 .. Len(Append(verdicts[h], e)) :
            \/ i \in 1 .. Len(verdicts[h]) /\ Append(verdicts[h], e)[i] = verdicts[h][i]
            \/ Append(verdicts[h], e)[i] = e
      BY <2>1
    <3>3. \A i \in 1 .. Len(verdicts'[h]) :
            \/ i \in 1 .. Len(verdicts[h]) /\ verdicts'[h][i] = verdicts[h][i]
            \/ h = k /\ verdicts'[h][i] = e
      BY <3>1, <3>2
    <3> QED
      BY <3>3 DEF e
  <2>4. ASSUME NEW i \in 1 .. Len(verdicts[h]) PROVE verdicts[h][i].req \in Req \ {s}
    <3>1. verdicts[h][i].req \in Req /\ verdicts[h][i].answer \in Answers
      BY <1>t, PlaceType
    <3>2. answered[verdicts[h][i].req] = verdicts[h][i].answer
      BY DEF FateInv, VerdictFate
    <3> QED
      BY <3>1, <3>2, <1>3 DEF Answers
  <2> QED
    BY <2>3, <2>4
<1>8. PromptFate'
  <2>1. \A h \in Handle : \A q \in Unanswered(h)' :
          handle[q] = h /\ Sent(q)' /\ answered'[q] = "none"
    BY <1>2, <1>4, <1>6 DEF FateInv, PromptFate, Sent
  <2>2. \A h \in Handle : showing'[h] \notin Unread(h)'
    <3>1. None \notin Unread(k)
      BY <1>t, PlaceType, AgentChannelAssumption
    <3> QED
      BY <3>1, <1>2, <1>6, <1>t DEF FateInv, PromptFate, AgentTypeOK
  <2> QED
    BY <2>1, <2>2, <1>2 DEF FateInv, PromptFate
<1>9. VerdictFate'
  <2>1. ASSUME NEW h \in Handle, NEW i \in 1 .. Len(verdicts'[h]),
               NEW x, x = verdicts'[h][i].req, NEW a, a = verdicts'[h][i].answer
        PROVE  /\ handle[x] = h /\ Sent(x) /\ answered'[x] = a
               /\ \A q \in Req : source[q] # x
    <3>1. CASE i \in 1 .. Len(verdicts[h]) /\ verdicts'[h][i] = verdicts[h][i]
      <4>1. x = verdicts[h][i].req /\ a = verdicts[h][i].answer /\ x \in Req \ {s}
        BY <2>1, <3>1, <1>7
      <4>2. /\ handle[x] = h /\ Sent(x) /\ answered[x] = a /\ x \in Written(h)
        BY <3>1, <4>1 DEF FateInv, VerdictFate, Written
      <4> QED
        BY <4>1, <4>2, <1>4 DEF FateInv, VerdictFate
    <3>2. CASE h = k /\ verdicts'[h][i] = [req |-> s, answer |-> v]
      <4>1. x = s /\ a = v
        BY <2>1, <3>2
      <4> QED
        BY <4>1, <3>2, <1>3, <1>4, <1>5
    <3> QED
      BY <3>1, <3>2, <1>7
  <2>2. \A h \in Handle : \A i \in 1 .. Len(verdicts'[h]) :
          /\ handle'[verdicts'[h][i].req] = h /\ Sent(verdicts[h][i].req)'
          /\ answered'[verdicts'[h][i].req] = verdicts'[h][i].answer
          /\ \A q \in Req : source'[q] # verdicts'[h][i].req
    BY <2>1, <1>2 DEF Sent
  <2> QED
    BY <2>2 DEF VerdictFate, Written
<1>10. SourceFate'
  <2>1. \A q \in Req : source[q] # None => source[q] \in Req \ {s}
    BY <1>5, <1>t DEF AgentTypeOK
  <2> QED
    BY <2>1, <1>2, <1>3, <1>4 DEF FateInv, SourceFate, Sent
<1>11. LateFate'
  <2>1. \A h : GivenUp(h)' <=> GivenUp(h)
    BY <1>2 DEF GivenUp
  <2>2. ASSUME NEW h \in Handle PROVE Written(h)' \subseteq Written(h) \cup Unanswered(h)
    <3> SUFFICES ASSUME NEW i \in 1 .. Len(verdicts'[h])
                 PROVE  verdicts'[h][i].req \in Written(h) \cup Unanswered(h)
      BY DEF Written
    <3>1. CASE i \in 1 .. Len(verdicts[h]) /\ verdicts'[h][i] = verdicts[h][i]
      BY <3>1 DEF Written
    <3>2. CASE h = k /\ verdicts'[h][i] = [req |-> s, answer |-> v]
      BY <3>2, <1>3
    <3> QED
      BY <3>1, <3>2, <1>7
  <2>3. \A q \in Req : source[q] \notin {None, q} => GivenUp(handle[q])'
    BY <1>2 DEF GivenUp, FateInv, LateFate
  <2> QED
    BY <2>1, <2>2, <2>3, <1>2, <1>6 DEF FateInv, LateFate
<1> QED
  BY <1>8, <1>9, <1>10, <1>11 DEF FateInv

\* The agent goes, and the prompts it has not answered with it.
LEMMA CloseFate ==
  ASSUME ChannelInv, FateInv, NEW k \in Handle, AgentCloses(k) PROVE FateInv'
<1>t. AgentTypeOK
  BY DEF ChannelInv
<1>1. /\ prompts' = [prompts EXCEPT ![k] = <<>>] /\ showing' = [showing EXCEPT ![k] = None]
      /\ UNCHANGED <<broken, verdicts, answered, rstate, handle, result, source>>
  BY DEF AgentCloses, daemonVars, reqVars
<1>2. /\ prompts'[k] = <<>> /\ showing'[k] = None
      /\ \A h \in Handle \ {k} : prompts'[h] = prompts[h] /\ showing'[h] = showing[h]
  BY <1>1, <1>t DEF AgentTypeOK
<1>3. \A h \in Handle : Unread(h)' = (IF h = k THEN {} ELSE Unread(h))
  BY <1>2 DEF Unread
<1>4. \A h \in Handle : Unanswered(h)' \subseteq Unanswered(h) /\ Written(h)' = Written(h)
  BY <1>1, <1>2, <1>3 DEF Unanswered, Written
<1>5. PromptFate'
  <2>1. \A h \in Handle : \A q \in Unanswered(h)' :
          handle[q] = h /\ Sent(q)' /\ answered[q] = "none"
    BY <1>1, <1>4 DEF FateInv, PromptFate, Sent
  <2>2. \A h \in Handle : \A i, j \in 1 .. Len(prompts'[h]) :
          prompts'[h][i] = prompts'[h][j] => i = j
    BY <1>2 DEF FateInv, PromptFate
  <2>3. \A h \in Handle : showing'[h] \notin Unread(h)'
    BY <1>2, <1>3 DEF FateInv, PromptFate
  <2> QED
    BY <2>1, <2>2, <2>3, <1>1 DEF PromptFate
<1>6. VerdictFate' /\ SourceFate'
  BY <1>1 DEF FateInv, VerdictFate, SourceFate, Sent, Written
<1>7. LateFate'
  BY <1>1, <1>4 DEF FateInv, LateFate, GivenUp
<1> QED
  BY <1>5, <1>6, <1>7 DEF FateInv

-----------------------------------------------------------------------------
LEMMA FateStep == ChannelInv /\ FateInv /\ [Next]_vars => FateInv'
<1> SUFFICES ASSUME ChannelInv, FateInv, [Next]_vars PROVE FateInv'
  OBVIOUS
<1>t. AgentTypeOK
  BY DEF ChannelInv
<1>1. CASE Dispatch
  <2>1. /\ UNCHANGED <<broken, prompts, showing, verdicts, result, source, answered, handle>>
        /\ backlog # <<>>
    BY <1>1 DEF Dispatch, agentVars
  <2>2. \/ UNCHANGED rstate
        \/ \E x \in Req : rstate[x] = "queued" /\ rstate' = [rstate EXCEPT ![x] = "seek"]
    <3>1. backlog \in Seq(Handle \cup Req)
      BY <1>t DEF AgentTypeOK
    <3>2. 1 \in 1 .. Len(backlog) /\ Head(backlog) = backlog[1]
      BY <3>1, <2>1
    <3>3. Head(backlog) \in Queued
      BY <3>2 DEF ChannelInv, QueueInv
    <3> QED
      BY <3>3, <1>1, AgentChannelAssumption DEF Dispatch, Queued
  <2>3. \A r \in Req : /\ rstate'[r] = "await" <=> rstate[r] = "await"
                       /\ rstate'[r] = "done" <=> rstate[r] = "done"
    BY <2>2, <1>t DEF AgentTypeOK
  <2> QED
    BY <2>1, <2>3, <1>t, QuietFate
<1>2. ASSUME NEW r \in Req, RequestArrives(r) \/ Seek(r) \/ WaitTimesOut(r) \/ TakeGate(r)
      PROVE  FateInv'
  <2>1. /\ UNCHANGED <<broken, prompts, showing, verdicts, result, source, answered>>
        /\ rstate[r] \in {"none", "seek", "waiting", "have"}
        /\ \E x \in {"queued", "have", "waiting", "timedout", "prompt"} :
              rstate' = [rstate EXCEPT ![r] = x]
    BY <1>2 DEF RequestArrives, Seek, WaitTimesOut, TakeGate, agentVars, daemonVars
  <2>2. \A q \in Req : /\ rstate'[q] = "await" <=> rstate[q] = "await"
                       /\ rstate'[q] = "done" <=> rstate[q] = "done"
    BY <2>1, <1>t DEF AgentTypeOK
  <2>3. \A q \in Req : \/ handle'[q] = handle[q]
                       \/ /\ ~Sent(q) /\ handle'[q] \in Handle
                          /\ Uid[handle'[q]] = Uid[q]
    <3>1. Uid[r] \in Uids
      BY DEF Uids
    <3>2. registry[Uid[r]] # None =>
            registry[Uid[r]] \in Handle /\ Uid[registry[Uid[r]]] = Uid[r]
      BY <3>1, <1>t DEF AgentTypeOK
    <3>3. \/ handle' = handle
          \/ /\ registry[Uid[r]] # None
             /\ handle' = [handle EXCEPT ![r] = registry[Uid[r]]]
      BY <1>2 DEF RequestArrives, Seek, WaitTimesOut, TakeGate
    <3>4. ~Sent(r)
      BY <2>1 DEF Sent
    <3> QED
      BY <3>2, <3>3, <3>4, <1>t DEF AgentTypeOK
  <2> QED
    BY <2>1, <2>2, <2>3, <1>t, QuietFate
<1>3. ASSUME NEW r \in Req, Send(r) \/ Returns(r) PROVE FateInv'
  BY <1>3, SendFate, FailFate, ReadFate DEF Returns
<1>4. ASSUME NEW h \in Handle, AgentConnects(h) \/ HandlerStep(h) PROVE FateInv'
  <2>1. UNCHANGED <<broken, prompts, showing, verdicts, result, source, answered, handle>>
    BY <1>4 DEF AgentConnects, HandlerStep, Register, Unregister, agentVars, reqVars
  <2>2. \A r \in Req : /\ rstate'[r] = "await" <=> rstate[r] = "await"
                       /\ rstate'[r] = "done" <=> rstate[r] = "done"
    BY <1>4 DEF AgentConnects, HandlerStep, Register, Unregister, reqVars
  <2> QED
    BY <2>1, <2>2, <1>t, QuietFate
<1>5. ASSUME NEW h \in Handle, Show(h) \/ Decide(h) \/ AgentCloses(h) PROVE FateInv'
  BY <1>5, ShowFate, DecideFate, CloseFate
<1>6. CASE UNCHANGED vars
  BY <1>6, <1>t, QuietFate DEF vars, daemonVars, agentVars, reqVars
<1> QED
  BY <1>1, <1>2, <1>3, <1>4, <1>5, <1>6 DEF Next, RequestStep, Returns

LEMMA FateSafe == Spec => [](ChannelInv /\ FateInv)
BY ChannelInit, FateInit, ChannelStep, FateStep, PTL DEF Spec

\* One press of "allow", by a human of the request's own uid, allows one
\* request, whatever timed out, reconnected or was read late
\* (approval.rs:286-326).
THEOREM AllowIsOwned == Spec => []AllowUsedOnce
<1>1. ChannelInv /\ FateInv => AllowUsedOnce
  <2> SUFFICES ASSUME ChannelInv, FateInv, NEW r \in Req, result[r] = "allow"
               PROVE  /\ source[r] # None
                      /\ answered[source[r]] = "allow"
                      /\ Uid[source[r]] = Uid[r]
                      /\ \A q \in Req \ {r} : result[q] = "allow" => source[q] # source[r]
    BY DEF AllowUsedOnce
  <2>1. source[r] # None /\ source[r] \in Req
    BY DEF FateInv, SourceFate, ChannelInv, AgentTypeOK
  <2>2. /\ answered[source[r]] = "allow" /\ handle[source[r]] = handle[r]
        /\ handle[r] # None /\ \A q \in Req \ {r} : source[q] # source[r]
    BY <2>1 DEF FateInv, SourceFate
  <2>3. Uid[source[r]] = Uid[r]
    BY <2>1, <2>2 DEF FateInv, SourceFate
  <2> QED
    BY <2>1, <2>2, <2>3
<1> QED
  BY <1>1, FateSafe, PTL

\* A request is decided by the answer to the prompt of another one only when
\* that one is over and a request has given the connection up
\* (approval.rs:286-326).
THEOREM StrayIsLate == Spec => []StrayVerdictIsLate
<1>1. FateInv => StrayVerdictIsLate
  BY DEF FateInv, SourceFate, LateFate, GivenUp, StrayVerdictIsLate
<1> QED
  BY <1>1, FateSafe, PTL

\* A dialog that is not that of the request at the gate is on a connection that
\* was given up (approval.rs:307-318, 375-380).
THEOREM AgentDialogsLate == Spec => []DialogsAreLate
<1>1. ASSUME ChannelInv, FateInv, NEW h \in Handle, showing[h] # None
      PROVE  showing[h] = gate \/ broken[h]
  <2>1. showing[h] \in Req /\ showing[h] \in Unanswered(h)
    BY <1>1 DEF ChannelInv, AgentTypeOK, Unanswered
  <2>2. Sent(showing[h])
    BY <1>1, <2>1 DEF FateInv, PromptFate
  <2>3. CASE rstate[showing[h]] = "await"
    BY <1>1, <2>1, <2>3 DEF ChannelInv, GateAroundPrompt
  <2>4. CASE rstate[showing[h]] = "done"
    BY <1>1, <2>1, <2>4 DEF FateInv, LateFate, GivenUp
  <2> QED
    BY <2>2, <2>3, <2>4 DEF Sent
<1>2. ChannelInv /\ FateInv => DialogsAreLate
  BY <1>1 DEF DialogsAreLate
<1> QED
  BY <1>2, FateSafe, PTL

=============================================================================
