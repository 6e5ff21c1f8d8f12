---------------------------- MODULE BrokerProofs ----------------------------
(***************************************************************************)
(* Proofs about module Broker, for any number of connections, slots,       *)
(* policies, edits and crashes.                                            *)
(***************************************************************************)
EXTENDS Broker, ReloadProofs, OperatorProofs

-----------------------------------------------------------------------------
(* The broker implements the reload. *)

\* Every step of the broker is a step of the reload or leaves it alone.
LEMMA BrokerStepReload == [BrokerNext]_vars => [ReloadNext]_reloadVars
<1> SUFFICES ASSUME [BrokerNext]_vars PROVE [ReloadNext]_reloadVars
  OBVIOUS
<1>1. ASSUME NEW c \in Conn, Connect(c) \/ Accept(c) PROVE UNCHANGED reloadVars
  BY <1>1 DEF Connect, Accept
<1>2. ASSUME NEW c \in Conn, Dispatch(c) PROVE ReloadNext
  BY <1>2 DEF Dispatch, ReloadNext
<1>3. ASSUME NEW c \in Conn, WorkerReload(c) PROVE ReloadNext
  BY <1>3 DEF WorkerReload, ReloadNext, ReloadWork
<1>4. ASSUME NEW c \in Conn, Release(c) PROVE ReloadNext
  BY <1>4 DEF Release, ReloadNext
<1>5. ASSUME NEW c \in Conn,
             \/ TurnAway(c) \/ Authorise(c) \/ Vet(c) \/ CheckRate(c)
             \/ CheckCache(c) \/ NoteHit(c) \/ Ask(c) \/ NoAgent(c)
             \/ NoteApproval(c) \/ Start(c) \/ WriteAudit(c) \/ Reply(c)
             \/ Receive(c) \/ Answer(c) \/ Exit(c)
      PROVE  UNCHANGED reloadVars
  BY <1>5 DEF TurnAway, Authorise, Vet, CheckRate, CheckCache, NoteHit, Ask,
              NoAgent, NoteApproval, Start, WriteAudit, Reply, Receive, Answer, Exit
<1>6. CASE Tick
  BY <1>6 DEF Tick
<1>7. CASE EditFile \/ Startup \/ BrokerCrash
  BY <1>7 DEF EditFile, Startup, BrokerCrash, ReloadNext
<1>8. CASE UNCHANGED vars
  BY <1>8 DEF vars
<1> QED
  BY <1>1, <1>2, <1>3, <1>4, <1>5, <1>6, <1>7, <1>8
     DEF BrokerNext, Worker, Awaited, AcceptLoop

\* Whatever the pipeline, the accept loop and the crashes do, the broker's
\* policy is handled as module Reload says: what is proved of Reload holds of
\* the broker.
THEOREM BrokerImplementsReload == BrokerSpec => ReloadSpec
<1>1. BrokerInit => ReloadInit
  BY DEF BrokerInit
<1> QED
  BY <1>1, BrokerStepReload, PTL DEF BrokerSpec, ReloadSpec

-----------------------------------------------------------------------------
(* Types, slots and the gate. *)

\* The gate is held around approve(), by the request that is in it.
GateHeld == \A c \in Conn : stage[c] = "dialog" <=> gate = c

\* The slots are those of the workers only because no worker is counted twice
\* or forgotten, and a slot can be given back only because it was counted: the
\* types need the count.
PoolInv ==
  /\ BrokerTypeOK
  /\ OneReloader
  /\ IsFiniteSet(Workers)
  /\ SlotsExact
  /\ GateHeld

\* How a move of one connection changes the set of the workers.
LEMMA MoveWorkers ==
  ASSUME stage \in [Conn -> Stage], NEW c \in Conn, NEW from, NEW to, Move(c, from, to),
         IsFiniteSet(Workers)
  PROVE  /\ IsFiniteSet(Workers')
         /\ from \in Live /\ to \in Live => Workers' = Workers
         /\ from \notin Live /\ to \notin Live => Workers' = Workers
         /\ from \notin Live /\ to \in Live => Cardinality(Workers') = Cardinality(Workers) + 1
         /\ from \in Live /\ to \notin Live => Cardinality(Workers') = Cardinality(Workers) - 1
<1>1. /\ from \in Live /\ to \in Live => Workers' = Workers
      /\ from \notin Live /\ to \notin Live => Workers' = Workers
      /\ from \notin Live /\ to \in Live => c \notin Workers /\ Workers' = Workers \cup {c}
      /\ from \in Live /\ to \notin Live => c \in Workers /\ Workers' = Workers \ {c}
  BY DEF Move, Workers
<1>2. /\ IsFiniteSet(Workers \cup {c})
      /\ c \notin Workers => Cardinality(Workers \cup {c}) = Cardinality(Workers) + 1
  BY FS_AddElement
<1>3. /\ IsFiniteSet(Workers \ {c})
      /\ c \in Workers => Cardinality(Workers \ {c}) = Cardinality(Workers) - 1
  BY FS_RemoveElement
<1> QED
  BY <1>1, <1>2, <1>3

LEMMA PoolInit == BrokerInit => PoolInv
<1> SUFFICES ASSUME BrokerInit PROVE PoolInv
  OBVIOUS
<1>1. SafeInv
  BY ReloadInitSafe DEF BrokerInit
<1>2. Workers = {}
  BY DEF BrokerInit, Workers, Live
<1>3. IsFiniteSet(Workers) /\ Cardinality(Workers) = 0
  BY <1>2, FS_EmptySet
<1>4. Version = 1
  BY DEF BrokerInit, ReloadInit, Version
<1>5. /\ MaxConcurrent \in Nat /\ EmptyArgv \in Argv
      /\ NoConn \in Conn \cup {NoConn} /\ <<>> \in Seq(Conn)
  BY BrokerAssumption
<1>6. BrokerTypeOK
  BY <1>1, <1>4, <1>5, EmptyStateType
     DEF BrokerInit, BrokerTypeOK, Typed, Staged, SafeInv, ReloadInit, Stage, Live
<1> QED
  BY <1>1, <1>3, <1>6, BrokerAssumption, ReloadAssumption
     DEF PoolInv, SafeInv, SlotsExact, GateHeld, BrokerInit

\* A step of the pipeline, which neither takes nor gives back a slot and neither
\* opens nor closes a dialog, is sound when it is for its own connection.
LEMMA PipelineStep ==
  ASSUME PoolInv, SafeInv', NEW c \in Conn,
         NEW from \in Live \ {"dialog"}, NEW to \in Live \ {"dialog"},
         Move(c, from, to), UNCHANGED <<reloadVars, slots, gate>>,
         \A d \in Conn \ {c} : ver'[d] = ver[d] /\ rule'[d] = rule[d],
         Typed', Staged(c)'
  PROVE  PoolInv'
<1>1. /\ stage \in [Conn -> Stage] /\ IsFiniteSet(Workers) /\ SlotsExact /\ GateHeld
      /\ \A d \in Conn : Staged(d)
  BY DEF PoolInv, BrokerTypeOK, Typed
<1>2. IsFiniteSet(Workers') /\ Workers' = Workers
  BY <1>1, MoveWorkers
<1>3. GateHeld'
  BY <1>1 DEF GateHeld, Move
<1>4. \A d \in Conn : Staged(d)'
  BY <1>1 DEF Staged, Move, reloadVars
<1> QED
  BY <1>1, <1>2, <1>3, <1>4 DEF SlotsExact, PoolInv, BrokerTypeOK, SafeInv

\* Every step keeps the types, the count of the slots and the gate.
LEMMA PoolStep == PoolInv /\ [BrokerNext]_vars => PoolInv'
<1> SUFFICES ASSUME PoolInv, [BrokerNext]_vars PROVE PoolInv'
  OBVIOUS
<1>s. SafeInv /\ SafeInv'
  <2>1. SafeInv
    BY DEF PoolInv, BrokerTypeOK, SafeInv
  <2> QED
    BY <2>1, BrokerStepReload, ReloadStepSafe
<1>t. /\ Typed /\ SlotsExact /\ GateHeld /\ IsFiniteSet(Workers)
      /\ \A c \in Conn : Staged(c)
  BY DEF PoolInv, BrokerTypeOK
<1>v. Version \in Nat /\ Version >= 1 /\ \A v \in 1 .. Version : history[v] \in Contents
  BY <1>s DEF SafeInv, ReloadTypeOK, Version
<1>n. MaxConcurrent \in Nat /\ NoConn \notin Conn
  BY BrokerAssumption, ReloadAssumption
<1>p. /\ pc \in [Conn -> ReloadPC] /\ bundle \in [Conn -> 0 .. Version]
      /\ \A c \in Conn : pc[c] = "serve" => bundle[c] # 0
  BY <1>s DEF SafeInv, ReloadTypeOK
<1>k. \A c \in Conn :
          stage[c] = "vet" => Verdict[history[ver[c]]][req[c]] \in Rules \cup {NoRule}
  <2> SUFFICES ASSUME NEW c \in Conn, stage[c] = "vet"
               PROVE  Verdict[history[ver[c]]][req[c]] \in Rules \cup {NoRule}
    OBVIOUS
  <2>0. Staged(c) /\ ver[c] \in 0 .. Version /\ req[c] \in Argv
    BY <1>t DEF Typed
  <2>1. ver[c] \in 1 .. Version
    BY <1>v, <2>0 DEF Staged, Live
  <2>2. history[ver[c]] \in Contents
    BY <1>v, <2>1
  <2> QED
    BY <2>0, <2>1, <2>2, BrokerAssumption
<1>o. \A c \in Conn : stage[c] \in {"rate", "cache", "hit", "approve", "record"}
                       => ScopeOf(c) \in Scope /\ rule[c] \in Rules
  <2> SUFFICES ASSUME NEW c \in Conn, stage[c] \in {"rate", "cache", "hit", "approve", "record"}
               PROVE  ScopeOf(c) \in Scope /\ rule[c] \in Rules
    OBVIOUS
  <2>0. Staged(c) /\ ver[c] \in 0 .. Version /\ rule[c] \in Rules \cup {NoRule}
    BY <1>t DEF Typed
  <2>1. ver[c] \in 1 .. Version /\ rule[c] \in Rules
    BY <1>v, <2>0 DEF Staged, Live
  <2>2. history[ver[c]] \in Contents
    BY <1>v, <2>1
  <2> QED
    BY <2>1, <2>2, BrokerAssumption DEF ScopeOf
<1>h. history' = history => Version' = Version
  BY DEF Version
<1>5. ASSUME NEW c \in Conn, TurnAway(c) PROVE PoolInv'
  <2>1. PICK o \in Early : Move(c, "worker", "reply") /\ out' = [out EXCEPT ![c] = o]
    BY <1>5 DEF TurnAway, Settle, Early
  <2>2. /\ pc[c] \in {"serve", "refused"}
        /\ ver' = ver \/ ver' = [ver EXCEPT ![c] = bundle[c]]
        /\ UNCHANGED <<reloadVars, askVars, since, groundVars, audit, sharedVars, timeVars>>
    BY <1>5 DEF TurnAway
  <2>3. Typed'
    <3>1. stage' \in [Conn -> Stage]
      BY <1>t, <2>1 DEF Move, Typed, Stage, Live
    <3>2. out' \in [Conn -> Outcome \cup Early \cup {"none"}]
      BY <1>t, <2>1 DEF Typed
    <3>3. ver' \in [Conn -> 0 .. Version]
      <4>1. CASE ver' = ver
        BY <1>t, <4>1 DEF Typed
      <4>2. CASE ver' = [ver EXCEPT ![c] = bundle[c]]
        BY <1>t, <1>p, <4>2 DEF Typed
      <4> QED
        BY <2>2, <4>1, <4>2
    <3> QED
      BY <1>t, <1>h, <2>2, <3>1, <3>2, <3>3
         DEF Typed, reloadVars, askVars, groundVars, sharedVars, timeVars
  <2>4. Staged(c)' /\ \A d \in Conn \ {c} : ver'[d] = ver[d] /\ rule'[d] = rule[d]
    BY <1>t, <1>p, <2>1, <2>2 DEF Move, Typed, Staged, Live, reloadVars, askVars
  <2> QED
    BY <1>s, <2>1, <2>2, <2>3, <2>4, PipelineStep DEF Live, sharedVars
<1>6. ASSUME NEW c \in Conn, Authorise(c) PROVE PoolInv'
  <2>1. Typed'
    BY <1>6, <1>t, <1>h, <1>p
       DEF Authorise, Stage, Live, Move, Typed, reloadVars, askVars, groundVars,
           sharedVars, timeVars
  <2>2. Staged(c)' /\ \A d \in Conn \ {c} : ver'[d] = ver[d] /\ rule'[d] = rule[d]
    BY <1>6, <1>t, <1>p
       DEF Authorise, Move, Typed, Staged, Live, reloadVars, askVars, groundVars
  <2> QED
    BY <1>6, <1>s, <2>1, <2>2, PipelineStep DEF Authorise, Live, sharedVars
<1>7. ASSUME NEW c \in Conn, Receive(c) PROVE PoolInv'
  <2>1. Typed'
    BY <1>7, <1>t, <1>h
       DEF Receive, Settle, Outcome, Denials, Early, Stage, Live, Move, Typed, reloadVars,
           askVars, groundVars, sharedVars, timeVars
  <2>2. Staged(c)' /\ \A d \in Conn \ {c} : ver'[d] = ver[d] /\ rule'[d] = rule[d]
    BY <1>7, <1>t, <1>p
       DEF Receive, Settle, Early, Move, Typed, Staged, Live, reloadVars, askVars,
           groundVars
  <2> QED
    BY <1>7, <1>s, <2>1, <2>2, PipelineStep DEF Receive, Settle, Early, Live, sharedVars
<1>8. ASSUME NEW c \in Conn, Vet(c) PROVE PoolInv'
  <2>1. /\ UNCHANGED <<reloadVars, req, ver, groundVars, audit, sharedVars, timeVars>>
        /\ stage[c] = "vet"
    BY <1>8 DEF Vet
  <2>2. CASE \E o \in Denials : /\ Move(c, "vet", "audit") /\ out' = [out EXCEPT ![c] = o]
                                /\ UNCHANGED <<rule, since>>
    <3>1. Typed'
      BY <1>t, <1>h, <2>1, <2>2 DEF Move, Typed, Stage, Live, Outcome, reloadVars,
         groundVars, sharedVars, timeVars
    <3>2. Staged(c)' /\ \A d \in Conn \ {c} : ver'[d] = ver[d] /\ rule'[d] = rule[d]
      BY <1>t, <1>p, <2>1, <2>2 DEF Move, Typed, Staged, Live, reloadVars
    <3> QED
      BY <1>s, <2>1, <2>2, <3>1, <3>2, PipelineStep DEF Live, sharedVars
  <2>3. CASE LET admitted == Verdict[history[ver[c]]][req[c]]
             IN  /\ admitted # NoRule
                 /\ MoveTimed(c, "vet", "rate")
                 /\ rule' = [rule EXCEPT ![c] = admitted]
                 /\ UNCHANGED out
    <3>1. Typed'
      BY <1>t, <1>h, <1>k, <2>1, <2>3 DEF MoveTimed, Move, Typed, Stage, Live, reloadVars,
         groundVars, sharedVars, timeVars
    <3>2. Staged(c)' /\ \A d \in Conn \ {c} : ver'[d] = ver[d] /\ rule'[d] = rule[d]
      BY <1>t, <1>p, <2>1, <2>3 DEF MoveTimed, Move, Typed, Staged, Live, reloadVars
    <3> QED
      BY <1>s, <2>1, <2>3, <3>1, <3>2, PipelineStep DEF MoveTimed, Live, sharedVars
  <2> QED
    BY <1>8, <2>2, <2>3 DEF Vet, Settle, Early, Denials
<1>9. ASSUME NEW c \in Conn, CheckRate(c) PROVE PoolInv'
  <2>1. PICK now \in Instants(c) : approvals' = PruneRate(approvals, ScopeOf(c), rule[c], now)
    BY <1>9 DEF CheckRate
  <2>2. approvals' \in ApprovalState
    <3>1. now \in Nat /\ req[c] \in Argv
      BY <1>t DEF Instants, Typed
    <3>2. approvals \in ApprovalState /\ ScopeOf(c) \in Scope /\ rule[c] \in Rules
      BY <1>9, <1>t, <1>o DEF CheckRate, Typed
    <3> QED
      BY <2>1, <3>1, <3>2, ScopingType
  <2>3. /\ UNCHANGED <<reloadVars, askVars, ver, groundVars, audit, backlog, slots, gate,
                       counted, timeVars>>
        /\ \/ /\ Move(c, "rate", "audit") /\ out' = [out EXCEPT ![c] = "denied-rate"]
              /\ UNCHANGED since
           \/ MoveTimed(c, "rate", "cache") /\ UNCHANGED out
    BY <1>9 DEF CheckRate, Settle, Early
  <2>4. Typed'
    <3>1. PICK to \in Live : Move(c, "rate", to)
      BY <2>3 DEF MoveTimed, Live
    <3>2. stage' \in [Conn -> Stage]
      BY <1>t, <3>1 DEF Move, Typed, Stage
    <3>3. CASE UNCHANGED since /\ out' = [out EXCEPT ![c] = "denied-rate"]
      BY <1>t, <1>h, <2>2, <2>3, <3>2, <3>3
         DEF Typed, Outcome, Denials, reloadVars, askVars, groundVars, timeVars
    <3>4. CASE UNCHANGED out /\ since' = [since EXCEPT ![c] = clock]
      BY <1>t, <1>h, <2>2, <2>3, <3>2, <3>4
         DEF Typed, reloadVars, askVars, groundVars, timeVars
    <3> QED
      BY <2>3, <3>3, <3>4 DEF MoveTimed
  <2>5. Staged(c)' /\ \A d \in Conn \ {c} : ver'[d] = ver[d] /\ rule'[d] = rule[d]
    BY <1>t, <1>p, <2>3 DEF MoveTimed, Move, Typed, Staged, Live, reloadVars, askVars
  <2> QED
    BY <1>s, <2>3, <2>4, <2>5, PipelineStep DEF MoveTimed, Live
<1>10. ASSUME NEW c \in Conn, CheckCache(c) PROVE PoolInv'
  <2>1. PICK now \in Instants(c) : seen' = [seen EXCEPT ![c] = now] \/ UNCHANGED seen
    BY <1>10 DEF CheckCache
  <2>2. /\ UNCHANGED <<reloadVars, askVars, out, ver, human, noted, ran, audit,
                       sharedVars, timeVars>>
        /\ \E to \in {"hit", "approve"} : MoveTimed(c, "cache", to)
    BY <1>10 DEF CheckCache
  <2>3. now \in Nat
    BY <1>t DEF Instants, Typed
  <2>4. Typed'
    <3>1. PICK to \in {"hit", "approve"} : MoveTimed(c, "cache", to)
      BY <2>2
    <3>2. stage' \in [Conn -> Stage] /\ since' \in [Conn -> 0 .. clock]
      BY <1>t, <3>1 DEF MoveTimed, Move, Typed, Stage, Live
    <3>3. CASE seen' = [seen EXCEPT ![c] = now]
      BY <1>t, <1>h, <2>2, <2>3, <3>2, <3>3
         DEF Typed, reloadVars, askVars, sharedVars, timeVars
    <3>4. CASE UNCHANGED seen
      BY <1>t, <1>h, <2>2, <3>2, <3>4 DEF Typed, reloadVars, askVars, sharedVars, timeVars
    <3> QED
      BY <2>1, <3>3, <3>4
  <2>5. Staged(c)' /\ \A d \in Conn \ {c} : ver'[d] = ver[d] /\ rule'[d] = rule[d]
    BY <1>t, <1>p, <2>2 DEF MoveTimed, Move, Typed, Staged, Live, reloadVars, askVars
  <2> QED
    BY <1>s, <2>2, <2>4, <2>5, PipelineStep DEF MoveTimed, Live, sharedVars
<1>11. ASSUME NEW c \in Conn, NoteHit(c) PROVE PoolInv'
  <2>1. Typed'
    BY <1>11, <1>t, <1>h, <1>o, ScopingType
       DEF NoteHit, Note, Instants, Stage, Live, Move, Typed, reloadVars, askVars,
           groundVars, sharedVars, timeVars
  <2>2. Staged(c)' /\ \A d \in Conn \ {c} : ver'[d] = ver[d] /\ rule'[d] = rule[d]
    BY <1>11, <1>t, <1>p
       DEF NoteHit, Note, Move, Typed, Staged, Live, reloadVars, askVars, groundVars
  <2> QED
    BY <1>11, <1>s, <2>1, <2>2, PipelineStep DEF NoteHit, Note, Live, sharedVars
<1>12. ASSUME NEW c \in Conn, NoAgent(c) PROVE PoolInv'
  <2>1. Typed'
    BY <1>12, <1>t, <1>h
       DEF NoAgent, Settle, Outcome, Denials, Early, Stage, Live, Move, Typed, reloadVars,
           askVars, groundVars, sharedVars, timeVars
  <2>2. Staged(c)' /\ \A d \in Conn \ {c} : ver'[d] = ver[d] /\ rule'[d] = rule[d]
    BY <1>12, <1>t, <1>p
       DEF NoAgent, Settle, Early, Move, Typed, Staged, Live, reloadVars, askVars,
           groundVars
  <2> QED
    BY <1>12, <1>s, <2>1, <2>2, PipelineStep DEF NoAgent, Settle, Early, Live, sharedVars
<1>13. ASSUME NEW c \in Conn, NoteApproval(c) PROVE PoolInv'
  <2>1. Typed'
    BY <1>13, <1>t, <1>h, <1>o, ScopingType
       DEF NoteApproval, Note, Instants, Stage, Live, Move, Typed, reloadVars, askVars,
           groundVars, sharedVars, timeVars
  <2>2. Staged(c)' /\ \A d \in Conn \ {c} : ver'[d] = ver[d] /\ rule'[d] = rule[d]
    BY <1>13, <1>t, <1>p
       DEF NoteApproval, Note, Move, Typed, Staged, Live, reloadVars, askVars, groundVars
  <2> QED
    BY <1>13, <1>s, <2>1, <2>2, PipelineStep DEF NoteApproval, Note, Live, sharedVars
<1>14. ASSUME NEW c \in Conn, Start(c) PROVE PoolInv'
  <2>1. Typed'
    BY <1>14, <1>t, <1>h
       DEF Start, Settle, Ground, Outcome, Denials, Early, Stage, Live, Move, Typed,
           reloadVars, askVars, groundVars, sharedVars, timeVars
  <2>2. Staged(c)' /\ \A d \in Conn \ {c} : ver'[d] = ver[d] /\ rule'[d] = rule[d]
    BY <1>14, <1>t, <1>p
       DEF Start, Settle, Early, Move, Typed, Staged, Live, reloadVars, askVars,
           groundVars
  <2> QED
    BY <1>14, <1>s, <2>1, <2>2, PipelineStep DEF Start, Settle, Early, Live, sharedVars
<1>15. ASSUME NEW c \in Conn, Exit(c) PROVE PoolInv'
  <2>1. Typed'
    BY <1>15, <1>t, <1>h
       DEF Exit, Settle, Outcome, Denials, Early, Stage, Live, Move, Typed, reloadVars,
           askVars, groundVars, sharedVars, timeVars
  <2>2. Staged(c)' /\ \A d \in Conn \ {c} : ver'[d] = ver[d] /\ rule'[d] = rule[d]
    BY <1>15, <1>t, <1>p
       DEF Exit, Settle, Early, Move, Typed, Staged, Live, reloadVars, askVars, groundVars
  <2> QED
    BY <1>15, <1>s, <2>1, <2>2, PipelineStep DEF Exit, Settle, Early, Live, sharedVars
<1>16. ASSUME NEW c \in Conn, WriteAudit(c) PROVE PoolInv'
  <2>1. Typed'
    BY <1>16, <1>t, <1>h
       DEF WriteAudit, Stage, Live, Move, Typed, reloadVars, askVars, groundVars,
           sharedVars, timeVars
  <2>2. Staged(c)' /\ \A d \in Conn \ {c} : ver'[d] = ver[d] /\ rule'[d] = rule[d]
    BY <1>16, <1>t, <1>p
       DEF WriteAudit, Move, Typed, Staged, Live, reloadVars, askVars, groundVars
  <2> QED
    BY <1>16, <1>s, <2>1, <2>2, PipelineStep DEF WriteAudit, Live, sharedVars
<1>17. ASSUME NEW c \in Conn, Reply(c) PROVE PoolInv'
  <2>1. Typed'
    BY <1>17, <1>t, <1>h
       DEF Reply, Stage, Live, Move, Typed, reloadVars, askVars, groundVars, sharedVars,
           timeVars
  <2>2. Staged(c)' /\ \A d \in Conn \ {c} : ver'[d] = ver[d] /\ rule'[d] = rule[d]
    BY <1>17, <1>t, <1>p DEF Reply, Move, Typed, Staged, Live, reloadVars, askVars, groundVars
  <2> QED
    BY <1>17, <1>s, <2>1, <2>2, PipelineStep DEF Reply, Live, sharedVars
<1>18. ASSUME NEW c \in Conn, Ask(c) PROVE PoolInv'
  <2>1. Typed'
    BY <1>18, <1>t, <1>h
       DEF Ask, Move, Typed, Stage, Live, reloadVars, askVars, groundVars, timeVars
  <2>2. \A d \in Conn : Staged(d)'
    BY <1>18, <1>t DEF Ask, Move, Typed, Staged, Live, reloadVars, askVars
  <2>3. IsFiniteSet(Workers') /\ SlotsExact'
    BY <1>18, <1>t, MoveWorkers DEF Ask, SlotsExact, Typed, Live
  <2>4. GateHeld'
    BY <1>18, <1>t, <1>n DEF Ask, Move, GateHeld, Typed
  <2> QED
    BY <1>s, <2>1, <2>2, <2>3, <2>4 DEF PoolInv, BrokerTypeOK, SafeInv
<1>19. ASSUME NEW c \in Conn, Answer(c) PROVE PoolInv'
  <2>1. PICK to \in {"record", "audit"} : Move(c, "dialog", to)
    BY <1>19 DEF Answer, MoveTimed, Settle, Early
  <2>2. Typed'
    <3>1. stage' \in [Conn -> Stage]
      BY <1>t, <2>1 DEF Move, Typed, Stage, Live
    <3>2. /\ gate' = NoConn
          /\ UNCHANGED <<reloadVars, askVars, ver, seen, noted, ran, audit,
                         backlog, slots, approvals, counted, timeVars>>
      BY <1>19 DEF Answer
    <3>3. CASE /\ since' = [since EXCEPT ![c] = clock] /\ UNCHANGED out
               /\ human' = [human EXCEPT ![c] = "allow"]
      BY <1>t, <1>h, <3>1, <3>2, <3>3 DEF Typed, reloadVars, askVars, timeVars
    <3>4. CASE /\ out' = [out EXCEPT ![c] = "denied-user"] /\ UNCHANGED since
               /\ human' = [human EXCEPT ![c] = "deny"]
      BY <1>t, <1>h, <3>1, <3>2, <3>4
         DEF Typed, Outcome, Denials, reloadVars, askVars, timeVars
    <3>5. CASE out' = [out EXCEPT ![c] = "approver-error"] /\ UNCHANGED <<since, human>>
      BY <1>t, <1>h, <3>1, <3>2, <3>5 DEF Typed, Outcome, reloadVars, askVars, timeVars
    <3> QED
      BY <1>19, <3>3, <3>4, <3>5 DEF Answer, MoveTimed, Settle
  <2>3. UNCHANGED <<reloadVars, ver, rule, slots>> /\ gate' = NoConn
    BY <1>19 DEF Answer, askVars
  <2>4. \A d \in Conn : Staged(d)'
    BY <1>t, <2>1, <2>3 DEF Move, Typed, Staged, Live, reloadVars
  <2>5. IsFiniteSet(Workers') /\ SlotsExact'
    BY <1>t, <2>1, <2>3, MoveWorkers DEF SlotsExact, Typed, Live
  <2>6. GateHeld'
    BY <1>t, <1>n, <2>1, <2>3 DEF Move, GateHeld, Typed
  <2> QED
    BY <1>s, <2>2, <2>4, <2>5, <2>6 DEF PoolInv, BrokerTypeOK, SafeInv
<1>20. ASSUME NEW c \in Conn, Connect(c) \/ Accept(c) PROVE PoolInv'
  <2>1. PICK from \in Stage \ Live, to \in Stage \ Live : Move(c, from, to)
    BY <1>20 DEF Connect, Accept, Stage, Live
  <2>2. UNCHANGED <<reloadVars, askVars, since, out, ver, groundVars, audit,
                    slots, approvals, gate, counted, timeVars>>
    BY <1>20 DEF Connect, Accept
  <2>b. backlog' \in Seq(Conn)
    <3>1. CASE Connect(c)
      BY <1>t, <3>1 DEF Connect, Typed
    <3>2. CASE Accept(c)
      BY <1>t, <3>2 DEF Accept, Typed
    <3> QED
      BY <1>20, <3>1, <3>2
  <2>3. Typed'
    <3>1. stage' \in [Conn -> Stage]
      BY <1>t, <2>1 DEF Move, Typed
    <3> QED
      BY <1>t, <1>h, <2>2, <2>b, <3>1 DEF Typed, reloadVars, askVars, groundVars, timeVars
  <2>4. \A d \in Conn : Staged(d)'
    BY <1>t, <2>1, <2>2 DEF Move, Typed, Staged, reloadVars, askVars
  <2>5. IsFiniteSet(Workers') /\ SlotsExact'
    BY <1>t, <2>1, <2>2, MoveWorkers DEF SlotsExact, Typed
  <2>6. GateHeld'
    BY <1>t, <2>1, <2>2 DEF Move, GateHeld, Typed, Live
  <2> QED
    BY <1>s, <2>3, <2>4, <2>5, <2>6 DEF PoolInv, BrokerTypeOK, SafeInv
<1>21. ASSUME NEW c \in Conn, Dispatch(c) PROVE PoolInv'
  <2>1. /\ Move(c, "accepted", "worker") /\ slots < MaxConcurrent /\ slots' = slots + 1
        /\ UNCHANGED <<askVars, since, out, ver, groundVars, audit, backlog, approvals,
                       gate, counted, timeVars>>
        /\ pc' = [pc EXCEPT ![c] = "hash"] /\ UNCHANGED history
    BY <1>21 DEF Dispatch, Begin, Goto
  <2>2. Typed'
    BY <1>t, <1>h, <2>1 DEF Move, Typed, Stage, Live, askVars, groundVars, timeVars
  <2>3. \A d \in Conn : Staged(d)'
    BY <1>t, <1>p, <2>1 DEF Move, Typed, Staged, Live, ReloadPC, Locked, askVars
  <2>4. IsFiniteSet(Workers') /\ Cardinality(Workers') = Cardinality(Workers) + 1
    <3>1. "accepted" \notin Live /\ "worker" \in Live /\ stage \in [Conn -> Stage]
      BY <1>t DEF Live, Typed
    <3> QED
      BY <1>t, <2>1, <3>1, MoveWorkers
  <2>5. SlotsExact'
    BY <1>t, <1>n, <2>1, <2>4 DEF SlotsExact, Typed
  <2>6. GateHeld'
    BY <1>t, <2>1 DEF Move, GateHeld, Typed
  <2> QED
    BY <1>s, <2>2, <2>3, <2>4, <2>5, <2>6 DEF PoolInv, BrokerTypeOK, SafeInv
<1>22. ASSUME NEW c \in Conn, Release(c) PROVE PoolInv'
  <2>1. /\ Move(c, "release", "done") /\ slots' = slots - 1
        /\ UNCHANGED <<askVars, since, out, ver, groundVars, audit, backlog, approvals,
                       gate, counted, timeVars>>
        /\ pc' = [pc EXCEPT ![c] = "idle"] /\ UNCHANGED history
    BY <1>22 DEF Release, End
  <2>2. IsFiniteSet(Workers') /\ Cardinality(Workers') = Cardinality(Workers) - 1
    <3>1. "release" \in Live /\ "done" \notin Live /\ stage \in [Conn -> Stage]
      BY <1>t DEF Live, Typed
    <3> QED
      BY <1>t, <2>1, <3>1, MoveWorkers
  <2>3. Cardinality(Workers') \in Nat /\ Cardinality(Workers) \in Nat
    BY <1>t, <2>2, FS_CardinalityType
  <2>4. SlotsExact' /\ slots' \in Nat
    BY <1>t, <1>n, <2>1, <2>2, <2>3 DEF SlotsExact, Typed
  <2>5. Typed'
    BY <1>t, <1>h, <2>1, <2>4 DEF Move, Typed, Stage, Live, askVars, groundVars, timeVars
  <2>6. \A d \in Conn : Staged(d)'
    BY <1>t, <1>p, <2>1 DEF Move, Typed, Staged, Live, ReloadPC, Locked, askVars
  <2>7. GateHeld'
    BY <1>t, <2>1 DEF Move, GateHeld, Typed
  <2> QED
    BY <1>s, <2>2, <2>4, <2>5, <2>6, <2>7 DEF PoolInv, BrokerTypeOK, SafeInv
<1>23. ASSUME NEW c \in Conn, WorkerReload(c) PROVE PoolInv'
  <2>1. /\ UNCHANGED <<workerVars, backlog, slots, gate, timeVars, history>>
        /\ approvals' \in ApprovalState /\ counted' \in SUBSET Conn
    BY <1>23, <1>t, EmptyStateType
       DEF WorkerReload, ReadHash, HashFails, FastPath, TakeLock, Load, LoadFails, Swap,
           Publish, Snapshot, Typed
  <2>2. /\ pc[c] \in ReloadPC \ {"idle", "serve", "refused"}
        /\ \E to \in ReloadPC \ {"idle"} : pc' = [pc EXCEPT ![c] = to]
    BY <1>23 DEF WorkerReload, ReadHash, HashFails, FastPath, TakeLock, Load, LoadFails,
       Swap, Publish, Snapshot, Goto, ReloadPC, Locked
  <2>3. Typed'
    BY <1>t, <1>h, <2>1 DEF Typed, workerVars, askVars, groundVars, timeVars
  <2>4. \A d \in Conn : Staged(d)'
    BY <1>t, <1>p, <2>1, <2>2 DEF Staged, workerVars, askVars
  <2>5. Workers' = Workers /\ GateHeld' /\ UNCHANGED slots
    BY <1>t, <2>1 DEF Workers, GateHeld, workerVars
  <2> QED
    BY <1>s, <1>t, <2>3, <2>4, <2>5 DEF PoolInv, BrokerTypeOK, SafeInv, SlotsExact
<1>24. CASE Tick
  <2>1. /\ clock' = clock + 1
        /\ UNCHANGED <<reloadVars, workerVars, sharedVars, crashes>>
    BY <1>24 DEF Tick
  <2>2. Typed'
    BY <1>t, <1>h, <2>1 DEF Typed, reloadVars, workerVars, askVars, groundVars, sharedVars
  <2>3. (\A d \in Conn : Staged(d)') /\ Workers' = Workers /\ GateHeld' /\ UNCHANGED slots
    BY <1>t, <2>1 DEF Staged, Workers, GateHeld, reloadVars, workerVars, askVars, sharedVars
  <2> QED
    BY <1>s, <1>t, <2>2, <2>3 DEF PoolInv, BrokerTypeOK, SafeInv, SlotsExact
<1>25. CASE EditFile \/ Startup
  <2>1. UNCHANGED brokerVars /\ UNCHANGED pc
    BY <1>25 DEF EditFile, Startup, Edit, StartLoad, StartHash, workVars
  <2>2. Version' \in Nat /\ Version' >= Version
    <3>1. CASE EditFile
      BY <3>1, <1>s, <1>v, EditHistory DEF EditFile, SafeInv
    <3>2. CASE Startup
      BY <3>2, <1>v DEF Startup, StartLoad, StartHash, Version
    <3> QED
      BY <1>25, <3>1, <3>2
  <2>3. Typed'
    <3>1. ver' \in [Conn -> 0 .. Version']
      BY <1>t, <1>v, <2>1, <2>2 DEF Typed, brokerVars, workerVars
    <3> QED
      BY <1>t, <2>1, <3>1 DEF Typed, brokerVars, workerVars, askVars, groundVars, sharedVars,
         timeVars
  <2>4. (\A d \in Conn : Staged(d)') /\ Workers' = Workers /\ GateHeld' /\ UNCHANGED slots
    BY <1>t, <2>1 DEF Staged, Workers, GateHeld, brokerVars, workerVars, askVars, sharedVars
  <2> QED
    BY <1>s, <1>t, <2>3, <2>4 DEF PoolInv, BrokerTypeOK, SafeInv, SlotsExact
<1>26. CASE BrokerCrash
  <2>1. /\ crashes' = crashes + 1
        /\ stage' = [c \in Conn |-> IF c \in Dropped THEN "dead" ELSE stage[c]]
        /\ slots' = 0 /\ approvals' = EmptyState /\ gate' = NoConn /\ counted' = {}
        /\ backlog' \in {backlog, <<>>}
        /\ UNCHANGED <<askVars, since, out, ver, groundVars, audit, clock>>
        /\ UNCHANGED history /\ pc' = [c \in Conn |-> "idle"]
    BY <1>26 DEF BrokerCrash, Crash, ReloadCrash
  <2>2. stage' \in [Conn -> Stage \ Live]
    BY <1>t, <2>1 DEF Typed, Dropped, Workers, Stage, Live
  <2>b. backlog' \in Seq(Conn)
    <3>1. backlog \in Seq(Conn) /\ <<>> \in Seq(Conn)
      BY <1>t DEF Typed
    <3> QED
      BY <2>1, <3>1
  <2>3. Typed'
    BY <1>t, <1>h, <2>1, <2>2, <2>b, EmptyStateType DEF Typed, askVars, groundVars
  <2>4. \A d \in Conn : Staged(d)'
    BY <2>1, <2>2 DEF Staged
  <2>5. Workers' = {}
    BY <2>2 DEF Workers
  <2>6. IsFiniteSet(Workers') /\ SlotsExact'
    BY <1>n, <2>1, <2>5, FS_EmptySet DEF SlotsExact
  <2>7. GateHeld'
    BY <1>n, <2>1, <2>2 DEF GateHeld, Live
  <2> QED
    BY <1>s, <2>3, <2>4, <2>6, <2>7 DEF PoolInv, BrokerTypeOK, SafeInv
<1>27. CASE UNCHANGED vars
  <2>1. Typed'
    BY <1>t, <1>h, <1>27 DEF Typed, vars, brokerVars, reloadVars, workerVars, askVars,
       groundVars, sharedVars, timeVars
  <2>2. (\A d \in Conn : Staged(d)') /\ Workers' = Workers /\ GateHeld' /\ UNCHANGED slots
    BY <1>t, <1>27 DEF Staged, Workers, GateHeld, vars, brokerVars, reloadVars, workerVars,
       askVars, sharedVars
  <2> QED
    BY <1>s, <1>t, <2>1, <2>2 DEF PoolInv, BrokerTypeOK, SafeInv, SlotsExact
<1> QED
  BY <1>5, <1>6, <1>7, <1>8, <1>9, <1>10, <1>11, <1>12, <1>13, <1>14, <1>15, <1>16,
     <1>17, <1>18, <1>19, <1>20, <1>21, <1>22, <1>23, <1>24, <1>25, <1>26, <1>27
     DEF BrokerNext, Worker, Awaited, AcceptLoop

\* The types hold, and the tie of each stage to the policy, the rule and the
\* reload.
THEOREM BrokerSafe == BrokerSpec => []BrokerTypeOK
BY PoolInit, PoolStep, PTL DEF BrokerSpec, PoolInv

\* As many slots are taken as there are workers, and never more than
\* MaxConcurrent.
THEOREM BrokerSlots == BrokerSpec => []SlotsExact
BY PoolInit, PoolStep, PTL DEF BrokerSpec, PoolInv

\* The requests of the broker are decided by a policy as new as the file they
\* found, and by none when that file cannot be loaded.
THEOREM BrokerFresh ==
  ASSUME Reverts = FALSE, EditsAtStartup = FALSE
  PROVE  BrokerSpec => [](ServedFresh /\ BadFileRefused)
BY BrokerImplementsReload, ReloadFresh, ReloadFailsClosed, PTL

-----------------------------------------------------------------------------
(* Consent. *)

\* The stages of a connection whose execution has been recorded, or that ended.
Late == {"run", "running", "audit", "reply", "release", "done", "dead"}

\* What the variables of a request say of it at each stage.  That a command
\* which runs was approved depends on what was recorded before, so the
\* invariant follows the request from the check of its caller to its end.
Consent(c) ==
  /\ stage[c] \in {"read", "vet"} => Uid[c] \in AgentUids[history[ver[c]]]
  /\ \/ stage[c] \in {"rate", "cache", "hit", "approve", "dialog", "record", "run", "running"}
     \/ human[c] # "none" \/ ran[c] # "no"
     => Admitted(c)
  /\ human[c] # "none" => stage[c] \in Late \cup {"record"}
  /\ ran[c] # "no" => stage[c] \in Late \ {"run"}
  /\ noted[c] # Never => stage[c] \in Late /\ noted[c] \in 0 .. clock
  /\ stage[c] = "record" => human[c] = "allow"
  /\ ran[c] = "human" => human[c] = "allow"
  /\ ran[c] = "cached" \/ stage[c] = "hit" \/ (stage[c] = "run" /\ human[c] # "allow")
     => Backed(c)

ConsentInv == CacheBacked /\ \A c \in Conn : Consent(c)

\* A step that leaves what is known of connection c as it is.
Same(c) ==
  /\ ver'[c] = ver[c] /\ rule'[c] = rule[c] /\ req'[c] = req[c]
  /\ human'[c] = human[c] /\ seen'[c] = seen[c] /\ noted'[c] = noted[c]
  /\ ran'[c] = ran[c]

\* The file's history and the clock only grow.
LEMMA PastKept ==
  ASSUME PoolInv, [BrokerNext]_vars
  PROVE  /\ Version \in Nat /\ Version' \in Nat /\ Version' >= Version
         /\ \A v \in 1 .. Version : history'[v] = history[v]
         /\ clock \in Nat /\ clock' \in Nat /\ clock' >= clock
<1>s. SafeInv /\ SafeInv'
  <2>1. SafeInv
    BY DEF PoolInv, BrokerTypeOK, SafeInv
  <2> QED
    BY <2>1, BrokerStepReload, ReloadStepSafe
<1>1. Version \in Nat /\ Version' \in Nat /\ clock \in Nat
  <2>1. history \in Seq(Contents) /\ history' \in Seq(Contents)
    BY <1>s DEF SafeInv, ReloadTypeOK
  <2> QED
    BY <2>1 DEF Version, PoolInv, BrokerTypeOK, Typed
<1>2. ASSUME NEW k \in Contents, Edit(k)
      PROVE  Version' = Version + 1 /\ \A v \in 1 .. Version : history'[v] = history[v]
  BY <1>s, <1>2, EditHistory DEF SafeInv
<1>3. ASSUME UNCHANGED history
      PROVE  Version' = Version /\ \A v \in 1 .. Version : history'[v] = history[v]
  BY <1>3 DEF Version
<1>4. UNCHANGED history \/ \E k \in Contents : Edit(k)
  BY BrokerStepReload
     DEF ReloadNext, StartLoad, StartHash, Crash, ReloadCrash, Begin, ReloadWork, ReadHash,
         HashFails, FastPath, TakeLock, Load, LoadFails, Swap, Publish, Snapshot, End,
         reloadVars
<1>5. clock' = clock \/ clock' = clock + 1
  BY DEF BrokerNext, Connect, Worker, WorkerReload, TurnAway, Authorise, Vet, CheckRate,
         CheckCache, NoteHit, Ask, NoteApproval, Start, WriteAudit, Reply, Release,
         Awaited, Receive, Answer, Exit, NoAgent, AcceptLoop, Accept, Dispatch, Tick,
         EditFile, Startup, BrokerCrash, timeVars, brokerVars, vars
<1> QED
  BY <1>1, <1>2, <1>3, <1>4, <1>5

\* What has been recorded of a request stays as it is.
LEMMA LateKept ==
  ASSUME [BrokerNext]_vars, NEW d \in Conn, stage[d] \in Late, Typed
  PROVE  /\ human'[d] = human[d] /\ rule'[d] = rule[d] /\ req'[d] = req[d]
         /\ noted'[d] = noted[d]
<1> USE DEF Typed
<1>1. ASSUME NEW c \in Conn, Connect(c) \/ Accept(c) \/ Dispatch(c)
      PROVE  UNCHANGED <<human, rule, req, noted>>
  BY <1>1 DEF Connect, Accept, Dispatch, groundVars, askVars
<1>2. ASSUME NEW c \in Conn, WorkerReload(c) \/ Ask(c) \/ NoAgent(c) \/ WriteAudit(c)
                             \/ Reply(c) \/ Release(c) \/ Start(c) \/ Exit(c)
      PROVE  UNCHANGED <<human, rule, req, noted>>
  BY <1>2 DEF WorkerReload, Ask, NoAgent, WriteAudit, Reply, Release, Start, Exit,
     groundVars, askVars, workerVars
<1>3. ASSUME NEW c \in Conn, TurnAway(c) \/ Authorise(c) \/ CheckRate(c) \/ CheckCache(c)
      PROVE  UNCHANGED <<human, rule, req, noted>>
  BY <1>3 DEF TurnAway, Authorise, CheckRate, CheckCache, groundVars, askVars
<1>4. ASSUME NEW c \in Conn, Receive(c)
      PROVE  /\ UNCHANGED <<human, rule, noted>>
             /\ req' = req \/ (c # d /\ \E a \in Argv : req' = [req EXCEPT ![c] = a])
  BY <1>4 DEF Receive, Move, Late, groundVars
<1>5. ASSUME NEW c \in Conn, Vet(c)
      PROVE  /\ UNCHANGED <<human, req, noted>>
             /\ rule'[d] = rule[d]
  <2>1. stage[c] = "vet" /\ c # d /\ UNCHANGED <<human, req, noted>>
    BY <1>5 DEF Vet, Late, groundVars
  <2>2. UNCHANGED rule \/ \E r : rule' = [rule EXCEPT ![c] = r]
    BY <1>5 DEF Vet
  <2> QED
    BY <2>1, <2>2
<1>6. ASSUME NEW c \in Conn, NoteHit(c) \/ NoteApproval(c)
      PROVE  /\ UNCHANGED <<human, rule, req>>
             /\ noted'[d] = noted[d]
  BY <1>6 DEF NoteHit, NoteApproval, Note, Late, askVars
<1>7. ASSUME NEW c \in Conn, Answer(c)
      PROVE  /\ UNCHANGED <<rule, req, noted>>
             /\ human'[d] = human[d]
  <2>1. c # d /\ UNCHANGED <<rule, req, noted>>
    BY <1>7 DEF Answer, MoveTimed, Settle, Move, Late, askVars
  <2> QED
    BY <1>7, <2>1 DEF Answer
<1>8. CASE Tick \/ EditFile \/ Startup \/ BrokerCrash \/ UNCHANGED vars
  BY <1>8 DEF Tick, EditFile, Startup, BrokerCrash, vars, brokerVars, workerVars, askVars,
     groundVars
<1> QED
  BY <1>1, <1>2, <1>3, <1>4, <1>5, <1>6, <1>7, <1>8
     DEF BrokerNext, Worker, Awaited, AcceptLoop

\* An approval stays on record.
LEMMA ApprovalKept ==
  ASSUME PoolInv, \A c \in Conn : Consent(c), [BrokerNext]_vars,
         NEW r, NEW a, NEW t \in Nat, ApprovedAt(r, a, t)
  PROVE  ApprovedAt(r, a, t)'
<1>1. PICK d \in Conn : human[d] = "allow" /\ rule[d] = r /\ req[d] = a /\ noted[d] = t
  BY DEF ApprovedAt
<1>2. stage[d] \in Late
  BY <1>1 DEF Consent, Never
<1>3. Typed
  BY DEF PoolInv, BrokerTypeOK
<1>4. human'[d] = "allow" /\ rule'[d] = r /\ req'[d] = a /\ noted'[d] = t
  BY <1>1, <1>2, <1>3, LateKept
<1> QED
  BY <1>4 DEF ApprovedAt

\* What a request is founded on stays so, as long as the request is the same.
LEMMA GroundKept ==
  ASSUME PoolInv, \A c \in Conn : Consent(c), [BrokerNext]_vars,
         NEW c \in Conn, ver'[c] = ver[c], ver[c] # 0
  PROVE  /\ history'[ver'[c]] = history[ver[c]]
         /\ rule'[c] = rule[c] => ScopeOf(c)' = ScopeOf(c)
         /\ rule'[c] = rule[c] /\ req'[c] = req[c] /\ Admitted(c) => Admitted(c)'
         /\ rule'[c] = rule[c] /\ req'[c] = req[c] /\ seen'[c] = seen[c] /\ Backed(c)
              => Backed(c)'
<1>1. ver[c] \in 1 .. Version
  BY DEF PoolInv, BrokerTypeOK, Typed
<1>2. history'[ver'[c]] = history[ver[c]]
  BY <1>1, PastKept
<1>3. ASSUME rule'[c] = rule[c] PROVE ScopeOf(c)' = ScopeOf(c)
  BY <1>2, <1>3 DEF ScopeOf
<1>4. ASSUME rule'[c] = rule[c], req'[c] = req[c], Admitted(c) PROVE Admitted(c)'
  BY <1>2, <1>4 DEF Admitted
<1>5. ASSUME rule'[c] = rule[c], req'[c] = req[c], seen'[c] = seen[c], Backed(c)
      PROVE  Backed(c)'
  <2>1. PICK t \in 0 .. clock : /\ ApprovedAt(rule[c], req[c], t)
                                /\ Age(seen[c], t) < ScopeOf(c).ttl
    BY <1>5 DEF Backed
  <2>2. t \in Nat /\ t \in 0 .. clock'
    BY PastKept
  <2>3. ApprovedAt(rule[c], req[c], t)'
    <3>1. \A r, a : ApprovedAt(r, a, t) => ApprovedAt(r, a, t)'
      BY <2>2, ApprovalKept
    <3> QED
      BY <1>5, <2>1, <3>1 DEF ApprovedAt
  <2>4. Age(seen'[c], t) < ScopeOf(c)'.ttl
    BY <1>3, <1>5, <2>1
  <2> QED
    BY <2>2, <2>3, <2>4 DEF Backed
<1> QED
  BY <1>2, <1>3, <1>4, <1>5

\* A connection whose request does not change, and which stays where it is,
\* waits for its worker or ends, keeps what is known of it.
LEMMA MovedConsent ==
  ASSUME PoolInv, \A c \in Conn : Consent(c), [BrokerNext]_vars,
         NEW c \in Conn,
         Same(c),
         \/ stage'[c] = stage[c]
         \/ stage'[c] \in Late \ {"run", "running"}
         \/ /\ stage[c] \in {"none", "backlog", "accepted", "worker"}
            /\ stage'[c] \in {"none", "backlog", "accepted", "worker"}
  PROVE  Consent(c)'
<1>1. Consent(c) /\ Staged(c)
  BY DEF PoolInv, BrokerTypeOK
<1>2. ver[c] # 0 => /\ history'[ver'[c]] = history[ver[c]]
                    /\ Admitted(c) => Admitted(c)'
                    /\ Backed(c) => Backed(c)'
  BY GroundKept DEF Same
<1>3. Admitted(c) => ver[c] # 0
  BY DEF Admitted
<1>4. \A n : n \in 0 .. clock => n \in 0 .. clock'
  BY PastKept
<1>5. stage[c] \in {"read", "vet", "hit", "run"} => ver[c] # 0
  BY <1>1 DEF Staged, Live
<1>6. ran[c] = "cached" \/ stage[c] \in {"hit", "run"} => ver[c] # 0
  BY <1>1, <1>3, <1>5 DEF Consent
<1> QED
  BY <1>1, <1>2, <1>3, <1>4, <1>5, <1>6 DEF Same, Consent, Late

\* Nothing enters the cache but by a new approval.
LEMMA CacheKept ==
  ASSUME PoolInv, ConsentInv, [BrokerNext]_vars,
         \A key \in Rules \X Argv :
           approvals'.cache[key] \in {Never, approvals.cache[key]}
  PROVE  CacheBacked'
<1> SUFFICES ASSUME NEW r \in Rules, NEW a \in Argv, approvals'.cache[<<r, a>>] # Never
             PROVE  ApprovedAt(r, a, approvals.cache[<<r, a>>])'
                    /\ approvals'.cache[<<r, a>>] = approvals.cache[<<r, a>>]
  BY DEF CacheBacked
<1>1. approvals'.cache[<<r, a>>] = approvals.cache[<<r, a>>]
  OBVIOUS
<1>2. approvals.cache[<<r, a>>] \in Nat
  BY <1>1 DEF PoolInv, BrokerTypeOK, Typed, ApprovalState
<1>3. ApprovedAt(r, a, approvals.cache[<<r, a>>])
  BY <1>1 DEF ConsentInv, CacheBacked
<1>4. \A t \in Nat : ApprovedAt(r, a, t) => ApprovedAt(r, a, t)'
  BY ApprovalKept DEF ConsentInv
<1> QED
  BY <1>1, <1>2, <1>3, <1>4 DEF ApprovedAt

LEMMA ConsentInit == BrokerInit => ConsentInv
<1> SUFFICES ASSUME BrokerInit PROVE ConsentInv
  OBVIOUS
<1>1. CacheBacked
  BY DEF BrokerInit, CacheBacked, EmptyState
<1>2. \A c \in Conn : Consent(c)
  BY DEF BrokerInit, Consent
<1> QED
  BY <1>1, <1>2 DEF ConsentInv

\* A move of connection c concerns no other.
LEMMA OneConsent ==
  ASSUME PoolInv, ConsentInv, [BrokerNext]_vars, NEW c \in Conn,
         NEW from, NEW to, Move(c, from, to),
         \A d \in Conn \ {c} : Same(d),
         Consent(c)', CacheBacked'
  PROVE  ConsentInv'
<1>1. \A d \in Conn \ {c} : stage'[d] = stage[d]
  BY DEF Move, PoolInv, BrokerTypeOK, Typed
<1>2. \A d \in Conn \ {c} : Consent(d)'
  BY <1>1, MovedConsent DEF ConsentInv
<1> QED
  BY <1>2 DEF ConsentInv

\* Every step of the pipeline keeps the record of the consent.
LEMMA ConsentStep == PoolInv /\ ConsentInv /\ [BrokerNext]_vars => ConsentInv'
<1> SUFFICES ASSUME PoolInv, ConsentInv, [BrokerNext]_vars PROVE ConsentInv'
  OBVIOUS
<1>h. /\ \A c \in Conn : Consent(c)
      /\ CacheBacked
  BY DEF ConsentInv
<1>t. Typed /\ \A c \in Conn : Staged(c)
  BY DEF PoolInv, BrokerTypeOK
<1>1. ASSUME NEW c \in Conn, Connect(c) \/ Accept(c) \/ Dispatch(c) PROVE ConsentInv'
  <2>1. \A d \in Conn : Same(d)
    BY <1>1 DEF Connect, Accept, Dispatch, Same, askVars, groundVars
  <2>2. UNCHANGED approvals
    BY <1>1 DEF Connect, Accept, Dispatch, sharedVars
  <2>3. \E from \in {"none", "backlog", "accepted"}, to \in {"backlog", "accepted", "worker"} :
            Move(c, from, to)
    BY <1>1 DEF Connect, Accept, Dispatch, Late
  <2>4. /\ stage'[c] \in {"backlog", "accepted", "worker"}
        /\ stage[c] \in {"none", "backlog", "accepted"}
        /\ \A d \in Conn \ {c} : stage'[d] = stage[d]
    BY <2>3, <1>t DEF Move, Typed
  <2> QED
    BY <1>h, <2>1, <2>2, <2>3, <2>4, MovedConsent, CacheKept DEF ConsentInv
<1>2. ASSUME NEW c \in Conn, NoAgent(c) \/ Exit(c) \/ WriteAudit(c) \/ Reply(c) \/ Release(c)
      PROVE  ConsentInv'
  <2>1. \A d \in Conn : Same(d)
    BY <1>2 DEF NoAgent, Exit, WriteAudit, Reply, Release, Same, askVars, groundVars
  <2>2. UNCHANGED approvals
    BY <1>2 DEF NoAgent, Exit, WriteAudit, Reply, Release, sharedVars
  <2>3. \E from, to \in {"approve", "running", "audit", "reply", "release", "done"} :
            to \in Late \ {"run", "running"} /\ Move(c, from, to)
    BY <1>2 DEF NoAgent, Exit, WriteAudit, Reply, Release, Settle, Early, Late
  <2>4. /\ stage'[c] \in Late \ {"run", "running"}
        /\ \A d \in Conn \ {c} : stage'[d] = stage[d]
    BY <2>3, <1>t DEF Move, Typed
  <2> QED
    BY <1>h, <2>1, <2>2, <2>3, <2>4, MovedConsent, CacheKept DEF ConsentInv
<1>3. CASE (\E c \in Conn : WorkerReload(c)) \/ Tick \/ EditFile \/ Startup \/ UNCHANGED vars
  <2>1. UNCHANGED workerVars
    BY <1>3 DEF WorkerReload, Tick, EditFile, Startup, brokerVars, vars
  <2>2. approvals' = approvals \/ approvals' = EmptyState
    BY <1>3 DEF WorkerReload, Tick, EditFile, Startup, brokerVars, sharedVars, vars
  <2>3. \A d \in Conn : Same(d) /\ stage'[d] = stage[d]
    BY <2>1 DEF Same, workerVars, askVars, groundVars
  <2> QED
    BY <1>h, <2>2, <2>3, MovedConsent, CacheKept DEF ConsentInv, EmptyState
<1>4. CASE BrokerCrash
  <2>1. approvals' = EmptyState /\ \A d \in Conn : Same(d)
    BY <1>4 DEF BrokerCrash, Same, askVars, groundVars
  <2>2. \A d \in Conn : stage'[d] \in {stage[d], "dead"}
    BY <1>4 DEF BrokerCrash
  <2> QED
    BY <1>h, <2>1, <2>2, MovedConsent, CacheKept DEF ConsentInv, EmptyState, Late
<1>5. ASSUME NEW c \in Conn, TurnAway(c) PROVE ConsentInv'
  <2>1. /\ Move(c, "worker", "reply") /\ UNCHANGED <<askVars, groundVars, sharedVars>>
        /\ UNCHANGED ver \/ \E v : ver' = [ver EXCEPT ![c] = v]
    BY <1>5 DEF TurnAway, Settle, Early
  <2>d. \A d \in Conn \ {c} : ver'[d] = ver[d]
    BY <1>t, <2>1 DEF Typed
  <2>2. CacheBacked'
    BY <2>1, CacheKept DEF sharedVars
  <2>3. Consent(c)'
    <3>1. stage[c] = "worker" /\ stage'[c] = "reply" /\ Consent(c)
      BY <1>h, <1>t, <2>1 DEF Move, Typed
    <3>2. human[c] = "none" /\ ran[c] = "no" /\ noted[c] = Never
      BY <3>1 DEF Consent, Late
    <3> QED
      BY <2>1, <3>1, <3>2 DEF Consent, askVars, groundVars
  <2> QED
    BY <2>1, <2>d, <2>2, <2>3, OneConsent DEF Same, askVars, groundVars
<1>6. ASSUME NEW c \in Conn, Authorise(c) PROVE ConsentInv'
  <2>1. /\ Move(c, "worker", "read") /\ UNCHANGED <<history, askVars, groundVars, sharedVars>>
        /\ ver' = [ver EXCEPT ![c] = bundle[c]]
        /\ Uid[c] \in AgentUids[history[bundle[c]]]
    BY <1>6 DEF Authorise, reloadVars
  <2>2. CacheBacked'
    BY <2>1, CacheKept DEF sharedVars
  <2>3. Consent(c)'
    <3>1. stage[c] = "worker" /\ stage'[c] = "read" /\ Consent(c) /\ ver'[c] = bundle[c]
      BY <1>h, <1>t, <2>1 DEF Move, Typed
    <3>2. human[c] = "none" /\ ran[c] = "no" /\ noted[c] = Never
      BY <3>1 DEF Consent, Late
    <3> QED
      BY <2>1, <3>1, <3>2 DEF Consent, askVars, groundVars
  <2> QED
    BY <1>t, <2>1, <2>2, <2>3, OneConsent DEF Same, askVars, groundVars, Typed
<1>7. ASSUME NEW c \in Conn, Receive(c) PROVE ConsentInv'
  <2>1. PICK to \in {"vet", "audit", "reply", "release"} : Move(c, "read", to)
    BY <1>7 DEF Receive, Settle
  <2>2. /\ UNCHANGED <<history, rule, ver, groundVars, sharedVars>>
        /\ UNCHANGED req \/ \E a : req' = [req EXCEPT ![c] = a]
    BY <1>7 DEF Receive, reloadVars
  <2>d. \A d \in Conn \ {c} : req'[d] = req[d]
    BY <1>t, <2>2 DEF Typed
  <2>3. CacheBacked'
    BY <2>2, CacheKept DEF sharedVars
  <2>4. Consent(c)'
    <3>1. stage[c] = "read" /\ stage'[c] = to /\ Consent(c)
      BY <1>h, <1>t, <2>1 DEF Move, Typed
    <3>2. human[c] = "none" /\ ran[c] = "no" /\ noted[c] = Never
      BY <3>1 DEF Consent, Late
    <3> QED
      BY <2>1, <2>2, <3>1, <3>2 DEF Consent, groundVars
  <2> QED
    BY <2>1, <2>2, <2>d, <2>3, <2>4, OneConsent DEF Same, groundVars
<1>8. ASSUME NEW c \in Conn, Vet(c) PROVE ConsentInv'
  <2>1. /\ stage[c] = "vet" /\ UNCHANGED <<history, req, ver, groundVars, sharedVars>>
        /\ UNCHANGED rule \/ \E r : rule' = [rule EXCEPT ![c] = r]
    BY <1>8 DEF Vet, reloadVars
  <2>d. \A d \in Conn \ {c} : rule'[d] = rule[d]
    BY <1>t, <2>1 DEF Typed
  <2>2. CacheBacked'
    BY <2>1, CacheKept DEF sharedVars
  <2>3. human[c] = "none" /\ ran[c] = "no" /\ noted[c] = Never
        /\ Uid[c] \in AgentUids[history[ver[c]]] /\ ver[c] # 0
    BY <1>h, <1>t, <2>1 DEF Consent, Late, Staged, Live
  <2>4. CASE Move(c, "vet", "audit")
    <3>1. stage'[c] = "audit"
      BY <1>t, <2>4 DEF Move, Typed
    <3>2. Consent(c)'
      BY <2>1, <2>3, <3>1 DEF Consent, groundVars
    <3> QED
      BY <2>1, <2>d, <2>2, <2>4, <3>2, OneConsent DEF Same, groundVars
  <2>5. CASE /\ Move(c, "vet", "rate")
             /\ Verdict[history[ver[c]]][req[c]] # NoRule
             /\ rule' = [rule EXCEPT ![c] = Verdict[history[ver[c]]][req[c]]]
    <3>1. stage'[c] = "rate" /\ rule'[c] = Verdict[history[ver[c]]][req[c]]
      BY <1>t, <2>5 DEF Move, Typed
    <3>2. Admitted(c)'
      BY <2>1, <2>3, <2>5, <3>1 DEF Admitted
    <3>3. Consent(c)'
      BY <2>1, <2>3, <3>1, <3>2 DEF Consent, groundVars
    <3> QED
      BY <2>1, <2>d, <2>2, <2>5, <3>3, OneConsent DEF Same, groundVars
  <2> QED
    BY <1>8, <2>4, <2>5 DEF Vet, Settle, MoveTimed, Early
<1>a. \A c \in Conn :
          Staged(c) /\ stage[c] \in {"rate", "cache", "hit", "approve", "dialog", "record", "run"}
        => ver[c] # 0
  BY DEF Staged, Live
<1>9. ASSUME NEW c \in Conn, CheckRate(c) \/ Ask(c) PROVE ConsentInv'
  <2>1. PICK from \in {"rate", "approve"}, to \in {"audit", "cache", "dialog"} :
            Move(c, from, to)
    BY <1>9 DEF CheckRate, Ask, Settle, MoveTimed, Early
  <2>2. UNCHANGED <<reloadVars, askVars, ver, groundVars>>
    BY <1>9 DEF CheckRate, Ask
  <2>3. UNCHANGED approvals \/ \E now :
            approvals' = PruneRate(approvals, ScopeOf(c), rule[c], now)
    BY <1>9 DEF CheckRate, Ask
  <2>4. approvals'.cache = approvals.cache
    BY <1>t, <2>3 DEF PruneRate, Typed, ApprovalState
  <2>5. CacheBacked'
    BY <2>4, CacheKept
  <2>6. Consent(c)'
    <3>1. stage[c] = from /\ stage'[c] = to /\ Consent(c) /\ ver[c] # 0
      BY <1>h, <1>t, <1>a, <2>1 DEF Move, Typed
    <3>2. human[c] = "none" /\ ran[c] = "no" /\ noted[c] = Never
      BY <3>1 DEF Consent, Late
    <3>3. Admitted(c)'
      BY <1>h, <2>2, <3>1, GroundKept DEF Consent, askVars
    <3> QED
      BY <2>2, <3>1, <3>2, <3>3 DEF Consent, askVars, groundVars
  <2> QED
    BY <2>1, <2>2, <2>5, <2>6, OneConsent DEF Same, askVars, groundVars
<1>10. ASSUME NEW c \in Conn, CheckCache(c) PROVE ConsentInv'
  <2>1. /\ stage[c] = "cache"
        /\ UNCHANGED <<reloadVars, askVars, ver, human, noted, ran, sharedVars, timeVars>>
        /\ UNCHANGED seen \/ \E n : seen' = [seen EXCEPT ![c] = n]
    BY <1>10 DEF CheckCache
  <2>d. \A d \in Conn \ {c} : seen'[d] = seen[d]
    BY <1>t, <2>1 DEF Typed
  <2>2. CacheBacked'
    BY <2>1, CacheKept DEF sharedVars
  <2>3. Consent(c) /\ ver[c] # 0 /\ human[c] = "none" /\ ran[c] = "no" /\ noted[c] = Never
    BY <1>h, <1>t, <1>a, <2>1 DEF Consent, Late
  <2>4. Admitted(c)'
    BY <1>h, <2>1, <2>3, GroundKept DEF Consent, askVars
  <2>5. CASE Move(c, "cache", "approve")
    <3>1. stage'[c] = "approve"
      BY <1>t, <2>5 DEF Move, Typed
    <3>2. Consent(c)'
      BY <2>1, <2>3, <2>4, <3>1 DEF Consent
    <3> QED
      BY <2>1, <2>d, <2>2, <2>5, <3>2, OneConsent DEF Same, askVars
  <2>6. ASSUME NEW now, CacheFresh(approvals, ScopeOf(c), rule[c], req[c], now),
               Move(c, "cache", "hit"), seen' = [seen EXCEPT ![c] = now]
        PROVE  ConsentInv'
    <3>1. stage'[c] = "hit" /\ seen'[c] = now
      BY <1>t, <2>6 DEF Move, Typed
    <3>2. rule[c] \in Rules /\ req[c] \in Argv
      <4>1. Staged(c) /\ rule[c] \in Rules \cup {NoRule} /\ req[c] \in Argv
        BY <1>t DEF Typed
      <4> QED
        BY <2>1, <4>1 DEF Staged, Live
    <3>3. PICK t \in Nat : /\ t = approvals.cache[<<rule[c], req[c]>>] /\ t # Never
                           /\ Age(now, t) < ScopeOf(c).ttl
      BY <1>t, <2>6, <3>2 DEF CacheFresh, Typed, ApprovalState
    <3>4. ApprovedAt(rule[c], req[c], t)
      BY <1>h, <3>2, <3>3 DEF CacheBacked
    <3>5. t \in 0 .. clock
      BY <1>h, <3>3, <3>4 DEF ApprovedAt, Consent
    <3>6. ScopeOf(c)' = ScopeOf(c) /\ clock' = clock /\ UNCHANGED <<human, rule, req, noted>>
      BY <1>h, <2>1, <2>3, GroundKept DEF askVars, timeVars
    <3>7. ApprovedAt(rule[c], req[c], t)'
      BY <3>4, <3>6 DEF ApprovedAt
    <3>8. Backed(c)'
      <4>1. Age(seen'[c], t) < ScopeOf(c)'.ttl /\ t \in 0 .. clock'
        BY <3>1, <3>3, <3>5, <3>6
      <4> QED
        BY <3>7, <4>1 DEF Backed
    <3>9. Consent(c)'
      BY <2>1, <2>3, <2>4, <3>1, <3>8 DEF Consent
    <3> QED
      BY <2>1, <2>d, <2>2, <2>6, <3>9, OneConsent DEF Same, askVars
  <2> QED
    BY <1>10, <2>5, <2>6 DEF CheckCache, MoveTimed
<1>11. ASSUME NEW c \in Conn, NoteHit(c) PROVE ConsentInv'
  <2>1. PICK now \in Instants(c) :
             /\ approvals' = RecordCacheHit(approvals, ScopeOf(c), rule[c], req[c], now)
             /\ noted' = [noted EXCEPT ![c] = now]
    BY <1>11 DEF NoteHit, Note
  <2>2. /\ Move(c, "hit", "run")
        /\ UNCHANGED <<reloadVars, askVars, ver, human, seen, ran, timeVars>>
    BY <1>11 DEF NoteHit
  <2>3. approvals'.cache = approvals.cache
    BY <1>t, <2>1 DEF RecordCacheHit, NoteExecution, Typed, ApprovalState
  <2>4. CacheBacked'
    BY <2>3, CacheKept
  <2>5. now \in 0 .. clock'
    BY <1>t, <2>2 DEF Instants, Typed, timeVars
  <2>6. stage[c] = "hit" /\ stage'[c] = "run" /\ noted'[c] = now
    BY <1>t, <2>1, <2>2 DEF Move, Typed
  <2>7. Consent(c) /\ ver[c] # 0 /\ human[c] = "none" /\ ran[c] = "no" /\ Backed(c)
    BY <1>h, <1>t, <1>a, <2>6 DEF Consent, Late
  <2>8. Admitted(c)' /\ Backed(c)'
    BY <1>h, <2>2, <2>6, <2>7, GroundKept DEF Consent, askVars
  <2>9. Consent(c)'
    BY <2>2, <2>5, <2>6, <2>7, <2>8 DEF Consent, Late
  <2> QED
    BY <1>t, <2>1, <2>2, <2>4, <2>9, OneConsent DEF Same, askVars, Typed
<1>12. ASSUME NEW c \in Conn, Answer(c) PROVE ConsentInv'
  <2>1. /\ \/ Move(c, "dialog", "record") /\ human' = [human EXCEPT ![c] = "allow"]
           \/ Move(c, "dialog", "audit") /\ human' = [human EXCEPT ![c] = "deny"]
           \/ Move(c, "dialog", "audit") /\ UNCHANGED human
        /\ UNCHANGED <<reloadVars, askVars, ver, seen, noted, ran, approvals>>
    BY <1>12 DEF Answer, MoveTimed, Settle, Early
  <2>2. CacheBacked'
    BY <2>1, CacheKept
  <2>3. stage[c] = "dialog" /\ \A d \in Conn \ {c} : human'[d] = human[d]
    <3>1. UNCHANGED human \/ \E h : human' = [human EXCEPT ![c] = h]
      BY <2>1
    <3> QED
      BY <1>t, <2>1, <3>1 DEF Move, Typed
  <2>4. Consent(c) /\ ver[c] # 0 /\ human[c] = "none" /\ ran[c] = "no" /\ noted[c] = Never
    BY <1>h, <1>t, <1>a, <2>3 DEF Consent, Late
  <2>5. Admitted(c)'
    BY <1>h, <2>1, <2>3, <2>4, GroundKept DEF Consent, askVars
  <2>6. \/ stage'[c] = "record" /\ human'[c] = "allow"
        \/ stage'[c] = "audit" /\ human'[c] \in {"none", "deny"}
    BY <1>t, <2>1, <2>4 DEF Move, Typed
  <2>7. Consent(c)'
    BY <2>1, <2>4, <2>5, <2>6 DEF Consent, Late
  <2>8. \A d \in Conn \ {c} : Same(d)
    BY <2>1, <2>3 DEF Same, askVars
  <2> QED
    BY <2>1, <2>2, <2>7, <2>8, OneConsent
<1>13. ASSUME NEW c \in Conn, NoteApproval(c) PROVE ConsentInv'
  <2>1. PICK now \in Instants(c) :
             /\ approvals' = RecordApproval(approvals, ScopeOf(c), rule[c], req[c], now)
             /\ noted' = [noted EXCEPT ![c] = now]
    BY <1>13 DEF NoteApproval, Note
  <2>2. Move(c, "record", "run")
        /\ UNCHANGED <<reloadVars, askVars, ver, human, seen, ran, timeVars>>
    BY <1>13 DEF NoteApproval
  <2>3. now \in Nat /\ now \in 0 .. clock'
    BY <1>t, <2>2 DEF Instants, Typed, timeVars
  <2>4. stage[c] = "record" /\ stage'[c] = "run" /\ noted'[c] = now
    BY <1>t, <2>1, <2>2 DEF Move, Typed
  <2>5. Consent(c) /\ ver[c] # 0 /\ human[c] = "allow" /\ ran[c] = "no"
    BY <1>h, <1>t, <1>a, <2>4 DEF Consent, Late
  <2>6. Admitted(c)'
    BY <1>h, <2>2, <2>4, <2>5, GroundKept DEF Consent, askVars
  <2>7. Consent(c)'
    BY <2>2, <2>3, <2>4, <2>5, <2>6 DEF Consent, Late
  <2>8. CacheBacked'
    <3> SUFFICES ASSUME NEW r \in Rules, NEW a \in Argv, approvals'.cache[<<r, a>>] # Never
                 PROVE  ApprovedAt(r, a, approvals.cache[<<r, a>>])'
      BY DEF CacheBacked
    <3>1. \/ approvals'.cache = approvals.cache
          \/ approvals'.cache = [approvals.cache EXCEPT ![<<rule[c], req[c]>>] = now]
      BY <1>t, <2>1 DEF RecordApproval, NoteExecution, Typed, ApprovalState
    <3>2. approvals.cache \in [Rules \X Argv -> Nat \cup {Never}]
      BY <1>t DEF Typed, ApprovalState
    <3>3. CASE approvals'.cache[<<r, a>>] = approvals.cache[<<r, a>>]
      <4>1. approvals.cache[<<r, a>>] \in Nat /\ ApprovedAt(r, a, approvals.cache[<<r, a>>])
        BY <1>h, <3>2, <3>3 DEF CacheBacked
      <4>2. \A t \in Nat : ApprovedAt(r, a, t) => ApprovedAt(r, a, t)'
        BY <1>h, ApprovalKept
      <4> QED
        BY <3>3, <4>1, <4>2 DEF ApprovedAt
    <3>4. CASE r = rule[c] /\ a = req[c] /\ approvals'.cache[<<r, a>>] = now
      BY <2>2, <2>4, <2>5, <3>4 DEF ApprovedAt, askVars
    <3> QED
      BY <3>1, <3>2, <3>3, <3>4
  <2> QED
    BY <1>t, <2>1, <2>2, <2>7, <2>8, OneConsent DEF Same, askVars, Typed
<1>14. ASSUME NEW c \in Conn, Start(c) PROVE ConsentInv'
  <2>1. /\ \/ Move(c, "run", "running") /\ ran' = [ran EXCEPT ![c] = Ground(c)]
           \/ Move(c, "run", "audit") /\ UNCHANGED ran
        /\ UNCHANGED <<reloadVars, askVars, ver, human, seen, noted, sharedVars, timeVars>>
    BY <1>14 DEF Start, Settle, Early
  <2>2. CacheBacked'
    BY <2>1, CacheKept DEF sharedVars
  <2>3. stage[c] = "run" /\ \A d \in Conn \ {c} : ran'[d] = ran[d]
    <3>1. UNCHANGED ran \/ \E g : ran' = [ran EXCEPT ![c] = g]
      BY <2>1
    <3> QED
      BY <1>t, <2>1, <3>1 DEF Move, Typed
  <2>4. Consent(c) /\ ver[c] # 0 /\ ran[c] = "no"
    BY <1>h, <1>t, <1>a, <2>3 DEF Consent, Late
  <2>5. Admitted(c)' /\ (human[c] # "allow" => Backed(c)')
    BY <1>h, <2>1, <2>3, <2>4, GroundKept DEF Consent, askVars
  <2>6. \/ /\ stage'[c] = "running"
           /\ ran'[c] = IF human[c] = "allow" THEN "human" ELSE "cached"
        \/ stage'[c] = "audit" /\ ran'[c] = "no"
    BY <1>t, <2>1, <2>4 DEF Move, Typed, Ground
  <2>7. human'[c] = human[c] /\ noted'[c] = noted[c] /\ clock' = clock
    BY <2>1 DEF timeVars
  <2>8. Consent(c)'
    BY <2>4, <2>5, <2>6, <2>7, <2>3 DEF Consent, Late
  <2>9. \A d \in Conn \ {c} : Same(d)
    BY <2>1, <2>3 DEF Same, askVars
  <2> QED
    BY <2>1, <2>2, <2>8, <2>9, OneConsent
<1> QED
  BY <1>1, <1>2, <1>3, <1>4, <1>5, <1>6, <1>7, <1>8, <1>9, <1>10, <1>11, <1>12, <1>13, <1>14
     DEF BrokerNext, Worker, Awaited, AcceptLoop

\* No command runs but what the policy admits from its caller, on a human's
\* approval of it or a cached one of the same argv under the same rule.
THEOREM BrokerRunsApproved == BrokerSpec => []RunsAreApproved
<1>1. PoolInv /\ ConsentInv => RunsAreApproved
  BY DEF ConsentInv, Consent, RunsAreApproved
<1> QED
  BY <1>1, PoolInit, PoolStep, ConsentInit, ConsentStep, PTL DEF BrokerSpec

\* The cache holds nothing but human approvals, at the time they were given.
THEOREM BrokerCacheBacked == BrokerSpec => []CacheBacked
<1>1. ConsentInv => CacheBacked
  BY DEF ConsentInv
<1> QED
  BY <1>1, PoolInit, PoolStep, ConsentInit, ConsentStep, PTL DEF BrokerSpec

-----------------------------------------------------------------------------
(***************************************************************************)
(* The broker keeps the promise of module Promise: the initial states map  *)
(* to initial states, and every step of the daemon maps to a step of the   *)
(* promise or to none.  It needs, of the invariants above, what is known   *)
(* of a request at each stage; and that a request which is not vetted yet  *)
(* has no rule.                                                            *)
(***************************************************************************)

Unvetted == {"none", "backlog", "accepted", "worker", "read", "vet"}

Unruled == \A c \in Conn : stage[c] \in Unvetted => rule[c] = NoRule

LEMMA UnruledInit == BrokerInit => Unruled
BY DEF BrokerInit, Unruled

\* Only vetting gives a request a rule, and no step takes it back there.
LEMMA UnruledStep == PoolInv /\ Unruled /\ [BrokerNext]_vars => Unruled'
<1> SUFFICES ASSUME PoolInv, Unruled, [BrokerNext]_vars PROVE Unruled'
  OBVIOUS
<1>t. Typed
  BY DEF PoolInv, BrokerTypeOK
<1>m. ASSUME NEW c \in Conn, NEW from, NEW to, Move(c, from, to), UNCHANGED rule,
             to \in Unvetted => from \in Unvetted
      PROVE  Unruled'
  BY <1>t, <1>m DEF Move, Typed, Unruled
<1>s. ASSUME NEW c \in Conn, NEW from, NEW o, Settle(c, from, o), UNCHANGED rule
      PROVE  Unruled'
  BY <1>t, <1>s DEF Settle, Move, Typed, Unruled, Unvetted
<1>1. ASSUME NEW c \in Conn, Connect(c) \/ Accept(c) \/ Dispatch(c) PROVE Unruled'
  BY <1>1, <1>m DEF Connect, Accept, Dispatch, askVars, Unvetted
<1>2. ASSUME NEW c \in Conn, WorkerReload(c) PROVE Unruled'
  BY <1>2 DEF WorkerReload, workerVars, askVars, Unruled
<1>3. ASSUME NEW c \in Conn, TurnAway(c) \/ NoAgent(c) \/ Exit(c) PROVE Unruled'
  BY <1>3, <1>s DEF TurnAway, NoAgent, Exit, askVars
<1>4. ASSUME NEW c \in Conn,
             Authorise(c) \/ NoteHit(c) \/ Ask(c) \/ NoteApproval(c)
             \/ WriteAudit(c) \/ Reply(c) \/ Release(c)
      PROVE  Unruled'
  BY <1>4, <1>m DEF Authorise, NoteHit, Ask, NoteApproval, WriteAudit, Reply, Release,
     askVars, Unvetted
<1>5. ASSUME NEW c \in Conn,
             Receive(c) \/ CheckRate(c) \/ CheckCache(c) \/ Answer(c) \/ Start(c)
      PROVE  Unruled'
  BY <1>5, <1>m, <1>s DEF Receive, CheckRate, CheckCache, Answer, Start, MoveTimed,
     askVars, Unvetted
<1>6. ASSUME NEW c \in Conn, Vet(c) PROVE Unruled'
  <2>1. CASE UNCHANGED rule
    BY <1>6, <2>1, <1>m, <1>s DEF Vet, MoveTimed, Unvetted
  <2>2. CASE Move(c, "vet", "rate") /\ \E r : rule' = [rule EXCEPT ![c] = r]
    BY <1>t, <2>2 DEF Move, Typed, Unruled, Unvetted
  <2> QED
    BY <1>6, <2>1, <2>2 DEF Vet, MoveTimed
<1>7. CASE Tick \/ EditFile \/ Startup \/ UNCHANGED vars
  BY <1>7 DEF Tick, EditFile, Startup, vars, brokerVars, workerVars, askVars, Unruled
<1>8. CASE BrokerCrash
  BY <1>8 DEF BrokerCrash, askVars, Unruled, Unvetted
<1> QED
  BY <1>1, <1>2, <1>3, <1>4, <1>5, <1>6, <1>7, <1>8
     DEF BrokerNext, Worker, Awaited, AcceptLoop

-----------------------------------------------------------------------------
(* The refinement mapping. *)

\* What a step leaves alone, the mapping leaves alone.
LEMMA MappingKept ==
  /\ UNCHANGED history => UNCHANGED Laws
  /\ UNCHANGED <<rule, req>> => UNCHANGED Orders
  /\ UNCHANGED <<rule, req, human>> => UNCHANGED Consents
  /\ UNCHANGED ran => UNCHANGED Started
  /\ UNCHANGED stage => UNCHANGED Phases
<1>1. UNCHANGED history => UNCHANGED Laws
  BY DEF Laws, Version
<1>2. UNCHANGED <<rule, req>> => UNCHANGED Orders
  BY DEF Orders, OrderOf
<1>3. UNCHANGED <<rule, req, human>> => UNCHANGED Consents
  BY DEF Consents, OrderOf
<1>4. UNCHANGED ran => UNCHANGED Started
  BY DEF Started
<1>5. UNCHANGED stage => UNCHANGED Phases
  BY DEF Phases, PhaseOf
<1> QED
  BY <1>1, <1>2, <1>3, <1>4, <1>5

\* A connection that moves changes its own phase only.
LEMMA PhaseMoves ==
  ASSUME Typed, NEW c \in Conn, NEW from, NEW to, Move(c, from, to)
  PROVE  /\ Phases[c] = PhaseOf(from)
         /\ Phases' = [Phases EXCEPT ![c] = PhaseOf(to)]
<1>1. stage[c] = from /\ stage' = [stage EXCEPT ![c] = to] /\ stage \in [Conn -> Stage]
  BY DEF Move, Typed
<1>2. Phases[c] = PhaseOf(from)
  BY <1>1 DEF Phases
<1>3. \A d \in Conn : stage'[d] = IF d = c THEN to ELSE stage[d]
  BY <1>1
<1>4. Phases' = [d \in Conn |-> PhaseOf(stage'[d])]
  BY DEF Phases, PhaseOf
<1>5. \A d \in Conn : Phases'[d] = IF d = c THEN PhaseOf(to) ELSE Phases[d]
  BY <1>3, <1>4 DEF Phases
<1> QED
  BY <1>2, <1>4, <1>5 DEF Phases

\* A move within a phase is none of the promise.
LEMMA StutterStep ==
  ASSUME Typed, NEW c \in Conn, NEW from, NEW to, Move(c, from, to),
         PhaseOf(to) = PhaseOf(from), UNCHANGED <<Laws, Orders, Consents, Started>>
  PROVE  UNCHANGED Contract!vars
<1>1. Phases' = Phases
  BY PhaseMoves DEF Phases
<1> QED
  BY <1>1 DEF Contract!vars

\* A move from an open phase to the closed one closes the request.
LEMMA CloseStep ==
  ASSUME Typed, NEW c \in Conn, NEW from, NEW to, Move(c, from, to),
         PhaseOf(from) # "closed", PhaseOf(to) = "closed",
         UNCHANGED <<Laws, Orders, Consents, Started>>
  PROVE  Contract!Next
<1>1. Phases[c] = PhaseOf(from) /\ Phases' = [Phases EXCEPT ![c] = "closed"]
  BY PhaseMoves
<1>2. PhaseOf(from) \in Contract!Open
  BY DEF PhaseOf, Contract!Open
<1>3. Phases' = [d \in Conn |-> IF d \in {c} THEN "closed" ELSE Phases[d]]
  BY <1>1 DEF Phases
<1>4. Contract!Close({c})
  BY <1>1, <1>2, <1>3 DEF Contract!Close
<1> QED
  BY <1>4 DEF Contract!Next

LEMMA PromiseInit == BrokerInit => Contract!Init
<1> SUFFICES ASSUME BrokerInit PROVE Contract!Init
  OBVIOUS
<1>1. Laws \in SUBSET Contents
  BY DEF BrokerInit, ReloadInit, Laws, Version
<1>2. Phases = [c \in Conn |-> "open"]
  BY DEF BrokerInit, Phases, PhaseOf
<1>3. Orders = [c \in Conn |-> NoRule]
  BY DEF BrokerInit, Orders, OrderOf
<1>4. Consents = {} /\ Started = {}
  BY DEF BrokerInit, Consents, Started
<1> QED
  BY <1>1, <1>2, <1>3, <1>4 DEF Contract!Init

\* The phases, as the provers need them.
LEMMA PhaseIs ==
  /\ \A s \in Unvetted : PhaseOf(s) = "open"
  /\ \A s \in {"rate", "cache", "approve", "dialog"} : PhaseOf(s) = "admitted"
  /\ \A s \in {"hit", "record", "run"} : PhaseOf(s) = "granted"
  /\ PhaseOf("running") = "running"
  /\ \A s \in {"audit", "reply", "release", "done", "dead"} : PhaseOf(s) = "closed"
BY DEF PhaseOf, Unvetted

\* A step of one connection is the same step of the promise, or none.
LEMMA WorkerPromise ==
  ASSUME PoolInv, ConsentInv, Unruled, NEW c \in Conn
  PROVE  /\ Connect(c) \/ Accept(c) \/ Dispatch(c) \/ WorkerReload(c) => UNCHANGED Contract!vars
         /\ TurnAway(c) \/ NoAgent(c) \/ Exit(c) => Contract!Next
         /\ Authorise(c) \/ NoteHit(c) \/ Ask(c) \/ NoteApproval(c) \/ WriteAudit(c)
            \/ Reply(c) \/ Release(c) => UNCHANGED Contract!vars
<1> USE MappingKept
<1>t. Typed
  BY DEF PoolInv, BrokerTypeOK
<1>1. ASSUME Connect(c) \/ Accept(c) \/ Dispatch(c) PROVE UNCHANGED Contract!vars
  <2>1. UNCHANGED <<Laws, Orders, Consents, Started>>
    BY <1>1 DEF Connect, Accept, Dispatch, Begin, reloadVars, askVars, groundVars
  <2>2. \E from, to \in {"none", "backlog", "accepted", "worker"} : Move(c, from, to)
    BY <1>1 DEF Connect, Accept, Dispatch
  <2>3. \A s \in {"none", "backlog", "accepted", "worker"} : PhaseOf(s) = "open"
    BY PhaseIs DEF Unvetted
  <2> QED
    BY <1>t, <2>1, <2>2, <2>3, StutterStep
<1>2. ASSUME WorkerReload(c) PROVE UNCHANGED Contract!vars
  <2>1. UNCHANGED history
    BY <1>2 DEF WorkerReload, ReadHash, HashFails, FastPath, TakeLock, Load, LoadFails,
       Swap, Publish, Snapshot
  <2>2. UNCHANGED <<stage, rule, req, human, ran>>
    BY <1>2 DEF WorkerReload, workerVars, askVars, groundVars
  <2> QED
    BY <2>1, <2>2 DEF Contract!vars
<1>3. ASSUME TurnAway(c) \/ NoAgent(c) \/ Exit(c) PROVE Contract!Next
  <2>1. UNCHANGED <<Laws, Orders, Consents, Started>>
    BY <1>3 DEF TurnAway, NoAgent, Exit, reloadVars, askVars, groundVars
  <2>2. \E from \in {"worker", "approve", "running"}, to \in {"audit", "reply"} :
          Move(c, from, to)
    BY <1>3 DEF TurnAway, NoAgent, Exit, Settle
  <2>3. /\ \A s \in {"worker", "approve", "running"} : PhaseOf(s) # "closed"
        /\ \A s \in {"audit", "reply"} : PhaseOf(s) = "closed"
    BY PhaseIs DEF Unvetted
  <2> QED
    BY <1>t, <2>1, <2>2, <2>3, CloseStep
<1>4. ASSUME Authorise(c) \/ NoteHit(c) \/ Ask(c) \/ NoteApproval(c) \/ WriteAudit(c)
             \/ Reply(c) \/ Release(c)
      PROVE  UNCHANGED Contract!vars
  <2>1. UNCHANGED <<Laws, Orders, Consents, Started>>
    BY <1>4 DEF Authorise, NoteHit, Ask, NoteApproval, WriteAudit, Reply, Release, End,
       reloadVars, askVars, groundVars
  <2>2. \/ Move(c, "worker", "read") \/ Move(c, "hit", "run") \/ Move(c, "approve", "dialog")
        \/ Move(c, "record", "run") \/ Move(c, "audit", "reply")
        \/ Move(c, "reply", "release") \/ Move(c, "release", "done")
    BY <1>4 DEF Authorise, NoteHit, Ask, NoteApproval, WriteAudit, Reply, Release
  <2>3. /\ PhaseOf("worker") = PhaseOf("read")
        /\ PhaseOf("hit") = PhaseOf("run") /\ PhaseOf("record") = PhaseOf("run")
        /\ PhaseOf("approve") = PhaseOf("dialog")
        /\ PhaseOf("audit") = PhaseOf("reply") /\ PhaseOf("reply") = PhaseOf("release")
        /\ PhaseOf("release") = PhaseOf("done")
    BY PhaseIs DEF Unvetted
  <2> QED
    BY <1>t, <2>1, <2>2, <2>3, StutterStep
<1> QED
  BY <1>1, <1>2, <1>3, <1>4

\* What a client sends is no order before it is vetted.
LEMMA ReceivePromise ==
  ASSUME PoolInv, Unruled, NEW c \in Conn, Receive(c)
  PROVE  [Contract!Next]_(Contract!vars)
<1>t. Typed
  BY DEF PoolInv, BrokerTypeOK
<1>1. UNCHANGED <<Laws, Started>> /\ UNCHANGED <<rule, human>>
  BY MappingKept DEF Receive, reloadVars, groundVars
<1>2. stage[c] = "read" /\ rule[c] = NoRule
  BY DEF Receive, Settle, Move, Unruled, Unvetted
<1>3. \A d \in Conn \ {c} : req'[d] = req[d]
  BY <1>t DEF Receive, Typed
<1>4. \A d \in Conn : OrderOf(d)' = OrderOf(d)
  BY <1>1, <1>2, <1>3 DEF OrderOf
<1>5. UNCHANGED <<Orders, Consents>>
  BY <1>1, <1>4 DEF Orders, Consents
<1>6. \E to \in {"vet", "reply", "release"} : Move(c, "read", to)
  BY DEF Receive, Settle, Early
<1>7. /\ PhaseOf("read") = "open" /\ PhaseOf("vet") = "open"
      /\ PhaseOf("reply") = "closed" /\ PhaseOf("release") = "closed"
  BY PhaseIs DEF Unvetted
<1>8. CASE Move(c, "read", "vet")
  BY <1>t, <1>1, <1>5, <1>7, <1>8, StutterStep
<1>9. CASE Move(c, "read", "reply") \/ Move(c, "read", "release")
  BY <1>t, <1>1, <1>5, <1>7, <1>9, CloseStep
<1> QED
  BY <1>6, <1>8, <1>9

\* What the vetting lets pass, a policy that was law permits to this caller.
LEMMA VetPromise ==
  ASSUME PoolInv, ConsentInv, NEW c \in Conn, Vet(c)
  PROVE  Contract!Next
<1> DEFINE admitted == Verdict[history[ver[c]]][req[c]]
<1>t. Typed /\ Staged(c) /\ Consent(c) /\ stage[c] = "vet"
  BY DEF PoolInv, BrokerTypeOK, ConsentInv, Vet
<1>1. UNCHANGED history /\ UNCHANGED <<req, human, ran>>
  BY DEF Vet, reloadVars, groundVars
<1>2. CASE UNCHANGED rule /\ \E o : Settle(c, "vet", o)
  <2>1. \E to \in {"audit", "reply"} : Move(c, "vet", to)
    BY <1>2 DEF Settle
  <2>2. PhaseOf("vet") # "closed" /\ PhaseOf("audit") = "closed" /\ PhaseOf("reply") = "closed"
    BY PhaseIs DEF Unvetted
  <2>3. UNCHANGED <<Laws, Orders, Consents, Started>>
    BY <1>1, <1>2, MappingKept
  <2> QED
    BY <1>t, <2>1, <2>2, <2>3, CloseStep
<1>3. CASE /\ admitted # NoRule
           /\ Move(c, "vet", "rate")
           /\ rule' = [rule EXCEPT ![c] = admitted]
  <2>1. ver[c] \in 1 .. Version /\ history[ver[c]] \in Laws
    BY <1>t DEF Staged, Typed, Live, Laws
  <2>2. history[ver[c]] \in Contents /\ req[c] \in Argv
    BY <1>t, <2>1 DEF PoolInv, BrokerTypeOK, ReloadTypeOK, Version, Typed
  <2>3. <<admitted, req[c]>> \in PermitsOf[history[ver[c]]][c]
    <3>1. Uid[c] \in AgentUids[history[ver[c]]]
      BY <1>t DEF Consent
    <3> QED
      BY <1>3, <2>2, <3>1 DEF PermitsOf
  <2>4. \A d \in Conn : OrderOf(d)' = IF d = c THEN <<admitted, req[c]>> ELSE OrderOf(d)
    BY <1>t, <1>1, <1>3 DEF OrderOf, Typed
  <2>5. Orders' = [Orders EXCEPT ![c] = <<admitted, req[c]>>]
    BY <2>4 DEF Orders
  <2>6. human[c] # "allow"
    BY <1>t DEF Consent, Late
  <2>7. UNCHANGED Consents
    BY <1>1, <2>4, <2>6 DEF Consents
  <2>8. UNCHANGED <<Laws, Started>>
    BY <1>1, MappingKept
  <2>9. Phases[c] = "open" /\ Phases' = [Phases EXCEPT ![c] = "admitted"]
    <3>1. PhaseOf("vet") = "open" /\ PhaseOf("rate") = "admitted"
      BY PhaseIs DEF Unvetted
    <3> QED
      BY <1>t, <1>3, <3>1, PhaseMoves
  <2>10. Contract!Admit(c)
    BY <2>1, <2>3, <2>5, <2>7, <2>8, <2>9 DEF Contract!Admit, Contract!Advance
  <2> QED
    BY <2>10 DEF Contract!Next
<1> QED
  BY <1>2, <1>3 DEF Vet, MoveTimed

\* The rate limit and the cache: a hit reuses a consent to the same order.
LEMMA LimitPromise ==
  ASSUME PoolInv, ConsentInv, NEW c \in Conn, CheckRate(c) \/ CheckCache(c)
  PROVE  [Contract!Next]_(Contract!vars)
<1>t. Typed /\ Staged(c)
  BY DEF PoolInv, BrokerTypeOK
<1>1. UNCHANGED <<Laws, Orders, Consents, Started>>
  BY MappingKept DEF CheckRate, CheckCache, reloadVars, askVars, groundVars
<1>2. CASE Move(c, "rate", "audit")
  <2>1. PhaseOf("rate") # "closed" /\ PhaseOf("audit") = "closed"
    BY PhaseIs
  <2> QED
    BY <1>t, <1>1, <1>2, <2>1, CloseStep
<1>3. CASE Move(c, "rate", "cache") \/ Move(c, "cache", "approve")
  <2>1. PhaseOf("rate") = PhaseOf("cache") /\ PhaseOf("cache") = PhaseOf("approve")
    BY PhaseIs
  <2> QED
    BY <1>t, <1>1, <1>3, <2>1, StutterStep
<1>4. CASE Move(c, "cache", "hit") /\ approvals.cache[<<rule[c], req[c]>>] # Never
  <2>1. rule[c] \in Rules /\ req[c] \in Argv
    BY <1>t, <1>4 DEF Move, Staged, Typed, Live
  <2>2. PICK d \in Conn : human[d] = "allow" /\ rule[d] = rule[c] /\ req[d] = req[c]
    BY <1>4, <2>1 DEF ConsentInv, CacheBacked, ApprovedAt
  <2>3. OrderOf(d) = OrderOf(c)
    BY <2>2 DEF OrderOf
  <2>4. Orders[c] \in Consents
    BY <2>2, <2>3 DEF Orders, Consents
  <2>5. Phases[c] = "admitted" /\ Phases' = [Phases EXCEPT ![c] = "granted"]
    <3>1. PhaseOf("cache") = "admitted" /\ PhaseOf("hit") = "granted"
      BY PhaseIs
    <3> QED
      BY <1>t, <1>4, <3>1, PhaseMoves
  <2>6. Contract!Reuse(c)
    BY <1>1, <2>4, <2>5 DEF Contract!Reuse, Contract!Advance
  <2> QED
    BY <2>6 DEF Contract!Next
<1>5. \/ Move(c, "rate", "audit") \/ Move(c, "rate", "cache") \/ Move(c, "cache", "approve")
      \/ Move(c, "cache", "hit") /\ approvals.cache[<<rule[c], req[c]>>] # Never
  <2>1. CheckRate(c) => Move(c, "rate", "audit") \/ Move(c, "rate", "cache")
    BY DEF CheckRate, Settle, Early, MoveTimed
  <2>2. CheckCache(c) => \/ Move(c, "cache", "approve")
                         \/ /\ Move(c, "cache", "hit")
                            /\ approvals.cache[<<rule[c], req[c]>>] # Never
    BY DEF CheckCache, CacheFresh, MoveTimed
  <2> QED
    BY <2>1, <2>2
<1> QED
  BY <1>2, <1>3, <1>4, <1>5

\* The human's answer is the consent to the order of the request it is about.
LEMMA AnswerPromise ==
  ASSUME PoolInv, ConsentInv, NEW c \in Conn, Answer(c)
  PROVE  Contract!Next
<1>t. Typed /\ Consent(c)
  BY DEF PoolInv, BrokerTypeOK, ConsentInv
<1>1. UNCHANGED <<Laws, Orders, Started>> /\ UNCHANGED <<rule, req>>
  BY MappingKept DEF Answer, reloadVars, askVars
<1>2. human[c] # "allow"
  BY <1>t DEF Answer, MoveTimed, Settle, Move, Consent, Late
<1>3. \A d \in Conn : OrderOf(d)' = OrderOf(d)
  BY <1>1 DEF OrderOf
<1>4. CASE Move(c, "dialog", "record") /\ human' = [human EXCEPT ![c] = "allow"]
  <2>1. \A d \in Conn : human'[d] = "allow" <=> d = c \/ human[d] = "allow"
    BY <1>t, <1>4 DEF Typed
  <2>2. Consents' = Consents \cup {Orders[c]}
    BY <1>3, <2>1 DEF Consents, Orders
  <2>3. Phases[c] = "admitted" /\ Phases' = [Phases EXCEPT ![c] = "granted"]
    <3>1. PhaseOf("dialog") = "admitted" /\ PhaseOf("record") = "granted"
      BY PhaseIs
    <3> QED
      BY <1>t, <1>4, <3>1, PhaseMoves
  <2>4. Contract!Consent(c)
    BY <1>1, <2>2, <2>3 DEF Contract!Consent, Contract!Advance
  <2> QED
    BY <2>4 DEF Contract!Next
<1>5. CASE /\ Move(c, "dialog", "audit")
           /\ UNCHANGED human \/ human' = [human EXCEPT ![c] = "deny"]
  <2>1. \A d \in Conn : human'[d] = "allow" <=> human[d] = "allow"
    BY <1>t, <1>2, <1>5 DEF Typed
  <2>2. UNCHANGED Consents
    BY <1>3, <2>1 DEF Consents
  <2>3. PhaseOf("dialog") # "closed" /\ PhaseOf("audit") = "closed"
    BY PhaseIs
  <2> QED
    BY <1>t, <1>1, <1>5, <2>2, <2>3, CloseStep
<1> QED
  BY <1>4, <1>5 DEF Answer, MoveTimed, Settle, Early

\* A command is started once it is granted, or its request is closed.
LEMMA StartPromise ==
  ASSUME PoolInv, NEW c \in Conn, Start(c)
  PROVE  Contract!Next
<1>t. Typed
  BY DEF PoolInv, BrokerTypeOK
<1>1. UNCHANGED <<Laws, Orders, Consents>>
  BY MappingKept DEF Start, reloadVars, askVars
<1>2. CASE Move(c, "run", "running") /\ ran' = [ran EXCEPT ![c] = Ground(c)]
  <2>1. Ground(c) # "no"
    BY DEF Ground
  <2>2. \A d \in Conn : ran'[d] # "no" <=> d = c \/ ran[d] # "no"
    BY <1>t, <1>2, <2>1 DEF Typed
  <2>3. Started' = Started \cup {c}
    BY <2>2 DEF Started
  <2>4. Phases[c] = "granted" /\ Phases' = [Phases EXCEPT ![c] = "running"]
    <3>1. PhaseOf("run") = "granted" /\ PhaseOf("running") = "running"
      BY PhaseIs
    <3> QED
      BY <1>t, <1>2, <3>1, PhaseMoves
  <2>5. Contract!Run(c)
    BY <1>1, <2>3, <2>4 DEF Contract!Run, Contract!Advance
  <2> QED
    BY <2>5 DEF Contract!Next
<1>3. CASE Move(c, "run", "audit") /\ UNCHANGED ran
  <2>1. PhaseOf("run") # "closed" /\ PhaseOf("audit") = "closed"
    BY PhaseIs
  <2> QED
    BY <1>t, <1>1, <1>3, <2>1, MappingKept, CloseStep
<1> QED
  BY <1>2, <1>3 DEF Start, Settle, Early

\* The file, the clock and the daemon's start and end.
LEMMA SurroundingsPromise ==
  ASSUME PoolInv, Tick \/ EditFile \/ Startup \/ BrokerCrash
  PROVE  [Contract!Next]_(Contract!vars)
<1>t. Typed
  BY DEF PoolInv, BrokerTypeOK
<1>1. CASE Tick \/ Startup
  <2>1. UNCHANGED <<history, stage, rule, req, human, ran>>
    BY <1>1 DEF Tick, Startup, StartLoad, StartHash, reloadVars, brokerVars, workerVars,
       askVars, groundVars
  <2> QED
    BY <2>1, MappingKept DEF Contract!vars
<1>2. CASE EditFile
  <2>1. PICK k \in Contents : Edit(k)
    BY <1>2 DEF EditFile
  <2>2. UNCHANGED <<Phases, Orders, Consents, Started>>
    BY <1>2, MappingKept DEF EditFile, brokerVars, workerVars, askVars, groundVars
  <2>3. /\ Version' = Version + 1 /\ Version \in Nat /\ history'[Version'] = k
        /\ \A v \in 1 .. Version : history'[v] = history[v]
    BY <2>1, EditHistory DEF PoolInv, BrokerTypeOK
  <2>4. Laws' = Laws \cup {k}
    BY <2>3 DEF Laws
  <2>5. Contract!Legislate
    BY <2>2, <2>4 DEF Contract!Legislate
  <2> QED
    BY <2>5 DEF Contract!Next
<1>3. CASE BrokerCrash
  <2> DEFINE Lost == {c \in Conn : Phases[c] # "closed" /\ stage'[c] = "dead"}
  <2>1. UNCHANGED <<Laws, Orders, Consents, Started>>
    BY <1>3, MappingKept DEF BrokerCrash, Crash, ReloadCrash, askVars, groundVars
  <2>2. \A c \in Conn : stage'[c] = stage[c] \/ stage'[c] = "dead"
    BY <1>3 DEF BrokerCrash
  <2>3. Phases' = [c \in Conn |-> PhaseOf(stage'[c])]
    BY DEF Phases, PhaseOf
  <2>4. PhaseOf("dead") = "closed"
    BY PhaseIs
  <2>5. Phases' = [c \in Conn |-> IF c \in Lost THEN "closed" ELSE Phases[c]]
    BY <2>2, <2>3, <2>4 DEF Phases
  <2>6. \A c \in Lost : Phases[c] \in Contract!Open
    BY DEF Phases, PhaseOf, Contract!Open
  <2>7. Contract!Close(Lost)
    BY <2>1, <2>5, <2>6 DEF Contract!Close
  <2> QED
    BY <2>7 DEF Contract!Next
<1> QED
  BY <1>1, <1>2, <1>3

\* Every step of the daemon is a step of the promise, or none.
LEMMA PromiseStep ==
  PoolInv /\ ConsentInv /\ Unruled /\ [BrokerNext]_vars
    => [Contract!Next]_(Contract!vars)
<1> SUFFICES ASSUME PoolInv, ConsentInv, Unruled, [BrokerNext]_vars
             PROVE  [Contract!Next]_(Contract!vars)
  OBVIOUS
<1>1. ASSUME NEW c \in Conn, Connect(c) \/ Worker(c) \/ Awaited(c) \/ NoAgent(c)
             \/ Accept(c) \/ Dispatch(c)
      PROVE  [Contract!Next]_(Contract!vars)
  BY <1>1, WorkerPromise, ReceivePromise, VetPromise, LimitPromise, AnswerPromise,
     StartPromise DEF Worker, Awaited
<1>2. CASE UNCHANGED vars
  BY <1>2, MappingKept
     DEF vars, reloadVars, brokerVars, workerVars, askVars, groundVars, Contract!vars
<1> QED
  BY <1>1, <1>2, SurroundingsPromise DEF BrokerNext, AcceptLoop

\* For any number of connections and slots, any policies, edits and crashes: no
\* command is put to a human, granted, started or answered but in the order of
\* the promise, on a policy that was law and a consent to that very order.
THEOREM BrokerKeepsPromise == BrokerSpec => PromiseKept
BY PoolInit, PoolStep, ConsentInit, ConsentStep, UnruledInit, UnruledStep,
   PromiseInit, PromiseStep, PTL DEF BrokerSpec, PromiseKept, Contract!Spec

=============================================================================
