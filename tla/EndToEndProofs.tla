--------------------------- MODULE EndToEndProofs ---------------------------
(***************************************************************************)
(* Proofs about what can be told of a request from outside: the records    *)
(* the daemon keeps of what it ran (module Broker), and the exit code its  *)
(* caller sees (module EndToEnd).                                          *)
(***************************************************************************)
EXTENDS EndToEnd, BrokerProofs

-----------------------------------------------------------------------------
(* The audit log. *)

\* The stages of a request whose fate is open.
Unsettled == Stage \ {"audit", "reply", "release", "done", "dead"}

\* How the outcome, the execution, the human's answer and the record of a
\* request agree at each stage.  That the log is right about a command which
\* ran depends on the outcome being chosen by what ran, and that a refusal
\* is right on nothing having run before it.
Logged(c) ==
  /\ stage[c] \in Unsettled => out[c] = "none" /\ audit[c] = "none"
  /\ stage[c] \in Unsettled \ {"running"} => ran[c] = "no"
  /\ stage[c] = "running" => ran[c] # "no"
  /\ human[c] = "deny" <=> out[c] = "denied-user"
  /\ out[c] = "executed" => ran[c] = "human"
  /\ out[c] = "approved-cached" => ran[c] = "cached"
  /\ out[c] \in Denials \cup Early \cup {"approver-error"} => ran[c] = "no"
  /\ stage[c] = "audit" => out[c] \in Outcome
  /\ stage[c] \in {"reply", "release", "done"} =>
       (ran[c] # "no" \/ out[c] \in Outcome => audit[c] # "none")

LogInv == \A c \in Conn : Logged(c)

\* The outcome, the execution, the answer and the record of c stay.
Unlogged(c) ==
  out'[c] = out[c] /\ ran'[c] = ran[c] /\ human'[c] = human[c] /\ audit'[c] = audit[c]

\* A request of which nothing is decided or recorded keeps its entry.
LEMMA QuietLog ==
  ASSUME NEW c \in Conn, Logged(c), Unlogged(c),
         \/ stage'[c] = stage[c]
         \/ stage'[c] = "dead"
         \/ stage[c] \in Unsettled \ {"running"} /\ stage'[c] \in Unsettled \ {"running"}
  PROVE  Logged(c)'
BY DEF Logged, Unlogged, Unsettled, Stage, Live

\* A step of request c concerns no other.
LEMMA OneLog ==
  ASSUME LogInv, Typed, NEW c \in Conn, NEW from, NEW to, Move(c, from, to),
         \A d \in Conn \ {c} : Unlogged(d), Logged(c)'
  PROVE  LogInv'
<1>1. \A d \in Conn \ {c} : stage'[d] = stage[d]
  BY DEF Move, Typed
<1>2. \A d \in Conn \ {c} : Logged(d)'
  BY <1>1, QuietLog DEF LogInv
<1> QED
  BY <1>2 DEF LogInv

LEMMA LogInit == BrokerInit => LogInv
BY DEF BrokerInit, LogInv, Logged, Denials, Early, Outcome

\* Every step keeps the outcome, the execution and the record in agreement.
LEMMA LogStep == PoolInv /\ LogInv /\ [BrokerNext]_vars => LogInv'
<1> SUFFICES ASSUME PoolInv, LogInv, [BrokerNext]_vars PROVE LogInv'
  OBVIOUS
<1>t. Typed /\ \A c \in Conn : Logged(c)
  BY DEF PoolInv, BrokerTypeOK, LogInv
<1>1. ASSUME NEW c \in Conn,
             Connect(c) \/ Accept(c) \/ Dispatch(c) \/ Authorise(c) \/ Ask(c)
             \/ NoteHit(c) \/ NoteApproval(c) \/ CheckCache(c)
      PROVE  LogInv'
  <2>1. /\ UNCHANGED <<out, ran, human, audit>>
        /\ \E from, to \in Unsettled \ {"running"} : Move(c, from, to)
    BY <1>1 DEF Connect, Accept, Dispatch, Authorise, Ask, NoteHit, NoteApproval, Note,
                CheckCache, MoveTimed, groundVars, Unsettled, Stage, Live
  <2>2. PICK from, to \in Unsettled \ {"running"} : Move(c, from, to)
    BY <2>1
  <2>3. stage[c] = from /\ stage'[c] = to /\ \A d \in Conn : Unlogged(d)
    BY <1>t, <2>1, <2>2 DEF Move, Typed, Unlogged
  <2> QED
    BY <1>t, <2>2, <2>3, QuietLog, OneLog
<1>2. CASE (\E c \in Conn : WorkerReload(c)) \/ Tick \/ EditFile \/ Startup \/ UNCHANGED vars
  <2>1. UNCHANGED workerVars
    BY <1>2 DEF WorkerReload, Tick, EditFile, Startup, brokerVars, vars
  <2>2. \A d \in Conn : Unlogged(d) /\ stage'[d] = stage[d]
    BY <2>1 DEF Unlogged, workerVars, groundVars
  <2> QED
    BY <1>t, <2>2, QuietLog DEF LogInv
<1>3. CASE BrokerCrash
  <2>1. \A d \in Conn : Unlogged(d) /\ stage'[d] \in {stage[d], "dead"}
    BY <1>3 DEF BrokerCrash, Unlogged, groundVars
  <2> QED
    BY <1>t, <2>1, QuietLog DEF LogInv
<1>4. ASSUME NEW c \in Conn, NEW from \in Unsettled \ {"running"}, NEW o \in Outcome \cup Early,
             Settle(c, from, o), UNCHANGED <<ran, human, audit>>,
             o \notin {"executed", "approved-cached", "denied-user"}
      PROVE  LogInv'
  <2>1. /\ stage[c] = from /\ out'[c] = o
        /\ stage'[c] = IF o \in Early THEN "reply" ELSE "audit"
        /\ \A d \in Conn \ {c} : Unlogged(d)
    BY <1>t, <1>4 DEF Settle, Move, Typed, Unlogged
  <2>2. Logged(c)'
    BY <1>t, <1>4, <2>1 DEF Logged, Unsettled, Stage, Live, Outcome, Denials, Early
  <2> QED
    BY <1>t, <1>4, <2>1, <2>2, OneLog DEF Settle
<1>5. ASSUME NEW c \in Conn, TurnAway(c) \/ NoAgent(c) PROVE LogInv'
  <2>1. PICK from \in Unsettled \ {"running"}, o \in Early \cup {"approver-error"} :
          Settle(c, from, o)
    BY <1>5 DEF TurnAway, NoAgent, Unsettled, Stage, Live, Early
  <2>2. UNCHANGED <<ran, human, audit>>
    BY <1>5 DEF TurnAway, NoAgent, groundVars
  <2> QED
    BY <1>4, <2>1, <2>2 DEF Outcome, Denials, Early
<1>6. ASSUME NEW c \in Conn, Receive(c) PROVE LogInv'
  <2>1. UNCHANGED <<ran, human, audit>>
    BY <1>6 DEF Receive, groundVars
  <2>2. CASE Settle(c, "read", "malformed")
    BY <1>4, <2>1, <2>2 DEF Unsettled, Stage, Live, Outcome, Denials, Early
  <2>3. ASSUME NEW to \in {"vet", "release"}, Move(c, "read", to), UNCHANGED out
        PROVE  LogInv'
    <3>1. stage[c] = "read" /\ stage'[c] = to /\ \A d \in Conn : Unlogged(d)
      BY <1>t, <2>1, <2>3 DEF Move, Typed, Unlogged
    <3>2. Logged(c)'
      BY <1>t, <3>1 DEF Logged, Unlogged, Unsettled, Stage, Live, Outcome, Denials
    <3> QED
      BY <1>t, <2>3, <3>1, <3>2, OneLog
  <2> QED
    BY <1>6, <2>2, <2>3 DEF Receive
<1>7. ASSUME NEW c \in Conn, Vet(c) \/ CheckRate(c) PROVE LogInv'
  <2>1. UNCHANGED <<ran, human, audit>>
    BY <1>7 DEF Vet, CheckRate, groundVars
  <2>2. ASSUME NEW from \in {"vet", "rate"}, NEW o \in Denials \ {"denied-user"},
               Settle(c, from, o)
        PROVE  LogInv'
    BY <1>4, <2>1, <2>2 DEF Unsettled, Stage, Live, Outcome, Denials, Early
  <2>3. ASSUME NEW from \in {"vet", "rate"}, NEW to \in {"rate", "cache"},
               Move(c, from, to), UNCHANGED out
        PROVE  LogInv'
    <3>1. /\ stage[c] = from /\ stage'[c] = to /\ from \in Unsettled \ {"running"}
          /\ to \in Unsettled \ {"running"} /\ \A d \in Conn : Unlogged(d)
      BY <1>t, <2>1, <2>3 DEF Move, Typed, Unlogged, Unsettled, Stage, Live
    <3> QED
      BY <1>t, <2>3, <3>1, QuietLog, OneLog
  <2> QED
    BY <1>7, <2>2, <2>3 DEF Vet, CheckRate, MoveTimed, Denials
<1>8. ASSUME NEW c \in Conn, Answer(c) PROVE LogInv'
  <2>1. UNCHANGED <<ran, audit>>
    BY <1>8 DEF Answer
  <2>2. CASE Settle(c, "dialog", "approver-error") /\ UNCHANGED human
    BY <1>4, <2>1, <2>2 DEF Unsettled, Stage, Live, Outcome, Denials, Early
  <2>3. CASE Settle(c, "dialog", "denied-user") /\ human' = [human EXCEPT ![c] = "deny"]
    <3>1. /\ Move(c, "dialog", "audit") /\ stage[c] = "dialog" /\ stage'[c] = "audit"
          /\ out'[c] = "denied-user" /\ human'[c] = "deny"
          /\ \A d \in Conn \ {c} : Unlogged(d)
      BY <1>t, <2>1, <2>3 DEF Settle, Move, Typed, Unlogged, Early
    <3>2. Logged(c)'
      BY <1>t, <2>1, <3>1 DEF Logged, Unsettled, Stage, Live, Outcome, Denials, Early
    <3> QED
      BY <1>t, <3>1, <3>2, OneLog
  <2>4. CASE /\ Move(c, "dialog", "record") /\ UNCHANGED out
             /\ human' = [human EXCEPT ![c] = "allow"]
    <3>1. /\ stage[c] = "dialog" /\ stage'[c] = "record" /\ human'[c] = "allow"
          /\ \A d \in Conn \ {c} : Unlogged(d)
      BY <1>t, <2>1, <2>4 DEF Move, Typed, Unlogged
    <3>2. Logged(c)'
      BY <1>t, <2>1, <2>4, <3>1 DEF Logged, Unsettled, Stage, Live, Outcome, Denials, Early
    <3> QED
      BY <1>t, <2>4, <3>1, <3>2, OneLog
  <2> QED
    BY <1>8, <2>2, <2>3, <2>4 DEF Answer, MoveTimed
<1>9. ASSUME NEW c \in Conn, Start(c) PROVE LogInv'
  <2>1. UNCHANGED <<human, audit>>
    BY <1>9 DEF Start
  <2>2. CASE Settle(c, "run", "execute-error") /\ UNCHANGED ran
    BY <1>4, <2>1, <2>2 DEF Unsettled, Stage, Live, Outcome, Denials, Early
  <2>3. CASE /\ Move(c, "run", "running") /\ UNCHANGED out
             /\ ran' = [ran EXCEPT ![c] = Ground(c)]
    <3>1. /\ stage[c] = "run" /\ stage'[c] = "running" /\ ran'[c] \in {"human", "cached"}
          /\ \A d \in Conn \ {c} : Unlogged(d)
      BY <1>t, <2>1, <2>3 DEF Move, Typed, Unlogged, Ground
    <3>2. Logged(c)'
      BY <1>t, <2>1, <2>3, <3>1 DEF Logged, Unsettled, Stage, Live, Outcome, Denials, Early
    <3> QED
      BY <1>t, <2>3, <3>1, <3>2, OneLog
  <2> QED
    BY <1>9, <2>2, <2>3 DEF Start
<1>10. ASSUME NEW c \in Conn, Exit(c) PROVE LogInv'
  <2>1. PICK o \in {"executed", "approved-cached", "execute-error"} :
          /\ Settle(c, "running", o)
          /\ o = "executed" => ran[c] # "cached"
          /\ o = "approved-cached" => ran[c] = "cached"
    BY <1>10 DEF Exit
  <2>2. /\ Move(c, "running", "audit") /\ stage[c] = "running" /\ stage'[c] = "audit"
        /\ out'[c] = o /\ UNCHANGED <<ran, human, audit>>
        /\ \A d \in Conn \ {c} : Unlogged(d)
    BY <1>t, <1>10, <2>1 DEF Exit, Settle, Move, Typed, Unlogged, Early, groundVars
  <2>3. ran[c] \in {"no", "human", "cached"}
    BY <1>t DEF Typed
  <2>4. Logged(c)'
    BY <1>t, <2>1, <2>2, <2>3 DEF Logged, Unsettled, Stage, Live, Outcome, Denials, Early
  <2> QED
    BY <1>t, <2>2, <2>4, OneLog
<1>11. ASSUME NEW c \in Conn, WriteAudit(c) PROVE LogInv'
  <2>1. PICK fate \in {"written", "lost"} : audit' = [audit EXCEPT ![c] = fate]
    BY <1>11 DEF WriteAudit
  <2>2. /\ Move(c, "audit", "reply") /\ stage[c] = "audit" /\ stage'[c] = "reply"
        /\ audit'[c] = fate /\ UNCHANGED <<out, ran, human>>
        /\ \A d \in Conn \ {c} : Unlogged(d)
    BY <1>t, <1>11, <2>1 DEF WriteAudit, Move, Typed, Unlogged, groundVars
  <2>3. Logged(c)'
    BY <1>t, <2>1, <2>2 DEF Logged, Unsettled
  <2> QED
    BY <1>t, <2>2, <2>3, OneLog
<1>12. ASSUME NEW c \in Conn, Reply(c) \/ Release(c) PROVE LogInv'
  <2>1. PICK from \in {"reply", "release"}, to \in {"release", "done"} : Move(c, from, to)
    BY <1>12 DEF Reply, Release
  <2>2. /\ stage[c] = from /\ stage'[c] = to /\ UNCHANGED <<out, ran, human, audit>>
        /\ \A d \in Conn : Unlogged(d)
    BY <1>t, <1>12, <2>1 DEF Reply, Release, Move, Typed, Unlogged, groundVars
  <2>3. Logged(c)'
    BY <1>t, <2>2 DEF Logged, Unsettled
  <2> QED
    BY <1>t, <2>1, <2>2, <2>3, OneLog
<1> QED
  BY <1>1, <1>2, <1>3, <1>5, <1>6, <1>7, <1>8, <1>9, <1>10, <1>11, <1>12
     DEF BrokerNext, Worker, Awaited, AcceptLoop

\* Whatever threads, reloads and crashes are in between, the log agrees with
\* what ran, and nothing is answered that was to be recorded before.
THEOREM BrokerAuditTruthful == BrokerSpec => []AuditTruthful
<1>1. PoolInv /\ LogInv => AuditTruthful
  BY DEF LogInv, Logged, AuditTruthful, Denials
<1> QED
  BY <1>1, PoolInit, PoolStep, LogInit, LogStep, PTL DEF BrokerSpec

-----------------------------------------------------------------------------
(* The window of the rate limit. *)

\* The stages between the check of the rate and the record of the execution,
\* and the ones of a worker that has recorded it.
Passed == {"cache", "hit", "approve", "dialog", "record"}
Spent  == {"run", "running", "audit", "reply", "release", "done"}

\* The rule that admitted request c is capped.
Capped(c) == ver[c] # 0 /\ ScopeOf(c).rate > 0

\* The executions recorded under rule r after instant t, and the requests that
\* may still become one because the rate let them pass.
Recorded(r, t) == {c \in counted : rule[c] = r /\ noted[c] > t /\ Capped(c)}
Between(r)     == {c \in Conn : stage[c] \in Passed /\ rule[c] = r /\ Capped(c)}

\* What happened and what the daemon remembers of it agree: as far back as the
\* window reaches, each execution of a capped rule has an entry of its own.
WindowInv ==
  /\ IsFiniteSet(counted)
  /\ \A c \in counted : stage[c] \in Spent
  /\ \A r \in Rules, t \in Int : t >= clock - Window =>
       Cardinality(Recorded(r, t)) = Cardinality(Young(approvals.rate[r], t))

\* The bound, of the executions and of the requests that may still become one:
\* the executions alone are bounded only because the requests were counted
\* with them when the rate was checked.
Exposed(r) == Recorded(r, clock - Window) \cup Between(r)
ExposureInv ==
  \A r \in Rules : Exposed(r) # {} =>
    \E cap \in Caps(r) : Cardinality(Exposed(r)) <= cap - 1 + MaxConcurrent

\* What a step may do to the stage, the rule and the record of a request.
LEMMA Passage ==
  ASSUME PoolInv, [BrokerNext]_vars, NEW d \in Conn
  PROVE  /\ stage[d] # "worker" => ver'[d] = ver[d]
         /\ stage[d] # "vet" => rule'[d] = rule[d]
         /\ stage[d] \in Spent => stage'[d] \in Spent \/ counted' = {}
         /\ stage'[d] \in Passed => stage[d] \in Passed \/ CheckRate(d)
         /\ d \in counted' \ counted => NoteHit(d) \/ NoteApproval(d)
<1> DEFINE Goal == /\ stage[d] # "worker" => ver'[d] = ver[d]
                   /\ stage[d] # "vet" => rule'[d] = rule[d]
                   /\ stage[d] \in Spent => stage'[d] \in Spent \/ counted' = {}
                   /\ stage'[d] \in Passed => stage[d] \in Passed \/ CheckRate(d)
                   /\ d \in counted' \ counted => NoteHit(d) \/ NoteApproval(d)
<1>t. Typed
  BY DEF PoolInv, BrokerTypeOK
<1>1. ASSUME NEW c \in Conn, Connect(c) \/ Accept(c) \/ Dispatch(c) PROVE Goal
  <2>1. /\ UNCHANGED <<ver, rule, counted>>
        /\ \E from \in {"none", "backlog", "accepted"}, to \in {"backlog", "accepted", "worker"} :
             Move(c, from, to)
    BY <1>1 DEF Connect, Accept, Dispatch, askVars
  <2> QED
    BY <1>t, <2>1 DEF Move, Typed, Passed, Spent
<1>2. ASSUME NEW c \in Conn, TurnAway(c) \/ Authorise(c) PROVE Goal
  <2>1. /\ UNCHANGED <<rule, counted>>
        /\ UNCHANGED ver \/ \E v : ver' = [ver EXCEPT ![c] = v]
        /\ \E to \in {"reply", "read"} : Move(c, "worker", to)
    BY <1>2 DEF TurnAway, Authorise, Settle, askVars, sharedVars, Early
  <2> QED
    BY <1>t, <2>1 DEF Move, Typed, Passed, Spent
<1>3. ASSUME NEW c \in Conn, Receive(c) PROVE Goal
  <2>1. /\ UNCHANGED <<ver, rule, counted>>
        /\ \E to \in {"vet", "reply", "release"} : Move(c, "read", to)
    BY <1>3 DEF Receive, Settle, sharedVars, Early
  <2> QED
    BY <1>t, <2>1 DEF Move, Typed, Passed, Spent
<1>4. ASSUME NEW c \in Conn, Vet(c) PROVE Goal
  <2>1. /\ UNCHANGED <<ver, counted>>
        /\ UNCHANGED rule \/ \E r : rule' = [rule EXCEPT ![c] = r]
        /\ \E to \in {"audit", "rate"} : Move(c, "vet", to)
    BY <1>4 DEF Vet, Settle, MoveTimed, sharedVars, Early
  <2> QED
    BY <1>t, <2>1 DEF Move, Typed, Passed, Spent
<1>5. ASSUME NEW c \in Conn, CheckRate(c) PROVE Goal
  <2>1. /\ UNCHANGED <<ver, rule, counted>>
        /\ \E to \in {"audit", "cache"} : Move(c, "rate", to)
    BY <1>5 DEF CheckRate, Settle, MoveTimed, askVars, Early
  <2> QED
    BY <1>5, <1>t, <2>1 DEF Move, Typed, Passed, Spent
<1>6. ASSUME NEW c \in Conn, CheckCache(c) \/ Ask(c) \/ NoAgent(c) \/ Answer(c) PROVE Goal
  <2>1. /\ UNCHANGED <<ver, rule, counted>>
        /\ \E from \in {"cache", "approve", "dialog"},
              to \in {"hit", "approve", "dialog", "record", "audit"} : Move(c, from, to)
    BY <1>6 DEF CheckCache, Ask, NoAgent, Answer, Settle, MoveTimed, askVars, sharedVars, Early
  <2> QED
    BY <1>t, <2>1 DEF Move, Typed, Passed, Spent
<1>7. ASSUME NEW c \in Conn, NoteHit(c) \/ NoteApproval(c) PROVE Goal
  <2>1. /\ UNCHANGED <<ver, rule>> /\ counted' = counted \cup {c}
        /\ \E from \in {"hit", "record"} : Move(c, from, "run")
    BY <1>7 DEF NoteHit, NoteApproval, Note, askVars
  <2> QED
    BY <1>7, <1>t, <2>1 DEF Move, Typed, Passed, Spent
<1>8. ASSUME NEW c \in Conn, Start(c) \/ Exit(c) \/ WriteAudit(c) \/ Reply(c) \/ Release(c)
      PROVE  Goal
  <2>1. /\ UNCHANGED <<ver, rule, counted>>
        /\ \E from \in Spent, to \in Spent : Move(c, from, to)
    BY <1>8 DEF Start, Exit, WriteAudit, Reply, Release, Settle, askVars, sharedVars, Early,
                Spent
  <2> QED
    BY <1>t, <2>1 DEF Move, Typed, Passed, Spent
<1>9. CASE (\E c \in Conn : WorkerReload(c)) \/ Tick \/ EditFile \/ Startup \/ UNCHANGED vars
  <2>1. UNCHANGED workerVars /\ (counted' = counted \/ counted' = {})
    BY <1>9 DEF WorkerReload, Tick, EditFile, Startup, brokerVars, sharedVars, vars
  <2> QED
    BY <2>1 DEF workerVars, askVars
<1>10. CASE BrokerCrash
  BY <1>10 DEF BrokerCrash, askVars, Passed
<1> QED
  BY <1>1, <1>2, <1>3, <1>4, <1>5, <1>6, <1>7, <1>8, <1>9, <1>10
     DEF BrokerNext, Worker, Awaited, AcceptLoop

\* A rule that is capped for a request stays so, with the same cap.
LEMMA CapKept ==
  ASSUME PoolInv, [BrokerNext]_vars, NEW d \in Conn,
         ver'[d] = ver[d], rule'[d] = rule[d]
  PROVE  /\ Capped(d)' <=> Capped(d)
         /\ ver[d] # 0 => ScopeOf(d)' = ScopeOf(d)
<1>1. ver[d] # 0 => ver[d] \in 1 .. Version
  BY DEF PoolInv, BrokerTypeOK, Typed
<1>2. ver[d] # 0 => history'[ver'[d]] = history[ver[d]]
  BY <1>1, PastKept
<1>3. ver[d] # 0 => ScopeOf(d)' = ScopeOf(d)
  BY <1>2 DEF ScopeOf
<1> QED
  BY <1>3 DEF Capped

\* The caps the file has had stay, and each is a number.
LEMMA CapsKept ==
  ASSUME PoolInv, [BrokerNext]_vars, NEW r \in Rules
  PROVE  /\ Caps(r) \subseteq Caps(r)'
         /\ \A cap \in Caps(r) : cap \in Nat
<1>1. \A v \in 1 .. Version : v \in 1 .. Version' /\ history'[v] = history[v]
  BY PastKept
<1>2. Caps(r) \subseteq Caps(r)'
  BY <1>1 DEF Caps
<1>3. \A v \in 1 .. Version : history[v] \in Contents
  BY DEF PoolInv, BrokerTypeOK, ReloadTypeOK, Version
<1>4. \A k \in Contents : Scopes[k][r].rate \in Nat
  BY BrokerAssumption DEF Scope
<1> QED
  BY <1>2, <1>3, <1>4 DEF Caps

\* The records of the executions so far stay as they are.
LEMMA RecordsKept ==
  ASSUME PoolInv, WindowInv, [BrokerNext]_vars, NEW d \in counted
  PROVE  /\ rule'[d] = rule[d] /\ noted'[d] = noted[d]
         /\ Capped(d)' <=> Capped(d)
<1>1. d \in Conn /\ stage[d] \in Spent /\ Typed
  BY DEF PoolInv, BrokerTypeOK, Typed, WindowInv
<1>2. stage[d] \in Late
  BY <1>1 DEF Spent, Late
<1>3. rule'[d] = rule[d] /\ noted'[d] = noted[d]
  BY <1>1, <1>2, LateKept
<1>4. ver'[d] = ver[d]
  BY <1>1, Passage DEF Spent
<1> QED
  BY <1>1, <1>3, <1>4, CapKept

LEMMA ExposedFinite ==
  ASSUME PoolInv, WindowInv, NEW r, NEW t
  PROVE  /\ IsFiniteSet(Recorded(r, t)) /\ IsFiniteSet(Between(r))
         /\ Cardinality(Recorded(r, t)) \in Nat /\ Cardinality(Between(r)) \in Nat
         /\ IsFiniteSet(Recorded(r, t) \cup Between(r))
         /\ Cardinality(Recorded(r, t) \cup Between(r))
              <= Cardinality(Recorded(r, t)) + Cardinality(Between(r))
<1>1. Recorded(r, t) \in SUBSET counted /\ Between(r) \in SUBSET Workers
  BY DEF Recorded, Between, Workers, Passed, Live
<1>2. IsFiniteSet(Recorded(r, t)) /\ IsFiniteSet(Between(r))
  BY <1>1, FS_Subset DEF WindowInv, PoolInv
<1>3. Cardinality(Recorded(r, t)) \in Nat /\ Cardinality(Between(r)) \in Nat
  BY <1>2, FS_CardinalityType
<1>4. /\ IsFiniteSet(Recorded(r, t) \cup Between(r))
      /\ Cardinality(Recorded(r, t) \cup Between(r)) =
           Cardinality(Recorded(r, t)) + Cardinality(Between(r))
             - Cardinality(Recorded(r, t) \cap Between(r))
  BY <1>2, FS_Union
<1>5. Cardinality(Recorded(r, t) \cap Between(r)) \in Nat
  BY <1>2, FS_Intersection, FS_CardinalityType
<1> QED
  BY <1>2, <1>3, <1>4, <1>5

LEMMA RateInit == BrokerInit => WindowInv /\ ExposureInv
<1> SUFFICES ASSUME BrokerInit PROVE WindowInv /\ ExposureInv
  OBVIOUS
<1>1. counted = {} /\ IsFiniteSet({})
  BY FS_EmptySet DEF BrokerInit
<1>2. \A r \in Rules : \A t : Recorded(r, t) = {} /\ Between(r) = {} /\ Young(approvals.rate[r], t) = {}
  BY <1>1 DEF BrokerInit, Recorded, Between, Passed, Young, EmptyState
<1> QED
  BY <1>1, <1>2 DEF WindowInv, ExposureInv, Exposed

\* Every step keeps the agreement of the window with what happened.
LEMMA WindowStep == PoolInv /\ WindowInv /\ [BrokerNext]_vars => WindowInv'
<1> SUFFICES ASSUME PoolInv, WindowInv, [BrokerNext]_vars PROVE WindowInv'
  OBVIOUS
<1>t. Typed /\ \A c \in Conn : Staged(c)
  BY DEF PoolInv, BrokerTypeOK
<1>w. approvals.rate \in [Rules -> Seq(Nat)] /\ clock \in Nat
  BY <1>t DEF Typed, ApprovalState
<1>n. Window \in Nat
  BY ScopingAssumption
<1>s. \A c \in counted : counted' # {} => stage'[c] \in Spent
  BY <1>t, Passage DEF WindowInv, Typed
\* The step records nothing and resets nothing.
<1>1. ASSUME UNCHANGED counted, clock' >= clock,
             \A r \in Rules, t \in Int : t >= clock' - Window =>
               Cardinality(Young(approvals'.rate[r], t)) = Cardinality(Young(approvals.rate[r], t))
      PROVE  WindowInv'
  <2>1. \A r, t : Recorded(r, t)' = Recorded(r, t)
    BY <1>1, RecordsKept DEF Recorded
  <2>2. \A r \in Rules, t \in Int : t >= clock' - Window =>
          Cardinality(Recorded(r, t)') = Cardinality(Young(approvals'.rate[r], t))
    <3> SUFFICES ASSUME NEW r \in Rules, NEW t \in Int, t >= clock' - Window
                 PROVE  Cardinality(Recorded(r, t)') = Cardinality(Young(approvals'.rate[r], t))
      OBVIOUS
    <3>1. t >= clock - Window
      BY <1>1, <1>n, PastKept
    <3>2. Cardinality(Recorded(r, t)) = Cardinality(Young(approvals.rate[r], t))
      BY <3>1 DEF WindowInv
    <3> QED
      BY <1>1, <2>1, <3>2
  <2> QED
    BY <1>1, <1>s, <2>2 DEF WindowInv, Recorded, Young
\* The step resets the approval state.
<1>2. ASSUME counted' = {}, approvals' = EmptyState PROVE WindowInv'
  <2>1. \A r \in Rules : \A t : Recorded(r, t)' = {} /\ Young(approvals.rate[r], t)' = {}
    BY <1>2 DEF Recorded, Young, EmptyState
  <2> QED
    BY <1>2, <2>1, FS_EmptySet DEF WindowInv
\* The step records an execution.
<1>3. ASSUME NEW c \in Conn, NoteHit(c) \/ NoteApproval(c) PROVE WindowInv'
  <2>1. PICK now \in Instants(c) :
          /\ approvals'.rate = NoteExecution(approvals, ScopeOf(c), rule[c], now).rate
          /\ noted' = [noted EXCEPT ![c] = now]
    <3>1. PICK now \in Instants(c) :
            /\ approvals' \in {RecordCacheHit(approvals, ScopeOf(c), rule[c], req[c], now),
                               RecordApproval(approvals, ScopeOf(c), rule[c], req[c], now)}
            /\ noted' = [noted EXCEPT ![c] = now]
      BY <1>3 DEF NoteHit, NoteApproval, Note
    <3>2. \A st, k, v : [st EXCEPT !.cache[k] = v].rate = st.rate
      OBVIOUS
    <3>3. PICK st : st = NoteExecution(approvals, ScopeOf(c), rule[c], now)
      OBVIOUS
    <3>4. approvals'.rate = st.rate
      <4>1. \/ approvals' = st
            \/ approvals' = [st EXCEPT !.cache[<<rule[c], req[c]>>] = now]
        BY <3>1, <3>3 DEF RecordCacheHit, RecordApproval
      <4> QED
        BY <3>2, <4>1
    <3> QED
      BY <3>1, <3>3, <3>4
  <2>2. /\ stage[c] \in {"hit", "record"} /\ stage'[c] = "run"
        /\ counted' = counted \cup {c} /\ UNCHANGED <<reloadVars, rule, ver, clock>>
    BY <1>3, <1>t DEF NoteHit, NoteApproval, Note, Move, Typed, askVars, timeVars
  <2>3. /\ c \notin counted /\ now \in Nat /\ ver[c] # 0 /\ rule[c] \in Rules
        /\ noted'[c] = now /\ ScopeOf(c).rate \in Nat
    <3>1. c \notin counted
      BY <2>2 DEF WindowInv, Spent
    <3>2. ver[c] # 0 /\ rule[c] \in Rules
      <4>1. Staged(c) /\ rule[c] \in Rules \cup {NoRule} /\ stage[c] \in {"hit", "record"}
        BY <1>t, <2>2 DEF Typed
      <4> QED
        BY <4>1 DEF Staged, Live
    <3>3. ver[c] \in 1 .. Version /\ history[ver[c]] \in Contents
      <4>1. ver[c] \in 1 .. Version
        BY <1>t, <3>2, PastKept DEF Typed
      <4>2. history \in Seq(Contents)
        BY DEF PoolInv, BrokerTypeOK, ReloadTypeOK
      <4> QED
        BY <4>1, <4>2 DEF Version
    <3>4. ScopeOf(c).rate \in Nat
      BY <3>2, <3>3, BrokerAssumption DEF ScopeOf, Scope
    <3> QED
      BY <1>t, <2>1, <3>1, <3>2, <3>4 DEF Typed, Instants
  <2>4. Capped(c)' <=> ScopeOf(c).rate > 0
    BY <2>2, <2>3, CapKept DEF Capped
  <2>5. \A d \in counted : /\ rule'[d] = rule[d] /\ noted'[d] = noted[d]
                           /\ Capped(d)' <=> Capped(d)
    BY RecordsKept
  <2>6. \A r, t : Recorded(r, t)' =
          IF rule[c] = r /\ now > t /\ ScopeOf(c).rate > 0
          THEN Recorded(r, t) \cup {c} ELSE Recorded(r, t)
    BY <2>2, <2>3, <2>4, <2>5 DEF Recorded
  <2>7. ASSUME NEW r \in Rules, NEW t \in Int, t >= clock - Window
        PROVE  Cardinality(Recorded(r, t)') = Cardinality(Young(approvals'.rate[r], t))
    <3>1. Cardinality(Recorded(r, t)) = Cardinality(Young(approvals.rate[r], t))
      BY <2>7 DEF WindowInv
    <3>2. CASE rule[c] = r /\ ScopeOf(c).rate > 0
      <4>1. approvals'.rate[r] = Append(approvals.rate[r], now)
        BY <1>t, <1>w, <2>1, <2>3, <3>2 DEF NoteExecution, Typed, ApprovalState
      <4>2. Cardinality(Young(Append(approvals.rate[r], now), t)) =
              IF now > t THEN Cardinality(Young(approvals.rate[r], t)) + 1
                         ELSE Cardinality(Young(approvals.rate[r], t))
        BY <1>w, <2>3, AppendYoung
      <4>3. IsFiniteSet(Recorded(r, t)) /\ c \notin Recorded(r, t)
        BY <2>3, ExposedFinite DEF Recorded
      <4>4. Cardinality(Recorded(r, t) \cup {c}) = Cardinality(Recorded(r, t)) + 1
        BY <4>3, FS_AddElement
      <4> QED
        BY <2>6, <3>1, <3>2, <4>1, <4>2, <4>4
    <3>3. CASE ~ (rule[c] = r /\ ScopeOf(c).rate > 0)
      <4>1. approvals'.rate[r] = approvals.rate[r]
        BY <1>t, <1>w, <2>1, <2>3, <3>3 DEF NoteExecution, Typed, ApprovalState
      <4> QED
        BY <2>6, <3>1, <3>3, <4>1
    <3> QED
      BY <3>2, <3>3
  <2>8. IsFiniteSet(counted')
    BY <2>2, FS_AddElement DEF WindowInv
  <2> QED
    BY <1>s, <2>2, <2>7, <2>8 DEF WindowInv, Spent, Recorded, Young
<1>4. ASSUME NEW c \in Conn, CheckRate(c) PROVE WindowInv'
  <2>1. PICK now \in Instants(c) : approvals' = PruneRate(approvals, ScopeOf(c), rule[c], now)
    BY <1>4 DEF CheckRate
  <2>2. UNCHANGED <<counted, clock>> /\ now \in Nat /\ now <= clock
    BY <1>4, <1>t DEF CheckRate, timeVars, Instants, Typed
  <2>3. ASSUME NEW r \in Rules, NEW t \in Int, t >= clock' - Window
        PROVE  Cardinality(Young(approvals'.rate[r], t)) = Cardinality(Young(approvals.rate[r], t))
    <3>1. \/ approvals'.rate[r] = approvals.rate[r]
          \/ approvals'.rate[r] = Prune(approvals.rate[r], now)
      BY <1>t, <1>w, <2>1 DEF PruneRate, Typed, ApprovalState
    <3>2. now - Window <= t
      BY <1>w, <1>n, <2>2, <2>3
    <3> QED
      BY <1>w, <2>2, <3>1, <3>2, PruneYoung
  <2> QED
    BY <1>1, <1>w, <2>2, <2>3
<1>5. ASSUME NEW c \in Conn, WorkerReload(c) PROVE WindowInv'
  <2>1. UNCHANGED clock /\ (UNCHANGED <<approvals, counted>> \/ (approvals' = EmptyState /\ counted' = {}))
    BY <1>5 DEF WorkerReload, timeVars
  <2> QED
    BY <1>1, <1>2, <1>w, <2>1
<1>6. CASE BrokerCrash
  BY <1>2, <1>6 DEF BrokerCrash
<1>7. ASSUME UNCHANGED <<approvals, counted>> PROVE WindowInv'
  BY <1>1, <1>7, PastKept
<1>8. ASSUME NEW c \in Conn,
             \/ Connect(c) \/ Accept(c) \/ Dispatch(c) \/ TurnAway(c) \/ Authorise(c)
             \/ Receive(c) \/ Vet(c) \/ CheckCache(c) \/ Ask(c) \/ NoAgent(c)
             \/ Answer(c) \/ Start(c) \/ Exit(c) \/ WriteAudit(c) \/ Reply(c) \/ Release(c)
      PROVE  UNCHANGED <<approvals, counted>>
  BY <1>8 DEF Connect, Accept, Dispatch, TurnAway, Authorise, Receive, Vet, CheckCache, Ask,
              NoAgent, Answer, Start, Exit, WriteAudit, Reply, Release, sharedVars
<1>9. CASE Tick \/ EditFile \/ Startup \/ UNCHANGED vars
  BY <1>7, <1>9 DEF Tick, EditFile, Startup, brokerVars, sharedVars, vars
<1> QED
  BY <1>3, <1>4, <1>5, <1>6, <1>7, <1>8, <1>9 DEF BrokerNext, Worker, Awaited, AcceptLoop

\* Only the check of the rate exposes the window to one more request.
LEMMA QuietExposure ==
  ASSUME PoolInv, WindowInv, [BrokerNext]_vars, NEW r,
         \A c \in Conn : CheckRate(c) => stage'[c] \notin Passed \/ rule[c] # r \/ ~ Capped(c)
  PROVE  Exposed(r)' \subseteq Exposed(r)
<1>t. Typed /\ \A c \in Conn : Staged(c)
  BY DEF PoolInv, BrokerTypeOK
<1>1. ASSUME NEW d \in Conn, d \in Between(r)' PROVE d \in Between(r)
  <2>1. stage'[d] \in Passed /\ rule'[d] = r /\ Capped(d)'
    BY <1>1 DEF Between
  <2>2. stage[d] \in Passed \cup {"rate"}
    BY <2>1, Passage DEF CheckRate
  <2>3. ver'[d] = ver[d] /\ rule'[d] = rule[d]
    BY <2>2, Passage DEF Passed
  <2>4. Capped(d) /\ rule[d] = r
    BY <2>1, <2>3, CapKept
  <2>5. stage[d] \in Passed
    BY <2>1, <2>4, Passage
  <2> QED
    BY <2>4, <2>5 DEF Between
<1>2. ASSUME NEW d \in Conn, d \in Recorded(r, clock - Window)'
      PROVE  d \in Recorded(r, clock - Window) \cup Between(r)
  <2>1. d \in counted' /\ rule'[d] = r /\ noted'[d] > clock' - Window /\ Capped(d)'
    BY <1>2 DEF Recorded
  <2>2. CASE d \in counted
    <3>1. rule[d] = r /\ noted[d] > clock' - Window /\ Capped(d)
      BY <2>1, <2>2, RecordsKept
    <3>2. noted[d] \in Int /\ Window \in Nat
      BY <1>t, ScopingAssumption DEF Typed, Never
    <3>3. noted[d] > clock - Window
      BY <3>1, <3>2, PastKept
    <3> QED
      BY <2>2, <3>1, <3>3 DEF Recorded
  <2>3. CASE d \notin counted
    <3>1. NoteHit(d) \/ NoteApproval(d)
      BY <2>1, <2>3, Passage
    <3>2. stage[d] \in {"hit", "record"}
      BY <3>1 DEF NoteHit, NoteApproval
    <3>3. ver'[d] = ver[d] /\ rule'[d] = rule[d]
      BY <3>2, Passage
    <3>4. rule[d] = r /\ Capped(d)
      BY <2>1, <3>3, CapKept
    <3> QED
      BY <3>2, <3>4 DEF Between, Passed
  <2> QED
    BY <2>2, <2>3
<1>3. Recorded(r, clock - Window)' \subseteq Conn /\ Between(r)' \subseteq Conn
  <2>1. counted' \subseteq Conn
    BY PoolStep DEF PoolInv, BrokerTypeOK, Typed
  <2> QED
    BY <2>1 DEF Recorded, Between
<1> QED
  BY <1>1, <1>2, <1>3 DEF Exposed

\* The bound survives every step: the check of the rate counts the executions
\* of the window, and no more requests than there are slots can be past it.
LEMMA ExposureStep == PoolInv /\ WindowInv /\ ExposureInv /\ [BrokerNext]_vars => ExposureInv'
<1> SUFFICES ASSUME PoolInv, WindowInv, ExposureInv, [BrokerNext]_vars,
                    NEW r \in Rules, Exposed(r)' # {}
             PROVE  \E cap \in Caps(r)' : Cardinality(Exposed(r)') <= cap - 1 + MaxConcurrent
  BY DEF ExposureInv
<1>t. Typed /\ \A c \in Conn : Staged(c)
  BY DEF PoolInv, BrokerTypeOK
<1>p. PoolInv' /\ WindowInv'
  BY PoolStep, WindowStep
<1>n. MaxConcurrent \in Nat /\ Window \in Nat
  BY BrokerAssumption, ScopingAssumption
<1>1. CASE \A c \in Conn : CheckRate(c) => stage'[c] \notin Passed \/ rule[c] # r \/ ~ Capped(c)
  <2>1. Exposed(r)' \subseteq Exposed(r) /\ Exposed(r) # {}
    BY <1>1, QuietExposure
  <2>2. PICK cap \in Caps(r) : Cardinality(Exposed(r)) <= cap - 1 + MaxConcurrent
    BY <2>1 DEF ExposureInv
  <2>3. IsFiniteSet(Exposed(r))
    BY ExposedFinite DEF Exposed
  <2>4. /\ Cardinality(Exposed(r)') <= Cardinality(Exposed(r))
        /\ Cardinality(Exposed(r)) \in Nat /\ Cardinality(Exposed(r)') \in Nat
    BY <2>1, <2>3, FS_Subset, FS_CardinalityType
  <2>5. cap \in Nat /\ cap \in Caps(r)'
    BY CapsKept
  <2> QED
    BY <1>n, <2>2, <2>4, <2>5
<1>2. ASSUME NEW c \in Conn, CheckRate(c), stage'[c] \in Passed, rule[c] = r, Capped(c)
      PROVE  \E cap \in Caps(r)' : Cardinality(Exposed(r)') <= cap - 1 + MaxConcurrent
  <2>1. PICK now \in Instants(c) :
          /\ approvals' = PruneRate(approvals, ScopeOf(c), r, now)
          /\ ~ RateLimited(approvals, ScopeOf(c), r, now)
    <3>1. stage[c] = "rate"
      BY <1>2 DEF CheckRate
    <3>2. \A o \in Outcome : Settle(c, "rate", o) => stage'[c] \notin Passed
      BY <1>t DEF Settle, Move, Typed, Passed
    <3> QED
      BY <1>2, <3>2 DEF CheckRate, Outcome, Denials
  <2>2. UNCHANGED <<clock, slots>> /\ now \in Nat /\ now <= clock /\ clock \in Nat
    BY <1>2, <1>t DEF CheckRate, timeVars, Instants, Typed
  <2>3. ver[c] \in 1 .. Version
    BY <1>2, <1>t DEF Capped, Typed
  <2>4. PICK cap : cap = ScopeOf(c).rate
    OBVIOUS
  <2>5. cap \in Caps(r) /\ cap \in Nat /\ cap > 0
    <3>1. cap \in Caps(r)
      BY <1>2, <2>3, <2>4 DEF Caps, ScopeOf
    <3> QED
      BY <1>2, <2>4, <3>1, CapsKept DEF Capped
  <2>6. approvals.rate \in [Rules -> Seq(Nat)]
    BY <1>t DEF Typed, ApprovalState
  <2>7. approvals'.rate[r] = Prune(approvals.rate[r], now)
    BY <1>t, <2>1, <2>4, <2>5, <2>6 DEF PruneRate, Typed, ApprovalState
  <2>8. Prune(approvals.rate[r], now) \in Seq(Nat) /\ Len(Prune(approvals.rate[r], now)) < cap
    <3>1. Prune(approvals.rate[r], now) \in Seq(Nat)
      BY <2>2, <2>6, PruneType
    <3>2. ~ (Len(Prune(approvals.rate[r], now)) >= cap)
      BY <2>1, <2>4, <2>5 DEF RateLimited
    <3>3. Len(Prune(approvals.rate[r], now)) \in Nat
      BY <3>1
    <3> QED
      BY <2>5, <3>1, <3>2, <3>3
  <2>9. Cardinality(Recorded(r, clock - Window)') <= cap - 1
    <3>1. PICK t \in Int : t = clock - Window
      BY <1>n, <2>2
    <3>2. Recorded(r, clock - Window)' = Recorded(r, t)'
      BY <2>2, <3>1 DEF Recorded
    <3>3. Cardinality(Recorded(r, t)') = Cardinality(Young(approvals'.rate[r], t))
      BY <1>p, <2>2, <3>1, <1>n DEF WindowInv, Recorded, Young
    <3>4. /\ Cardinality(Young(approvals'.rate[r], t)) \in Nat
          /\ Cardinality(Young(approvals'.rate[r], t)) <= Len(approvals'.rate[r])
      BY <2>7, <2>8, YoungBound
    <3>5. Len(approvals'.rate[r]) \in Nat
      BY <2>7, <2>8
    <3> QED
      BY <2>5, <2>7, <2>8, <3>2, <3>3, <3>4, <3>5
  <2>10. Cardinality(Between(r)') <= MaxConcurrent /\ Cardinality(Between(r)') \in Nat
    <3>1. Between(r)' \in SUBSET Workers'
      BY DEF Between, Workers, Passed, Live
    <3>2. IsFiniteSet(Workers') /\ Cardinality(Workers') <= MaxConcurrent
      BY <1>p DEF PoolInv, SlotsExact
    <3>3. IsFiniteSet(Between(r)') /\ Cardinality(Between(r)') <= Cardinality(Workers')
      BY <3>1, <3>2, FS_Subset
    <3>4. Cardinality(Between(r)') \in Nat /\ Cardinality(Workers') \in Nat
      BY <3>2, <3>3, FS_CardinalityType
    <3> QED
      BY <1>n, <3>2, <3>3, <3>4
  <2>11. /\ Cardinality(Recorded(r, clock - Window)') \in Nat
         /\ Cardinality(Exposed(r)') \in Nat
         /\ Cardinality(Exposed(r)')
              <= Cardinality(Recorded(r, clock - Window)') + Cardinality(Between(r)')
    <3>1. PICK t : t = clock' - Window
      OBVIOUS
    <3>2. Recorded(r, clock - Window)' = Recorded(r, t)' /\ Exposed(r)' = Recorded(r, t)' \cup Between(r)'
      BY <3>1 DEF Recorded, Exposed
    <3>3. IsFiniteSet(Recorded(r, t)') /\ IsFiniteSet(Between(r)')
      <4>1. IsFiniteSet(counted') /\ IsFiniteSet(Workers')
        BY <1>p DEF WindowInv, PoolInv
      <4>2. Recorded(r, t)' \in SUBSET counted' /\ Between(r)' \in SUBSET Workers'
        BY DEF Recorded, Between, Workers, Passed, Live
      <4> QED
        BY <4>1, <4>2, FS_Subset
    <3>4. /\ IsFiniteSet(Recorded(r, t)' \cup Between(r)')
          /\ Cardinality(Recorded(r, t)' \cup Between(r)') =
               Cardinality(Recorded(r, t)') + Cardinality(Between(r)')
                 - Cardinality(Recorded(r, t)' \cap Between(r)')
      BY <3>3, FS_Union
    <3>5. /\ Cardinality(Recorded(r, t)') \in Nat
          /\ Cardinality(Recorded(r, t)' \cap Between(r)') \in Nat
          /\ Cardinality(Recorded(r, t)' \cup Between(r)') \in Nat
      BY <3>3, <3>4, FS_Intersection, FS_CardinalityType
    <3> QED
      BY <2>10, <3>2, <3>4, <3>5
  <2> QED
    BY <1>n, <2>5, <2>9, <2>10, <2>11, CapsKept
<1> QED
  BY <1>1, <1>2

\* However the checks of the rate and the records of the executions interleave,
\* whoever resets the window in between, no window holds more than cap - 1 +
\* MaxConcurrent executions of a rule.
THEOREM BrokerRunsBounded == BrokerSpec => []RunsBounded
<1>1. PoolInv /\ WindowInv /\ ExposureInv => RunsBounded
  <2> SUFFICES ASSUME PoolInv, WindowInv, ExposureInv, NEW r \in Rules, RecentRuns(r) # {}
               PROVE  \E cap \in Caps(r) : Cardinality(RecentRuns(r)) <= cap - 1 + MaxConcurrent
    BY DEF RunsBounded
  <2>1. RecentRuns(r) = Recorded(r, clock - Window)
    BY DEF RecentRuns, Recorded, Capped
  <2>2. RecentRuns(r) \subseteq Exposed(r)
    BY <2>1 DEF Exposed
  <2>3. IsFiniteSet(Exposed(r))
    BY ExposedFinite DEF Exposed
  <2>4. /\ Cardinality(RecentRuns(r)) <= Cardinality(Exposed(r))
        /\ Cardinality(RecentRuns(r)) \in Nat /\ Cardinality(Exposed(r)) \in Nat
    BY <2>2, <2>3, FS_Subset, FS_CardinalityType
  <2>5. PICK cap \in Caps(r) : Cardinality(Exposed(r)) <= cap - 1 + MaxConcurrent
    BY <2>2 DEF ExposureInv
  <2>6. cap \in Nat /\ MaxConcurrent \in Nat
    <3>1. \A v \in 1 .. Version : history[v] \in Contents
      BY DEF PoolInv, BrokerTypeOK, ReloadTypeOK, Version
    <3>2. \A k \in Contents : Scopes[k][r].rate \in Nat
      BY BrokerAssumption DEF Scope
    <3> QED
      BY <3>1, <3>2, BrokerAssumption DEF Caps
  <2> QED
    BY <2>4, <2>5, <2>6
<1> QED
  BY <1>1, PoolInit, PoolStep, RateInit, WindowStep, ExposureStep, PTL DEF BrokerSpec

-----------------------------------------------------------------------------
(* The exit code. *)

\* The stages before the request is read, and the ones a request is at that was.
Unread == {"backlog", "accepted", "worker", "read"}
Vetted == {"vet", "rate", "cache", "hit", "approve", "dialog", "record", "run", "running"}

\* How a client and its connection agree: what was read is what was typed; what
\* is answered is answered once, when the outcome and the status are final; a
\* connection that ends without an answer ran nothing, unless the daemon went
\* down; and a client ends with the answer, with 125 for want of one, or panics.
Called(c) ==
  LET parsed == ParseArgs(typed[c]) IN
  /\ client[c] = "none" => stage[c] = "none"
  /\ stage[c] = "none" => client[c] \in {"none", "exited"}
  /\ client[c] \in {"dialled", "hungup", "waiting", "killed"} => parsed.kind = "command"
  /\ exit[c] # None <=> client[c] = "exited"
  /\ stage[c] \in Vetted \/ ran[c] # "no" =>
       client[c] \in {"waiting", "killed", "exited"} /\ req[c] = parsed.argv
  /\ stage[c] \in {"audit", "reply"} => out[c] # "none"
  /\ out[c] \in {"executed", "approved-cached"} => status[c] # None
  /\ answer[c] # None =>
       /\ stage[c] \in {"release", "done", "dead"}
       /\ answer[c] = ExitCode(c) /\ out[c] # "none"
  /\ stage[c] \in {"release", "done"} /\ answer[c] = None => ran[c] = "no"
  /\ stage[c] = "dead" => crashes > 0
  /\ client[c] = "exited" =>
       \/ stage[c] = "none" /\ (exit[c] = 0 => parsed = Help) /\ exit[c] \in {0, 125}
       \/ answer[c] # None /\ exit[c] = answer[c]
       \/ exit[c] = 125 /\ stage[c] = "done" /\ ran[c] = "no"
       \/ exit[c] = 125 /\ stage[c] = "dead"
       \/ /\ exit[c] = 101 /\ c \in Fragile
          /\ answer[c] # None \/ stage[c] \in {"none", "done", "dead"}

ClientTyped ==
  /\ client \in [Conn -> {"none", "dialled", "hungup", "waiting", "killed", "exited"}]
  /\ typed \in [Conn -> Line \cup {<<>>}]
  /\ exit \in [Conn -> {None} \cup 0 .. 255]
  /\ answer \in [Conn -> {None} \cup 0 .. 255]
  /\ status \in [Conn -> {None} \cup Status]

CallInv == ClientTyped /\ \A c \in Conn : Called(c)

LEMMA CallInit == EndToEndInit => CallInv
<1> SUFFICES ASSUME EndToEndInit PROVE CallInv
  OBVIOUS
<1>1. ClientTyped
  BY DEF EndToEndInit, ClientTyped
<1>2. ASSUME NEW c \in Conn PROVE Called(c)
  BY DEF EndToEndInit, BrokerInit, Called, Vetted
<1> QED
  BY <1>1, <1>2 DEF CallInv

\* Every step of clients and daemon is a step of the daemon or leaves it alone.
LEMMA EndToEndStepBroker == [EndToEndNext]_allVars => [BrokerNext]_vars
<1> SUFFICES ASSUME [EndToEndNext]_allVars PROVE [BrokerNext]_vars
  OBVIOUS
<1>1. ASSUME NEW c \in Conn, Invoke(c) PROVE Connect(c) \/ UNCHANGED vars
  BY <1>1 DEF Invoke
<1>2. ASSUME NEW c \in Conn, Client(c) \/ Kill(c) PROVE UNCHANGED vars
  BY <1>2 DEF Client, Send, Hear, Kill
<1>3. ASSUME NEW c \in Conn, Serve(c) PROVE Worker(c)
  BY <1>3 DEF Serve, Respond, Worker
<1>4. ASSUME NEW c \in Conn, Await(c) PROVE Awaited(c)
  BY <1>4 DEF Await, Read, Finish, Awaited
<1>5. CASE UNCHANGED allVars
  BY <1>5 DEF allVars
<1> QED
  BY <1>1, <1>2, <1>3, <1>4, <1>5 DEF EndToEndNext, BrokerNext, Listen, Boot

\* With its clients at the other end the daemon is still the daemon: what is
\* proved of module Broker holds of every behaviour of EndToEnd.
THEOREM EndToEndImplementsBroker == EndToEndSpec => BrokerSpec
<1>1. EndToEndInit => BrokerInit
  BY DEF EndToEndInit
<1> QED
  BY <1>1, EndToEndStepBroker, PTL DEF EndToEndSpec, BrokerSpec

\* What is known of a client and its connection stays.
Unheard(c) ==
  /\ client'[c] = client[c] /\ typed'[c] = typed[c] /\ exit'[c] = exit[c]
  /\ answer'[c] = answer[c] /\ status'[c] = status[c]
  /\ req'[c] = req[c] /\ out'[c] = out[c] /\ ran'[c] = ran[c]

LEMMA QuietCall ==
  ASSUME NEW c \in Conn, Called(c), Unheard(c), crashes' = crashes,
         \/ stage'[c] = stage[c]
         \/ stage[c] \in Unread /\ stage'[c] \in Unread
         \/ stage[c] \in Vetted /\ stage'[c] \in Vetted
         \/ stage[c] \in {"audit", "reply"} /\ stage'[c] \in {"audit", "reply"}
         \/ stage[c] = "release" /\ stage'[c] = "done"
  PROVE  Called(c)'
<1>1. ExitCode(c)' = ExitCode(c)
  BY DEF Unheard, ExitCode, Decision
<1> QED
  BY <1>1 DEF Called, Unheard, Unread, Vetted

\* The daemon goes down under it.
LEMMA DeadCall ==
  ASSUME NEW c \in Conn, Called(c), Unheard(c), stage[c] \in Live \cup {"backlog", "accepted"},
         stage'[c] = "dead", crashes' > 0
  PROVE  Called(c)'
<1>1. ExitCode(c)' = ExitCode(c)
  BY DEF Unheard, ExitCode, Decision
<1> QED
  BY <1>1 DEF Called, Unheard, Vetted, Live

\* A step of request c concerns no other.
LEMMA OneCall ==
  ASSUME CallInv, NEW c \in Conn, ClientTyped', crashes' = crashes,
         \A d \in Conn \ {c} : Unheard(d) /\ stage'[d] = stage[d],
         Called(c)'
  PROVE  CallInv'
<1>1. \A d \in Conn \ {c} : Called(d)'
  BY QuietCall DEF CallInv
<1> QED
  BY <1>1 DEF CallInv

\* A step of the daemon in which c moves to another stage of the same kind.
LEMMA QuietMove ==
  ASSUME CallInv, Typed, NEW c \in Conn, NEW from, NEW to, Move(c, from, to),
         UNCHANGED <<clientVars, req, out, ran, crashes>>,
         \/ from \in Unread /\ to \in Unread
         \/ from \in Vetted /\ to \in Vetted
         \/ from \in {"audit", "reply"} /\ to \in {"audit", "reply"}
         \/ from = "release" /\ to = "done"
  PROVE  CallInv'
<1>1. \A d \in Conn : Unheard(d)
  BY DEF Unheard, clientVars
<1>2. stage[c] = from /\ stage'[c] = to /\ \A d \in Conn \ {c} : stage'[d] = stage[d]
  BY DEF Move, Typed
<1>3. Called(c)'
  BY <1>1, <1>2, QuietCall DEF CallInv
<1>4. ClientTyped'
  BY DEF CallInv, ClientTyped, clientVars
<1> QED
  BY <1>1, <1>2, <1>3, <1>4, OneCall

\* A step of the daemon that settles the request of c before anything ran.
LEMMA SettledCall ==
  ASSUME CallInv, LogInv, Typed, NEW c \in Conn, NEW from, NEW o, Settle(c, from, o),
         from \in (Unread \cup Vetted) \ {"running"},
         o \in Early \cup Denials \cup {"approver-error", "execute-error"},
         UNCHANGED <<clientVars, req, ran, crashes>>
  PROVE  CallInv'
<1>1. \A d \in Conn \ {c} : Unheard(d) /\ stage'[d] = stage[d]
  BY DEF Unheard, clientVars, Settle, Move, Typed
<1>2. /\ stage[c] = from /\ stage'[c] \in {"audit", "reply"} /\ out'[c] = o
      /\ ran'[c] = ran[c] /\ req'[c] = req[c]
  BY DEF Settle, Move, Typed
<1>3. ran[c] = "no" /\ o # "none" /\ o \notin {"executed", "approved-cached"}
  BY <1>2 DEF LogInv, Logged, Unsettled, Stage, Live, Unread, Vetted, Early, Denials
<1>4. Called(c)
  BY DEF CallInv
<1>5. answer[c] = None /\ client[c] # "exited"
  BY <1>2, <1>4 DEF Called, Unread, Vetted
<1>6. Called(c)'
  BY <1>2, <1>3, <1>4, <1>5 DEF Called, clientVars, Unread, Vetted
<1>7. ClientTyped'
  BY DEF CallInv, ClientTyped, clientVars
<1> QED
  BY <1>1, <1>6, <1>7, OneCall

LEMMA CallTyped == CallInv => EndToEndTypeOK
<1> SUFFICES ASSUME CallInv PROVE EndToEndTypeOK
  OBVIOUS
<1>1. ASSUME NEW c \in Conn
      PROVE  /\ exit[c] # None <=> client[c] = "exited"
             /\ client[c] = "none" => stage[c] = "none"
             /\ client[c] \in {"dialled", "hungup", "waiting", "killed"} =>
                  stage[c] # "none" /\ ParseArgs(typed[c]).kind = "command"
  BY DEF CallInv, Called
<1> QED
  BY <1>1 DEF CallInv, ClientTyped, EndToEndTypeOK

\* A client is started.
LEMMA InvokeCall ==
  ASSUME CallInv, LogInv, Typed, NEW T, Line \subseteq Seq(T), NEW c \in Conn, Invoke(c)
  PROVE  CallInv'
<1>1. PICK l \in Line :
        /\ typed' = [typed EXCEPT ![c] = l]
        /\ CASE ParseArgs(l) = Help  -> Ends(c, "none", 0) /\ UNCHANGED vars
             [] ParseArgs(l) = Usage -> Ends(c, "none", 125) /\ UNCHANGED vars
             [] OTHER -> \/ Ends(c, "none", 125) /\ UNCHANGED vars
                         \/ /\ Connect(c)
                            /\ client' = [client EXCEPT ![c] = "dialled"]
                            /\ UNCHANGED exit
  BY DEF Invoke
<1>2. /\ client[c] = "none" /\ UNCHANGED <<answer, status>>
      /\ ClientTyped /\ Called(c)
  BY DEF Invoke, CallInv
<1>3. stage[c] = "none" /\ answer[c] = None /\ out[c] = "none" /\ ran[c] = "no" /\ exit[c] = None
  BY <1>2 DEF Called, LogInv, Logged, Unsettled, Stage, Live
<1>4. typed'[c] = l /\ \A d \in Conn \ {c} : typed'[d] = typed[d]
  BY <1>1, <1>2 DEF ClientTyped
<1>5. ASSUME NEW code \in {0, 125}, Ends(c, "none", code), UNCHANGED vars,
             code = 0 => ParseArgs(l) = Help
      PROVE  CallInv'
  <2>e. PICK e \in Codes(c, code) : exit' = [exit EXCEPT ![c] = e]
    BY <1>5 DEF Ends
  <2>k. e \in 0 .. 255 /\ (e = code \/ (e = 101 /\ c \in Fragile))
    BY <2>e DEF Codes
  <2>1. /\ UNCHANGED <<stage, req, out, ran, crashes>>
        /\ client'[c] = "exited" /\ exit'[c] = e
        /\ \A d \in Conn \ {c} : client'[d] = client[d] /\ exit'[d] = exit[d]
    BY <1>2, <1>5, <2>e DEF Ends, vars, brokerVars, workerVars, timeVars, askVars, groundVars, ClientTyped
  <2>2. ClientTyped'
    BY <1>1, <1>2, <1>5, <2>e, <2>k DEF Ends, ClientTyped
  <2>3. \A d \in Conn \ {c} : Unheard(d) /\ stage'[d] = stage[d]
    BY <1>2, <1>4, <2>1 DEF Unheard
  <2>4. Called(c)'
    BY <1>2, <1>3, <1>4, <1>5, <2>k, <2>1 DEF Called, Vetted, None
  <2> QED
    BY <2>1, <2>2, <2>3, <2>4, OneCall
<1>6. ASSUME Connect(c), client' = [client EXCEPT ![c] = "dialled"], UNCHANGED exit,
             ParseArgs(l).kind = "command"
      PROVE  CallInv'
  <2>1. UNCHANGED <<req, out, ran, crashes>>
    BY <1>6 DEF Connect, askVars, groundVars, timeVars
  <2>2. stage'[c] = "backlog" /\ client'[c] = "dialled"
        /\ \A d \in Conn \ {c} : stage'[d] = stage[d] /\ client'[d] = client[d]
    BY <1>2, <1>6 DEF Connect, Move, Typed, ClientTyped
  <2>3. ClientTyped'
    BY <1>1, <1>2, <1>6 DEF ClientTyped
  <2>4. \A d \in Conn \ {c} : Unheard(d) /\ stage'[d] = stage[d]
    BY <1>2, <1>4, <1>6, <2>1, <2>2 DEF Unheard
  <2>5. Called(c)'
    BY <1>2, <1>3, <1>4, <1>6, <2>1, <2>2 DEF Called, Vetted
  <2> QED
    BY <2>1, <2>3, <2>4, <2>5, OneCall
<1>7. ParseArgs(l) = Help \/ ParseArgs(l) = Usage \/ ParseArgs(l).kind = "command"
  BY ParseOutcomes
<1>8. CASE ParseArgs(l) = Help
  <2>1. Ends(c, "none", 0) /\ UNCHANGED vars
    <3>1. ParseArgs(l) # Usage
      BY <1>8 DEF Help, Usage
    <3> QED
      BY <1>1, <1>8, <3>1
  <2> QED
    BY <1>5, <1>8, <2>1
<1>9. CASE ParseArgs(l) # Help /\ (ParseArgs(l) = Usage \/ (Ends(c, "none", 125) /\ UNCHANGED vars))
  <2>1. Ends(c, "none", 125) /\ UNCHANGED vars
    BY <1>1, <1>9
  <2> QED
    BY <1>5, <2>1
<1>10. CASE /\ ParseArgs(l) # Help /\ ParseArgs(l) # Usage
            /\ ~ (Ends(c, "none", 125) /\ UNCHANGED vars)
  <2>1. Connect(c) /\ client' = [client EXCEPT ![c] = "dialled"] /\ UNCHANGED exit
    BY <1>1, <1>10
  <2> QED
    BY <1>6, <1>7, <1>10, <2>1
<1> QED
  BY <1>8, <1>9, <1>10

\* It writes, reads and ends, or is killed.
LEMMA ClientCall ==
  ASSUME CallInv, LogInv, Typed, NEW c \in Conn, Client(c) \/ Kill(c)
  PROVE  CallInv'
<1>1. /\ UNCHANGED <<stage, req, out, ran, crashes, typed, answer, status>>
      /\ ClientTyped /\ Called(c)
  BY DEF Client, Send, Hear, Kill, vars, brokerVars, workerVars, timeVars, askVars,
         groundVars, CallInv
<1>2. ASSUME NEW from \in {"dialled", "waiting"}, NEW to, client[c] = from,
             client' = [client EXCEPT ![c] = to], UNCHANGED exit,
             \/ from = "dialled" /\ to = "waiting"
             \/ from = "dialled" /\ to = "hungup"
             \/ from = "waiting" /\ to = "killed"
      PROVE  CallInv'
  <2>1. client'[c] = to /\ \A d \in Conn \ {c} : client'[d] = client[d]
    BY <1>1, <1>2 DEF ClientTyped
  <2>2. ClientTyped'
    BY <1>1, <1>2 DEF ClientTyped
  <2>3. \A d \in Conn \ {c} : Unheard(d) /\ stage'[d] = stage[d]
    BY <1>1, <1>2, <2>1 DEF Unheard
  <2>4. ExitCode(c)' = ExitCode(c)
    BY <1>1 DEF ExitCode, Decision
  <2>5. Called(c)'
    BY <1>1, <1>2, <2>1, <2>4 DEF Called, Vetted
  <2> QED
    BY <1>1, <2>2, <2>3, <2>5, OneCall
<1>3. ASSUME NEW from \in {"dialled", "waiting"}, NEW code \in 0 .. 255, Ends(c, from, code),
             \/ answer[c] # None /\ code = answer[c]
             \/ code = 125 /\ stage[c] = "done" /\ ran[c] = "no"
             \/ code = 125 /\ stage[c] = "dead"
      PROVE  CallInv'
  <2>e. PICK e \in Codes(c, code) : exit' = [exit EXCEPT ![c] = e]
    BY <1>3 DEF Ends
  <2>k. e \in 0 .. 255 /\ (e = code \/ (e = 101 /\ c \in Fragile))
    BY <2>e DEF Codes
  <2>1. /\ client[c] = from /\ client'[c] = "exited" /\ exit'[c] = e
        /\ \A d \in Conn \ {c} : client'[d] = client[d] /\ exit'[d] = exit[d]
    BY <1>1, <1>3, <2>e DEF Ends, ClientTyped
  <2>2. ClientTyped'
    BY <1>1, <1>3, <2>e, <2>k DEF Ends, ClientTyped
  <2>3. \A d \in Conn \ {c} : Unheard(d) /\ stage'[d] = stage[d]
    BY <1>1, <2>1 DEF Unheard
  <2>4. ExitCode(c)' = ExitCode(c)
    BY <1>1 DEF ExitCode, Decision
  <2>5. Called(c)'
    BY <1>1, <1>3, <2>k, <2>1, <2>4 DEF Called, Vetted, None
  <2> QED
    BY <1>1, <2>2, <2>3, <2>5, OneCall
<1>4. CASE Send(c)
  <2>1. CASE client[c] = "dialled" /\ client' = [client EXCEPT ![c] = "waiting"] /\ UNCHANGED exit
    BY <1>2, <2>1
  <2>2. CASE stage[c] \in {"done", "dead"} /\ Ends(c, "dialled", 125)
    <3>1. client[c] = "dialled"
      BY <2>2 DEF Ends
    <3>2. ran[c] = "no"
      BY <1>1, <3>1 DEF Called, LogInv, Logged
    <3> QED
      BY <1>3, <2>2, <3>2
  <2> QED
    BY <1>4, <2>1, <2>2 DEF Send
<1>5. CASE Hear(c)
  <2>1. CASE answer[c] # None /\ Ends(c, "waiting", answer[c])
    <3>1. answer[c] \in 0 .. 255
      BY <1>1, <2>1 DEF ClientTyped
    <3> QED
      BY <1>3, <2>1, <3>1
  <2>2. CASE answer[c] = None /\ stage[c] \in {"done", "dead"} /\ Ends(c, "waiting", 125)
    <3>1. stage[c] = "done" => ran[c] = "no"
      BY <1>1, <2>2 DEF Called
    <3> QED
      BY <1>3, <2>2, <3>1
  <2> QED
    BY <1>5, <2>1, <2>2 DEF Hear
<1>6. CASE Kill(c)
  BY <1>2, <1>6 DEF Kill
<1> QED
  BY <1>4, <1>5, <1>6 DEF Client

\* The daemon reads the request, and what it reads is what was typed.
LEMMA ReadCall ==
  ASSUME CallInv, LogInv, Typed, NEW c \in Conn, Read(c)
  PROVE  CallInv'
<1>1. UNCHANGED <<clientVars, ran, crashes>> /\ ClientTyped /\ Called(c)
  BY DEF Read, Receive, groundVars, timeVars, CallInv
<1>2. CASE Settle(c, "read", "malformed") /\ UNCHANGED req
  BY <1>1, <1>2, SettledCall DEF Unread, Early
<1>3. CASE Move(c, "read", "vet") /\ (\E a \in Argv : req' = [req EXCEPT ![c] = a]) /\ UNCHANGED out
  <2>1. /\ stage[c] = "read" /\ stage'[c] = "vet" /\ UNCHANGED out
        /\ \A d \in Conn \ {c} : stage'[d] = stage[d] /\ req'[d] = req[d]
    BY <1>3 DEF Move, Typed
  <2>2. client[c] \in {"waiting", "killed"} /\ req'[c] = Submitted(c)
    BY <2>1 DEF Read
  <2>3. \A d \in Conn \ {c} : Unheard(d) /\ stage'[d] = stage[d]
    BY <1>1, <2>1 DEF Unheard, clientVars
  <2>4. ClientTyped'
    BY <1>1 DEF ClientTyped, clientVars
  <2>5. Called(c)'
    BY <1>1, <2>1, <2>2 DEF Called, clientVars, Submitted
  <2> QED
    BY <1>1, <2>3, <2>4, <2>5, OneCall
<1>4. CASE Move(c, "read", "release") /\ UNCHANGED <<req, out>>
  <2>1. /\ stage[c] = "read" /\ stage'[c] = "release"
        /\ \A d \in Conn \ {c} : stage'[d] = stage[d]
    BY <1>4 DEF Move, Typed
  <2>2. client[c] = "hungup" /\ ran[c] = "no"
    BY <2>1 DEF Read, LogInv, Logged, Unsettled, Stage, Live
  <2>3. \A d \in Conn \ {c} : Unheard(d) /\ stage'[d] = stage[d]
    BY <1>1, <1>4, <2>1 DEF Unheard, clientVars
  <2>4. ClientTyped'
    BY <1>1 DEF ClientTyped, clientVars
  <2>5. ExitCode(c)' = ExitCode(c)
    BY <1>1, <1>4 DEF ExitCode, Decision, clientVars
  <2>6. Called(c)'
    BY <1>1, <1>4, <2>1, <2>2, <2>5 DEF Called, clientVars, Vetted
  <2> QED
    BY <1>1, <2>3, <2>4, <2>6, OneCall
<1> QED
  BY <1>2, <1>3, <1>4 DEF Read, Receive

\* The command ends: with a status, unless its output could not be collected.
LEMMA FinishCall ==
  ASSUME CallInv, LogInv, Typed, NEW c \in Conn, Finish(c)
  PROVE  CallInv'
<1>1. /\ UNCHANGED <<client, typed, exit, answer, req, ran, crashes>>
      /\ ClientTyped /\ Called(c)
  BY DEF Finish, Exit, askVars, groundVars, timeVars, CallInv
<1>2. PICK o \in {"approved-cached", "executed", "execute-error"} : Settle(c, "running", o)
  BY DEF Finish, Exit
<1>3. /\ stage[c] = "running" /\ stage'[c] = "audit" /\ out'[c] = o
      /\ \A d \in Conn \ {c} : stage'[d] = stage[d] /\ out'[d] = out[d]
  BY <1>2 DEF Settle, Move, Typed, Early
<1>4. out[c] = "none" /\ answer[c] = None /\ client[c] # "exited"
  BY <1>1, <1>3 DEF Called, LogInv, Logged, Unsettled, Stage, Live
<1>5. /\ ClientTyped' /\ (o # "execute-error" => status'[c] # None)
      /\ \A d \in Conn \ {c} : status'[d] = status[d]
  <2>1. CASE o = "execute-error"
    <3>1. UNCHANGED status
      BY <1>3, <2>1 DEF Finish
    <3> QED
      BY <1>1, <2>1, <3>1 DEF ClientTyped
  <2>2. CASE o # "execute-error"
    <3>1. PICK s \in Status : status' = [status EXCEPT ![c] = s]
      BY <1>3, <2>2 DEF Finish
    <3>2. s # None
      BY EndToEndAssumption DEF None
    <3> QED
      BY <1>1, <3>1, <3>2 DEF ClientTyped
  <2> QED
    BY <2>1, <2>2
<1>6. \A d \in Conn \ {c} : Unheard(d) /\ stage'[d] = stage[d]
  BY <1>1, <1>3, <1>5 DEF Unheard
<1>7. Called(c)'
  BY <1>1, <1>3, <1>4, <1>5 DEF Called, Vetted
<1> QED
  BY <1>1, <1>5, <1>6, <1>7, OneCall

\* The response is written, once the fate of the request is settled.
LEMMA RespondCall ==
  ASSUME CallInv, LogInv, Typed, NEW c \in Conn, Respond(c)
  PROVE  CallInv'
<1>1. /\ UNCHANGED <<client, typed, exit, status, req, out, ran, crashes>>
      /\ answer' = [answer EXCEPT ![c] = ExitCode(c)]
      /\ ClientTyped /\ Called(c)
  BY DEF Respond, Reply, askVars, groundVars, timeVars, CallInv
<1>2. /\ stage[c] = "reply" /\ stage'[c] = "release"
      /\ \A d \in Conn \ {c} : stage'[d] = stage[d]
  BY DEF Respond, Reply, Move, Typed
<1>3. answer[c] = None /\ out[c] # "none" /\ client[c] # "exited"
  BY <1>1, <1>2 DEF Called
<1>4. ExitCode(c) \in 0 .. 255
  <2>1. status[c] \in Int
    <3>1. \A s \in Status : s \in Int
      BY EndToEndAssumption
    <3>2. None \in Int
      BY DEF None
    <3> QED
      BY <1>1, <3>1, <3>2 DEF ClientTyped
  <2>2. status[c] % 256 \in 0 .. 255
    BY <2>1
  <2>3. Decision(c) \in {"approved", "denied", "error"}
    BY DEF Decision
  <2> QED
    BY <2>2, <2>3 DEF ExitCode
<1>5. answer'[c] = ExitCode(c) /\ \A d \in Conn \ {c} : answer'[d] = answer[d]
  BY <1>1 DEF ClientTyped
<1>6. ClientTyped'
  BY <1>1, <1>4 DEF ClientTyped
<1>7. \A d \in Conn \ {c} : Unheard(d) /\ stage'[d] = stage[d]
  BY <1>1, <1>2, <1>5 DEF Unheard
<1>8. ExitCode(c)' = ExitCode(c)
  BY <1>1 DEF ExitCode, Decision
<1>9. ExitCode(c) # None
  BY <1>4 DEF None
<1>10. Called(c)'
  BY <1>1, <1>2, <1>3, <1>5, <1>8, <1>9 DEF Called, Vetted
<1> QED
  BY <1>1, <1>6, <1>7, <1>10, OneCall

\* The daemon works on the request, between reading it and answering it.
LEMMA ServeCall ==
  ASSUME CallInv, LogInv, Typed, NEW c \in Conn,
         \/ stage[c] # "reply" /\ Worker(c)
         \/ Answer(c) \/ NoAgent(c) \/ Accept(c) \/ Dispatch(c),
         UNCHANGED clientVars
  PROVE  CallInv'
<1>1. ClientTyped /\ Called(c)
  BY DEF CallInv
<1>2. ASSUME UNCHANGED <<stage, req, out, ran, crashes>> PROVE CallInv'
  <2>1. \A d \in Conn : Unheard(d) /\ stage'[d] = stage[d]
    BY <1>2 DEF Unheard, clientVars
  <2>2. \A d \in Conn : Called(d)'
    BY <1>2, <2>1, QuietCall DEF CallInv
  <2> QED
    BY <1>1, <2>2 DEF CallInv, ClientTyped, clientVars
<1>3. CASE WorkerReload(c)
  BY <1>2, <1>3 DEF WorkerReload, workerVars, askVars, groundVars, timeVars
<1>4. CASE TurnAway(c)
  <2>1. UNCHANGED <<clientVars, req, ran, crashes>>
    BY <1>4 DEF TurnAway, askVars, groundVars, timeVars
  <2>2. PICK o \in Early : Settle(c, "worker", o)
    BY <1>4 DEF TurnAway, Early
  <2> QED
    BY <2>1, <2>2, SettledCall DEF Unread
<1>5. CASE Authorise(c) \/ Accept(c) \/ Dispatch(c)
  <2>1. UNCHANGED <<clientVars, req, out, ran, crashes>>
    BY <1>5 DEF Authorise, Accept, Dispatch, askVars, groundVars, timeVars
  <2>2. PICK from \in Unread, to \in Unread : Move(c, from, to)
    BY <1>5 DEF Authorise, Accept, Dispatch, Unread
  <2> QED
    BY <2>1, <2>2, QuietMove
<1>6. CASE Vet(c)
  <2>1. UNCHANGED <<clientVars, req, ran, crashes>>
    BY <1>6 DEF Vet, groundVars, timeVars
  <2>2. CASE \E o \in Denials : Settle(c, "vet", o)
    BY <2>1, <2>2, SettledCall DEF Vetted
  <2>3. CASE Move(c, "vet", "rate") /\ UNCHANGED out
    BY <2>1, <2>3, QuietMove DEF Vetted
  <2> QED
    BY <1>6, <2>2, <2>3 DEF Vet, MoveTimed, Denials
<1>7. CASE CheckRate(c)
  <2>1. UNCHANGED <<clientVars, req, ran, crashes>>
    BY <1>7 DEF CheckRate, askVars, groundVars, timeVars
  <2>2. CASE Settle(c, "rate", "denied-rate")
    BY <2>1, <2>2, SettledCall DEF Vetted, Denials
  <2>3. CASE Move(c, "rate", "cache") /\ UNCHANGED out
    BY <2>1, <2>3, QuietMove DEF Vetted
  <2> QED
    BY <1>7, <2>2, <2>3 DEF CheckRate, MoveTimed
<1>8. CASE CheckCache(c) \/ NoteHit(c) \/ Ask(c) \/ NoteApproval(c)
  <2>1. UNCHANGED <<clientVars, req, out, ran, crashes>>
    BY <1>8 DEF CheckCache, NoteHit, Ask, NoteApproval, askVars, groundVars, timeVars
  <2>2. PICK from \in Vetted, to \in Vetted : Move(c, from, to)
    BY <1>8 DEF CheckCache, NoteHit, Ask, NoteApproval, Vetted, MoveTimed
  <2> QED
    BY <2>1, <2>2, QuietMove
<1>9. CASE Start(c)
  <2>1. UNCHANGED <<clientVars, req, crashes>>
    BY <1>9 DEF Start, askVars, timeVars
  <2>2. CASE Settle(c, "run", "execute-error") /\ UNCHANGED ran
    BY <2>1, <2>2, SettledCall DEF Vetted
  <2>3. CASE Move(c, "run", "running") /\ UNCHANGED out /\ ran' = [ran EXCEPT ![c] = Ground(c)]
    <3>1. /\ stage[c] = "run" /\ stage'[c] = "running"
          /\ \A d \in Conn \ {c} : stage'[d] = stage[d] /\ ran'[d] = ran[d]
      BY <2>3 DEF Move, Typed
    <3>2. \A d \in Conn \ {c} : Unheard(d) /\ stage'[d] = stage[d]
      BY <2>1, <2>3, <3>1 DEF Unheard, clientVars
    <3>3. ClientTyped'
      BY <1>1, <2>1 DEF ClientTyped, clientVars
    <3>4. Called(c)'
      BY <1>1, <2>1, <2>3, <3>1 DEF Called, clientVars, Vetted
    <3> QED
      BY <2>1, <3>2, <3>3, <3>4, OneCall
  <2> QED
    BY <1>9, <2>2, <2>3 DEF Start
<1>10. CASE WriteAudit(c) \/ Release(c)
  <2>1. UNCHANGED <<clientVars, req, out, ran, crashes>>
    BY <1>10 DEF WriteAudit, Release, askVars, groundVars, timeVars
  <2>2. Move(c, "audit", "reply") \/ Move(c, "release", "done")
    BY <1>10 DEF WriteAudit, Release
  <2> QED
    BY <2>1, <2>2, QuietMove
<1>11. CASE Answer(c)
  <2>1. UNCHANGED <<clientVars, req, ran, crashes>>
    BY <1>11 DEF Answer, askVars, timeVars
  <2>2. CASE \E o \in {"denied-user", "approver-error"} : Settle(c, "dialog", o)
    BY <2>1, <2>2, SettledCall DEF Vetted, Denials
  <2>3. CASE Move(c, "dialog", "record") /\ UNCHANGED out
    BY <2>1, <2>3, QuietMove DEF Vetted
  <2> QED
    BY <1>11, <2>2, <2>3 DEF Answer, MoveTimed
<1>12. CASE NoAgent(c)
  <2>1. UNCHANGED <<clientVars, req, ran, crashes>>
    BY <1>12 DEF NoAgent, askVars, groundVars, timeVars
  <2> QED
    BY <1>12, <2>1, SettledCall DEF NoAgent, Vetted
<1>13. CASE stage[c] # "reply" /\ Reply(c)
  BY <1>13 DEF Reply, Move
<1> QED
  BY <1>3, <1>4, <1>5, <1>6, <1>7, <1>8, <1>9, <1>10, <1>11, <1>12, <1>13 DEF Worker

\* Every step of clients and daemon keeps them in agreement.
LEMMA CallStep ==
  ASSUME NEW T, Line \subseteq Seq(T)
  PROVE  PoolInv /\ LogInv /\ CallInv /\ [EndToEndNext]_allVars => CallInv'
<1> SUFFICES ASSUME PoolInv, LogInv, CallInv, [EndToEndNext]_allVars PROVE CallInv'
  OBVIOUS
<1>1. Typed
  BY DEF PoolInv, BrokerTypeOK
<1>2. ASSUME NEW c \in Conn, Invoke(c) PROVE CallInv'
  BY <1>1, <1>2, InvokeCall
<1>3. ASSUME NEW c \in Conn, Client(c) \/ Kill(c) PROVE CallInv'
  BY <1>1, <1>3, ClientCall
<1>4. ASSUME NEW c \in Conn, Serve(c) PROVE CallInv'
  BY <1>1, <1>4, RespondCall, ServeCall DEF Serve
<1>5. ASSUME NEW c \in Conn, Await(c) PROVE CallInv'
  BY <1>1, <1>5, ReadCall, FinishCall, ServeCall DEF Await
<1>6. ASSUME NEW c \in Conn, NoAgent(c), UNCHANGED clientVars PROVE CallInv'
  BY <1>1, <1>6, ServeCall
<1>7. CASE Listen
  BY <1>1, <1>7, ServeCall DEF Listen, AcceptLoop
<1>8. CASE BrokerCrash /\ UNCHANGED clientVars
  <2>1. /\ UNCHANGED <<req, out, ran>> /\ crashes' > 0
        /\ \A d \in Conn : stage'[d] = IF d \in Dropped
                                       THEN "dead" ELSE stage[d]
    BY <1>1, <1>8 DEF BrokerCrash, askVars, groundVars, Typed
  <2>2. \A d \in Conn : Unheard(d)
    BY <1>8, <2>1 DEF Unheard, clientVars
  <2>3. ASSUME NEW d \in Conn PROVE Called(d)'
    <3>1. CASE d \in Dropped
      <4>1. stage[d] \in Live \cup {"backlog", "accepted"}
        BY <3>1 DEF Dropped, Workers
      <4> QED
        BY <2>1, <2>2, <3>1, <4>1, DeadCall DEF CallInv
    <3>2. CASE d \notin Dropped
      <4>1. stage'[d] = stage[d] /\ ExitCode(d)' = ExitCode(d)
        BY <2>1, <2>2, <3>2 DEF Unheard, ExitCode, Decision
      <4> QED
        BY <2>1, <2>2, <4>1 DEF CallInv, Called, Unheard
    <3> QED
      BY <3>1, <3>2
  <2> QED
    BY <1>8, <2>3 DEF CallInv, ClientTyped, clientVars
<1>9. ASSUME UNCHANGED <<clientVars, stage, req, out, ran, crashes>> PROVE CallInv'
  <2>1. \A d \in Conn : Called(d)'
    BY <1>9, QuietCall DEF CallInv, Unheard, clientVars
  <2> QED
    BY <1>9, <2>1 DEF CallInv, ClientTyped, clientVars
<1>10. CASE Boot
  BY <1>9, <1>10 DEF Boot, Startup, brokerVars, workerVars, timeVars, askVars, groundVars
<1>11. CASE (Tick \/ EditFile) /\ UNCHANGED clientVars
  BY <1>9, <1>11 DEF Tick, EditFile, brokerVars, workerVars, timeVars, askVars, groundVars
<1>12. CASE UNCHANGED allVars
  BY <1>9, <1>12 DEF allVars, vars, brokerVars, workerVars, timeVars, askVars, groundVars
<1> QED
  BY <1>2, <1>3, <1>4, <1>5, <1>6, <1>7, <1>8, <1>10, <1>11, <1>12 DEF EndToEndNext

\* Clients have the types the module gives them, and one that is in contact
\* with the daemon has a connection and a command; its line is any list of
\* tokens (sudix.rs:48-160).
THEOREM EndToEndSafe ==
  ASSUME NEW T, Line \subseteq Seq(T)
  PROVE  EndToEndSpec => []EndToEndTypeOK
<1>1. EndToEndInit => BrokerInit
  BY DEF EndToEndInit
<1> QED
  BY <1>1, EndToEndStepBroker, PoolInit, PoolStep, LogInit, LogStep, CallInit, CallStep,
     CallTyped, PTL DEF EndToEndSpec

\* The exit code can be relied on as the module says, for any number of callers,
\* lines, statuses, reloads and crashes (sudix.rs:128-158, server.rs:242-318).
THEOREM EndToEndExitTruthful ==
  ASSUME NEW T, Line \subseteq Seq(T)
  PROVE  EndToEndSpec => []ExitTruthful
<1>1. PoolInv /\ LogInv /\ CallInv => ExitTruthful
  <2> SUFFICES ASSUME PoolInv, LogInv, CallInv, NEW c \in Conn, client[c] = "exited",
                      NEW p, p = ParseArgs(typed[c])
               PROVE  LET own == /\ ran[c] # "no" /\ req[c] = p.argv
                                 /\ status[c] # None /\ exit[c] = status[c] % 256
                      IN  /\ exit[c] = 0 => p = Help \/ own
                          /\ exit[c] \notin {0, 101, 125, 126} => own
                          /\ exit[c] = 101 => own \/ c \in Fragile
                          /\ exit[c] = 126 =>
                               own \/ out[c] \notin {"none", "executed", "approved-cached"}
                          /\ exit[c] = 125 /\ ran[c] # "no" => own \/ crashes > 0
                          /\ ran[c] # "no" /\ stage[c] = "done"
                             /\ out[c] # "execute-error" =>
                               own \/ (exit[c] = 101 /\ c \in Fragile)
    BY DEF ExitTruthful
  <2>1. Called(c) /\ Logged(c) /\ Typed
    BY DEF CallInv, LogInv, PoolInv, BrokerTypeOK
  <2>2. CASE stage[c] = "none" /\ (exit[c] = 0 => p = Help) /\ exit[c] \in {0, 125}
    <3>1. ran[c] = "no"
      BY <2>1, <2>2 DEF Logged, Unsettled, Stage, Live
    <3> QED
      BY <2>2, <3>1
  <2>3. CASE answer[c] # None /\ exit[c] = answer[c]
    <3>1. exit[c] = ExitCode(c) /\ out[c] # "none"
      BY <2>1, <2>3 DEF Called
    <3>2. CASE out[c] \in {"executed", "approved-cached"}
      <4>1. ran[c] # "no" /\ status[c] # None
        BY <2>1, <3>2 DEF Logged, Called
      <4>2. req[c] = p.argv
        BY <2>1, <4>1 DEF Called
      <4>3. exit[c] = status[c] % 256
        BY <3>1, <3>2 DEF ExitCode, Decision
      <4> QED
        BY <4>1, <4>2, <4>3
    <3>3. CASE out[c] \notin {"executed", "approved-cached"}
      <4>1. exit[c] = IF out[c] \in {"reload-error", "approver-error"} THEN 125 ELSE 126
        BY <3>1, <3>3 DEF ExitCode, Decision
      <4>2. ran[c] # "no" => out[c] = "execute-error"
        BY <2>1, <3>1, <3>3 DEF Logged, Typed, Outcome, Early
      <4> QED
        BY <3>1, <3>3, <4>1, <4>2
    <3> QED
      BY <3>2, <3>3
  <2>4. CASE exit[c] = 125 /\ stage[c] = "done" /\ ran[c] = "no"
    BY <2>4
  <2>5. CASE exit[c] = 125 /\ stage[c] = "dead"
    <3>1. crashes > 0
      BY <2>1, <2>5 DEF Called
    <3> QED
      BY <2>5, <3>1
  <2>6. CASE exit[c] = 101 /\ c \in Fragile
    BY <2>6
  <2> QED
    BY <2>1, <2>2, <2>3, <2>4, <2>5, <2>6 DEF Called
<1>2. EndToEndInit => BrokerInit
  BY DEF EndToEndInit
<1> QED
  BY <1>1, <1>2, EndToEndStepBroker, PoolInit, PoolStep, LogInit, LogStep, CallInit,
     CallStep, PTL DEF EndToEndSpec

=============================================================================
