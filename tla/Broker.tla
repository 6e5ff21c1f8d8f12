------------------------------- MODULE Broker -------------------------------
(***************************************************************************)
(* The daemon: connections wait in the socket's backlog, an accept loop    *)
(* gives each one of MaxConcurrent slots and a worker thread, and the      *)
(* worker takes its request through the pipeline of handle_request         *)
(* (server.rs): policy, rate limit, cache, human approval, execution,      *)
(* audit, answer.                                                          *)
(*                                                                         *)
(* The reload every worker starts with is module Reload, whose variables   *)
(* this module shares; the approval state is that of module Scoping.  A    *)
(* policy is what its file content evaluates to: who may ask, which rule   *)
(* admits a command, and the knobs of that rule.  The human, the clients,  *)
(* the commands and the file are the environment.                          *)
(***************************************************************************)
EXTENDS Reload, Scoping

CONSTANTS
  MaxConcurrent,   \* server.rs:MAX_CONCURRENT
  Uid,             \* the kernel-vouched uid behind each connection
  AgentUids,       \* content -> the uids that may submit requests
  Verdict,         \* content -> argv -> the rule index, or NoRule
  Scopes,          \* content -> rule index -> its scope
  NoRule,
  EmptyArgv,       \* a request that names no command
  SocketActivated, \* the socket is systemd's, or the daemon binds it itself
  MaxTime,         \* bound on the clock
  MaxCrashes       \* bound on the crashes of the daemon

ASSUME BrokerAssumption ==
  /\ MaxConcurrent \in Nat \ {0}
  /\ NoRule \notin Rules
  /\ EmptyArgv \in Argv
  /\ SocketActivated \in BOOLEAN
  /\ Verdict \in [Contents -> [Argv -> Rules \cup {NoRule}]]
  /\ \A k \in Contents : Verdict[k][EmptyArgv] = NoRule
  /\ Scopes \in [Contents -> [Rules -> Scope]]
  /\ MaxTime \in Nat
  /\ MaxCrashes \in Nat

VARIABLES
  stage,      \* how far each connection is
  backlog,    \* the connections the kernel queues on the socket
  slots,      \* the counting semaphore of the accept loop
  approvals,  \* the ApprovalState mutex's content
  gate,       \* who holds the approval mutex
  req,        \* the argv each connection asked to run
  rule,       \* the rule that admitted it
  since,      \* when each worker began the step in which it reads the clock
  out,        \* what each request came to: an audit outcome or an early answer
  clock,      \* the monotonic clock, in seconds
  crashes,    \* how often the daemon went down
  \* History variables: what really happened, whatever the daemon remembers.
  ver,        \* the version of the file each request was decided by
  human,      \* the human's answer to each request
  seen,       \* the instant each cache hit was found at
  noted,      \* the instant each execution was recorded under
  counted,    \* the executions recorded since the approval state was reset
  ran,        \* whether each command was started, and on which ground
  audit       \* the fate of each request's audit record

askVars    == <<req, rule>>
groundVars == <<human, seen, noted, ran>>
workerVars == <<stage, askVars, since, out, ver, groundVars, audit>>
sharedVars == <<backlog, slots, approvals, gate, counted>>
timeVars   == <<clock, crashes>>
brokerVars == <<workerVars, sharedVars, timeVars>>
vars       == <<reloadVars, brokerVars>>

Early   == {"reload-error", "unauthorised", "malformed"}
Denials == {"denied-empty", "denied-reason", "denied-policy", "denied-cwd",
            "denied-rate", "denied-user"}
Outcome == Denials \cup {"executed", "approved-cached", "execute-error",
                         "approver-error"}

\* The stages at which a worker thread holds a slot.
Live == {"worker", "read", "vet", "rate", "cache", "hit", "approve", "dialog",
         "record", "run", "running", "audit", "reply", "release"}
Stage == {"none", "backlog", "accepted", "done", "dead"} \cup Live

Workers   == {c \in Conn : stage[c] \in Live}
ScopeOf(c) == Scopes[history[ver[c]]][rule[c]]

BrokerInit ==
  /\ ReloadInit
  /\ stage = [c \in Conn |-> "none"]
  /\ backlog = <<>> /\ slots = 0 /\ approvals = EmptyState /\ gate = NoConn
  /\ req = [c \in Conn |-> EmptyArgv]
  /\ rule = [c \in Conn |-> NoRule]
  /\ since = [c \in Conn |-> 0]
  /\ out = [c \in Conn |-> "none"]
  /\ clock = 0 /\ crashes = 0
  /\ ver = [c \in Conn |-> 0]
  /\ human = [c \in Conn |-> "none"]
  /\ seen = [c \in Conn |-> Never]
  /\ noted = [c \in Conn |-> Never]
  /\ counted = {}
  /\ ran = [c \in Conn |-> "no"]
  /\ audit = [c \in Conn |-> "none"]

-----------------------------------------------------------------------------
(* Steps of the parts that workers share. *)

Move(c, from, to) == stage[c] = from /\ stage' = [stage EXCEPT ![c] = to]

\* A stage that begins by reading the clock, before it takes the state mutex.
MoveTimed(c, from, to) ==
  /\ Move(c, from, to)
  /\ since' = [since EXCEPT ![c] = clock]

\* The Instant::now() of a step lies between its beginning and its lock.
Instants(c) == since[c] .. clock

\* A client connects and the kernel queues it: at any time on systemd's socket,
\* on the daemon's own while there is a daemon.
Connect(c) ==
  /\ SocketActivated \/ daemon = "up"
  /\ Move(c, "none", "backlog")
  /\ backlog' = Append(backlog, c)
  /\ UNCHANGED <<reloadVars, askVars, since, out, ver, groundVars, audit,
                 slots, approvals, gate, counted, timeVars>>

\* The accept loop takes the next connection and waits for a slot with it.
Accept(c) ==
  /\ daemon = "up"
  /\ backlog # <<>> /\ c = Head(backlog)
  /\ \A d \in Conn : stage[d] # "accepted"
  /\ Move(c, "backlog", "accepted")
  /\ backlog' = Tail(backlog)
  /\ UNCHANGED <<reloadVars, askVars, since, out, ver, groundVars, audit,
                 slots, approvals, gate, counted, timeVars>>

\* A slot is free: count it, spawn the worker.
Dispatch(c) ==
  /\ Move(c, "accepted", "worker")
  /\ slots < MaxConcurrent
  /\ slots' = slots + 1
  /\ Begin(c)
  /\ UNCHANGED <<askVars, since, out, ver, groundVars, audit, backlog,
                 approvals, gate, counted, timeVars>>

\* The reload.  Publishing the new hash comes with a fresh ApprovalState.
WorkerReload(c) ==
  /\ \/ /\ \/ ReadHash(c) \/ HashFails(c) \/ FastPath(c) \/ TakeLock(c)
           \/ Load(c) \/ LoadFails(c) \/ Swap(c) \/ Snapshot(c)
        /\ UNCHANGED <<approvals, counted>>
     \/ /\ Publish(c)
        /\ approvals' = EmptyState
        /\ counted' = {}
  /\ UNCHANGED <<workerVars, backlog, slots, gate, timeVars>>

-----------------------------------------------------------------------------
(* The pipeline. *)

\* The request ends with outcome o, which is written to the audit log; an
\* early answer is not.
Settle(c, from, o) ==
  /\ Move(c, from, IF o \in Early THEN "reply" ELSE "audit")
  /\ out' = [out EXCEPT ![c] = o]

\* maybe_reload failed, or the peer is not among the agent_uids.
TurnAway(c) ==
  /\ \/ pc[c] = "refused" /\ Settle(c, "worker", "reload-error") /\ UNCHANGED ver
     \/ /\ pc[c] = "serve"
        /\ Uid[c] \notin AgentUids[history[bundle[c]]]
        /\ Settle(c, "worker", "unauthorised")
        /\ ver' = [ver EXCEPT ![c] = bundle[c]]
  /\ UNCHANGED <<reloadVars, askVars, since, groundVars, audit,
                 sharedVars, timeVars>>

\* Mutant of Authorise: the uid is not looked at.
Authorise_Anyone(c) ==
  /\ pc[c] = "serve"
  /\ Move(c, "worker", "read")
  /\ ver' = [ver EXCEPT ![c] = bundle[c]]
  /\ UNCHANGED <<reloadVars, askVars, since, out, groundVars, audit,
                 sharedVars, timeVars>>

\* Mutant of Authorise: the policy is read again when the request is decided.
Authorise_Rereads(c) ==
  /\ pc[c] = "serve"
  /\ Uid[c] \in AgentUids[history[current]]
  /\ Move(c, "worker", "read")
  /\ ver' = [ver EXCEPT ![c] = current]
  /\ bundle' = [bundle EXCEPT ![c] = current]
  /\ UNCHANGED <<history, daemon, current, last, owner, pc, hashed,
                 askVars, since, out, groundVars, audit, sharedVars, timeVars>>

\* The peer's uid is among the agent_uids of the worker's snapshot.
Authorise(c) ==
  /\ pc[c] = "serve"
  /\ Uid[c] \in AgentUids[history[bundle[c]]]
  /\ Move(c, "worker", "read")
  /\ ver' = [ver EXCEPT ![c] = bundle[c]]
  /\ UNCHANGED <<reloadVars, askVars, since, out, groundVars, audit,
                 sharedVars, timeVars>>

\* The one line a client sends: a command, garbage or too long a line, or
\* nothing before it hangs up.
Receive(c) ==
  /\ \/ /\ Move(c, "read", "vet")
        /\ \E a \in Argv : req' = [req EXCEPT ![c] = a]
        /\ UNCHANGED out
     \/ Settle(c, "read", "malformed") /\ UNCHANGED req
     \/ Move(c, "read", "release") /\ UNCHANGED <<req, out>>
  /\ UNCHANGED <<reloadVars, rule, since, ver, groundVars, audit,
                 sharedVars, timeVars>>

\* Mutant of Vet: a refusal does not return early.
Vet_NoEarlyReturn(c) ==
  /\ MoveTimed(c, "vet", "rate")
  /\ rule' = [rule EXCEPT ![c] = Verdict[history[ver[c]]][req[c]]]
  /\ UNCHANGED <<reloadVars, req, out, ver, groundVars, audit, sharedVars,
                 timeVars>>

\* handle_request up to the working directory.  Whether the reason is too long
\* and whether the directory exists are the client's and the system's choice.
Vet(c) ==
  LET admitted == Verdict[history[ver[c]]][req[c]] IN
  /\ stage[c] = "vet"
  /\ \/ /\ \/ req[c] = EmptyArgv /\ Settle(c, "vet", "denied-empty")
           \/ req[c] # EmptyArgv /\ Settle(c, "vet", "denied-reason")
           \/ /\ req[c] # EmptyArgv /\ admitted = NoRule
              /\ Settle(c, "vet", "denied-policy")
           \/ admitted # NoRule /\ Settle(c, "vet", "denied-cwd")
        /\ UNCHANGED <<rule, since>>
     \/ /\ admitted # NoRule
        /\ MoveTimed(c, "vet", "rate")
        /\ rule' = [rule EXCEPT ![c] = admitted]
        /\ UNCHANGED out
  /\ UNCHANGED <<reloadVars, req, ver, groundVars, audit, sharedVars,
                 timeVars>>

\* is_rate_limited: prunes the window either way.
CheckRate(c) ==
  /\ stage[c] = "rate"
  /\ \E now \in Instants(c) :
       /\ approvals' = PruneRate(approvals, ScopeOf(c), rule[c], now)
       /\ IF RateLimited(approvals, ScopeOf(c), rule[c], now)
          THEN Settle(c, "rate", "denied-rate") /\ UNCHANGED since
          ELSE MoveTimed(c, "rate", "cache") /\ UNCHANGED out
  /\ UNCHANGED <<reloadVars, askVars, ver, groundVars, audit, backlog,
                 slots, gate, counted, timeVars>>

\* check_cache.
CheckCache(c) ==
  /\ stage[c] = "cache"
  /\ \E now \in Instants(c) :
       IF CacheFresh(approvals, ScopeOf(c), rule[c], req[c], now)
       THEN /\ MoveTimed(c, "cache", "hit")
            /\ seen' = [seen EXCEPT ![c] = now]
       ELSE MoveTimed(c, "cache", "approve") /\ UNCHANGED seen
  /\ UNCHANGED <<reloadVars, askVars, out, ver, human, noted, ran, audit,
                 sharedVars, timeVars>>

\* An execution goes into the window (and, with a human's approval, into the
\* cache); the history variables remember it.
Note(c, now) ==
  /\ noted' = [noted EXCEPT ![c] = now]
  /\ counted' = counted \cup {c}

\* record_cache_hit.
NoteHit(c) ==
  /\ stage[c] = "hit"
  /\ \E now \in Instants(c) :
       /\ approvals' = RecordCacheHit(approvals, ScopeOf(c), rule[c], req[c], now)
       /\ Note(c, now)
  /\ Move(c, "hit", "run")
  /\ UNCHANGED <<reloadVars, askVars, since, out, ver, human, seen, ran,
                 audit, backlog, slots, gate, timeVars>>

\* approve() is entered and its gate taken, by one request at a time.  What the
\* human sees meanwhile, dialogs of earlier requests included, is the matter of
\* module AgentChannel.
Ask(c) ==
  /\ gate = NoConn
  /\ Move(c, "approve", "dialog")
  /\ gate' = c
  /\ UNCHANGED <<reloadVars, askVars, since, out, ver, groundVars, audit,
                 backlog, slots, approvals, counted, timeVars>>

\* No agent is connected: the human cannot be asked.
NoAgent(c) ==
  /\ Settle(c, "approve", "approver-error")
  /\ UNCHANGED <<reloadVars, askVars, since, ver, groundVars, audit,
                 sharedVars, timeVars>>

\* Mutant of Answer: an approver that fails stops nothing.
Answer_FailsOpen(c) ==
  /\ gate' = NoConn
  /\ MoveTimed(c, "dialog", "record")
  /\ UNCHANGED <<reloadVars, askVars, out, ver, groundVars, audit, backlog,
                 slots, approvals, counted, timeVars>>

\* approve() returns: an approval, a refusal, or an error.  human[c] is what it
\* returned, which need not be what a human said of this very request: that the
\* answer to an earlier prompt can be returned is shown in AgentChannel.
Answer(c) ==
  /\ gate' = NoConn
  /\ \/ /\ MoveTimed(c, "dialog", "record") /\ UNCHANGED out
        /\ human' = [human EXCEPT ![c] = "allow"]
     \/ /\ Settle(c, "dialog", "denied-user") /\ UNCHANGED since
        /\ human' = [human EXCEPT ![c] = "deny"]
     \/ Settle(c, "dialog", "approver-error") /\ UNCHANGED <<since, human>>
  /\ UNCHANGED <<reloadVars, askVars, ver, seen, noted, ran, audit,
                 backlog, slots, approvals, counted, timeVars>>

\* record_approval.
NoteApproval(c) ==
  /\ stage[c] = "record"
  /\ \E now \in Instants(c) :
       /\ approvals' = RecordApproval(approvals, ScopeOf(c), rule[c], req[c], now)
       /\ Note(c, now)
  /\ Move(c, "record", "run")
  /\ UNCHANGED <<reloadVars, askVars, since, out, ver, human, seen, ran,
                 audit, backlog, slots, gate, timeVars>>

-----------------------------------------------------------------------------
(* Execution, audit, answer. *)

\* The ground a command runs on: what approve() returned for this request, or
\* an earlier approval found in the cache.
Ground(c) == IF human[c] = "allow" THEN "human" ELSE "cached"

\* execute: the child is started, or cannot be.
Start(c) ==
  /\ \/ /\ Move(c, "run", "running") /\ UNCHANGED out
        /\ ran' = [ran EXCEPT ![c] = Ground(c)]
     \/ Settle(c, "run", "execute-error") /\ UNCHANGED ran
  /\ UNCHANGED <<reloadVars, askVars, since, ver, human, seen, noted,
                 audit, sharedVars, timeVars>>

\* Mutant of Exit: a cached execution is logged as an approved one.
Exit_OneOutcome(c) ==
  /\ Settle(c, "running", "executed")
  /\ UNCHANGED <<reloadVars, askVars, since, ver, groundVars, audit,
                 sharedVars, timeVars>>

\* The child has exited, or its output could not be collected.
Exit(c) ==
  /\ \/ Settle(c, "running",
               IF ran[c] = "cached" THEN "approved-cached" ELSE "executed")
     \/ Settle(c, "running", "execute-error")
  /\ UNCHANGED <<reloadVars, askVars, since, ver, groundVars, audit,
                 sharedVars, timeVars>>

\* audit_best_effort: a record that cannot be written is lost.
WriteAudit(c) ==
  /\ Move(c, "audit", "reply")
  /\ \E fate \in {"written", "lost"} : audit' = [audit EXCEPT ![c] = fate]
  /\ UNCHANGED <<reloadVars, askVars, since, out, ver, groundVars,
                 sharedVars, timeVars>>

\* write_response.  A client that hung up makes no difference; one that stays
\* and reads nothing can hold write_all, and the slot, for ever: the model leaves
\* that out, as do the clients of module EndToEnd, which read or are killed.
Reply(c) ==
  /\ Move(c, "reply", "release")
  /\ UNCHANGED <<reloadVars, askVars, since, out, ver, groundVars, audit,
                 sharedVars, timeVars>>

\* Mutant of Release: the slot of a client that hung up is not given back.
Release_Leaks(c) ==
  /\ Move(c, "release", "done")
  /\ slots' = IF out[c] = "none" THEN slots ELSE slots - 1
  /\ End(c)
  /\ UNCHANGED <<askVars, since, out, ver, groundVars, audit, backlog,
                 approvals, gate, counted, timeVars>>

\* The worker ends and gives its slot back.
Release(c) ==
  /\ Move(c, "release", "done")
  /\ slots' = slots - 1
  /\ End(c)
  /\ UNCHANGED <<askVars, since, out, ver, groundVars, audit, backlog,
                 approvals, gate, counted, timeVars>>

-----------------------------------------------------------------------------
(* The environment of the workers. *)

Tick ==
  /\ clock < MaxTime
  /\ clock' = clock + 1
  /\ UNCHANGED <<reloadVars, workerVars, sharedVars, crashes>>

EditFile ==
  /\ \E k \in Contents : Edit(k)
  /\ UNCHANGED brokerVars

Startup ==
  /\ StartLoad \/ StartHash
  /\ UNCHANGED brokerVars

\* The connections that end with the daemon.
Dropped ==
  Workers \cup {c \in Conn : stage[c] = "accepted" \/ (stage[c] = "backlog" /\ ~SocketActivated)}

\* The daemon goes down with its threads and its memory.  What it had accepted
\* is closed, and so is the backlog of a socket of its own; that of systemd's
\* socket and the commands it started remain.  The history variables keep what
\* happened, also where the log file does not survive.
BrokerCrash ==
  /\ crashes < MaxCrashes
  /\ Crash
  /\ crashes' = crashes + 1
  /\ stage' = [c \in Conn |-> IF c \in Dropped THEN "dead" ELSE stage[c]]
  /\ backlog' = IF SocketActivated THEN backlog ELSE <<>>
  /\ slots' = 0 /\ approvals' = EmptyState /\ gate' = NoConn /\ counted' = {}
  /\ UNCHANGED <<askVars, since, out, ver, groundVars, audit, clock>>

\* What a worker does without waiting for the client, the human or the child.
Worker(c) ==
  \/ WorkerReload(c) \/ TurnAway(c) \/ Authorise(c)
  \/ Vet(c) \/ CheckRate(c) \/ CheckCache(c) \/ NoteHit(c) \/ Ask(c)
  \/ NoteApproval(c) \/ Start(c) \/ WriteAudit(c) \/ Reply(c) \/ Release(c)

\* What it waits for.
Awaited(c) == Receive(c) \/ Answer(c) \/ Exit(c)

AcceptLoop == \E c \in Conn : Accept(c) \/ Dispatch(c)

BrokerNext ==
  \/ \E c \in Conn : Connect(c) \/ Worker(c) \/ Awaited(c) \/ NoAgent(c)
  \/ AcceptLoop
  \/ Tick \/ EditFile \/ Startup \/ BrokerCrash

BrokerSpec == BrokerInit /\ [][BrokerNext]_vars

-----------------------------------------------------------------------------
(* Properties. *)

\* Under the policy that decided it, request c may be asked by its peer and is
\* admitted by its rule.
Admitted(c) ==
  /\ ver[c] # 0
  /\ Uid[c] \in AgentUids[history[ver[c]]]
  /\ rule[c] # NoRule
  /\ rule[c] = Verdict[history[ver[c]]][req[c]]

\* A human approved this very argv under this very rule index, and the
\* execution was recorded at instant t.
ApprovedAt(r, a, t) ==
  \E d \in Conn : human[d] = "allow" /\ rule[d] = r /\ req[d] = a /\ noted[d] = t

Typed ==
  /\ stage \in [Conn -> Stage]
  /\ backlog \in Seq(Conn)
  /\ slots \in Nat
  /\ approvals \in ApprovalState
  /\ gate \in Conn \cup {NoConn}
  /\ req \in [Conn -> Argv]
  /\ rule \in [Conn -> Rules \cup {NoRule}]
  /\ clock \in Nat /\ crashes \in Nat
  /\ since \in [Conn -> 0 .. clock]
  /\ out \in [Conn -> Outcome \cup Early \cup {"none"}]
  /\ ver \in [Conn -> 0 .. Version]
  /\ human \in [Conn -> {"none", "allow", "deny"}]
  /\ seen \in [Conn -> Nat \cup {Never}]
  /\ noted \in [Conn -> Nat \cup {Never}]
  /\ counted \in SUBSET Conn
  /\ ran \in [Conn -> {"no", "human", "cached"}]
  /\ audit \in [Conn -> {"none", "written", "lost"}]

Staged(c) ==
  /\ stage[c] \in Live <=> pc[c] # "idle"
  /\ stage[c] \in Live \ {"worker"} => pc[c] \in {"serve", "refused"}
  /\ stage[c] \in Live \ {"worker", "reply", "release"} => ver[c] # 0
  /\ stage[c] \in Live \ {"worker", "read", "vet", "audit", "reply", "release"}
       => rule[c] # NoRule

\* Types, and how the stages of a connection tie its variables together: the
\* reload runs exactly under the first stage of a worker, what is past it is
\* decided by a version of the file, what is past the vetting has a rule.
BrokerTypeOK ==
  /\ ReloadTypeOK
  /\ Typed
  /\ \A c \in Conn : Staged(c)

\* When the cache was read for request c, there was an approval of its argv
\* under its rule index, younger than the ttl.
Backed(c) ==
  \E t \in 0 .. clock : /\ ApprovedAt(rule[c], req[c], t)
                        /\ Age(seen[c], t) < ScopeOf(c).ttl

\* The semaphore counts the workers and bounds them, whichever way each one
\* ends (server.rs:432-442, 467-473).
SlotsExact == slots = Cardinality(Workers) /\ slots <= MaxConcurrent

\* No command runs, and no human is asked about one, unless the policy in force
\* for the request admits it from this caller.  A command runs because approve()
\* returned an approval to this very request, or because it returned one to the
\* identical argv under the same rule index and that was younger than the ttl
\* when the cache was read (server.rs:165-169, scoping.rs:45-47).  Whether the
\* approval returned is the human's answer to this prompt is OwnVerdict's matter,
\* in module AgentChannel.
RunsAreApproved ==
  \A c \in Conn :
    /\ human[c] # "none" \/ stage[c] = "dialog" \/ ran[c] # "no" => Admitted(c)
    /\ ran[c] = "human" => human[c] = "allow"
    /\ ran[c] = "cached" => Backed(c)

\* Whatever is in the cache was put there by an approval of that very argv,
\* at the instant it is filed under: hits and denials never refresh an entry
\* (scoping.rs:140-177).
CacheBacked ==
  \A r \in Rules, a \in Argv :
    approvals.cache[<<r, a>>] # Never => ApprovedAt(r, a, approvals.cache[<<r, a>>])

\* The rate caps the versions of the file so far give to a rule.
Caps(r) == {Scopes[history[v]][r].rate : v \in 1 .. Version}

\* Executions recorded under rule r since the last reset and within the last
\* window.
RecentRuns(r) ==
  {c \in counted : /\ rule[c] = r /\ noted[c] > clock - Window
                   /\ ver[c] # 0 /\ ScopeOf(c).rate > 0}

\* The check of the rate and the record of the execution are two critical
\* sections with a human's answer between them, so the cap can be overrun -
\* but by no more than the workers that may be between the two: never more
\* than cap - 1 + MaxConcurrent executions in a window (server.rs:225-302).
RunsBounded ==
  \A r \in Rules : LET runs == RecentRuns(r) IN
    runs # {} => \E cap \in Caps(r) : Cardinality(runs) <= cap - 1 + MaxConcurrent

\* The log agrees with what happened: a record of an execution is that of a
\* command that ran on that ground, a refusal that of one that did not, and
\* whatever ran or was decided by the pipeline is recorded before it is
\* answered, unless the write fails or the daemon goes down first.  Who is
\* turned away before the pipeline is not recorded (server.rs:186-318).  Of the
\* record of an approver's error it says that nothing ran, not that no dialog was
\* shown, as audit.rs:29 has it: after a timeout one was.
AuditTruthful ==
  \A c \in Conn :
    /\ audit[c] # "none" =>
         /\ out[c] = "executed" => ran[c] = "human"
         /\ out[c] = "approved-cached" => ran[c] = "cached"
         /\ out[c] \in Denials \cup {"approver-error"} => ran[c] = "no"
         /\ out[c] = "denied-user" <=> human[c] = "deny"
    /\ stage[c] \in {"reply", "release", "done"} =>
         (ran[c] # "no" \/ out[c] \in Outcome => audit[c] # "none")

-----------------------------------------------------------------------------
(***************************************************************************)
(* The daemon keeps the promise made in module Promise.  A request has an  *)
(* order once a rule admits it; it is granted when a hit is found or the   *)
(* human says yes, and closed when its fate is settled.                    *)
(***************************************************************************)
PhaseOf(s) ==
  CASE s \in {"rate", "cache", "approve", "dialog"} -> "admitted"
    [] s \in {"hit", "record", "run"} -> "granted"
    [] s = "running" -> "running"
    [] s \in {"audit", "reply", "release", "done", "dead"} -> "closed"
    [] OTHER -> "open"

OrderOf(c) == IF rule[c] = NoRule THEN NoRule ELSE <<rule[c], req[c]>>

PermitsOf ==
  [k \in Contents |-> [c \in Conn |->
     {<<Verdict[k][a], a>> : a \in {b \in Argv : /\ Uid[c] \in AgentUids[k]
                                                /\ Verdict[k][b] # NoRule}}]]

Laws     == {history[v] : v \in 1 .. Version}
Phases   == [c \in Conn |-> PhaseOf(stage[c])]
Orders   == [c \in Conn |-> OrderOf(c)]
Consents == {OrderOf(c) : c \in {d \in Conn : human[d] = "allow"}}
Started  == {c \in Conn : ran[c] # "no"}

Contract == INSTANCE Promise WITH
  Request  <- Conn,
  Order    <- Rules \X Argv,
  NoOrder  <- NoRule,
  Law      <- Contents,
  Permits  <- PermitsOf,
  laws     <- Laws,
  phase    <- Phases,
  order    <- Orders,
  consents <- Consents,
  ran      <- Started

\* Every step of the daemon is a step of the promise, or none: no command is put
\* to a human, granted, started or answered in another order than policy,
\* consent, execution, answer, whichever threads, reloads and crashes are in
\* between (server.rs:171-320, docs/DEVELOPMENT.md:56-65).
PromiseKept == Contract!Spec

(* What the documentation says and the code does not do. *)

\* A reload "resets approval state (rule indices may have shifted)"
\* (server.rs:82-83): a cached approval was given under the policy it is used
\* under.
CachedUnderSamePolicy ==
  \A c \in Conn : ran[c] = "cached" =>
    \E d \in Conn : /\ human[d] = "allow" /\ rule[d] = rule[c] /\ req[d] = req[c]
                    /\ history[ver[d]] = history[ver[c]]

=============================================================================
