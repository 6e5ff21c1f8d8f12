---------------------------- MODULE AgentChannel ----------------------------
(***************************************************************************)
(* Approval through a per-user agent (approval.rs:AgentHandle and          *)
(* AgentApprover, the RegisterAgent arm of server.rs, sudix-agent.rs).     *)
(*                                                                         *)
(* An agent connects to the daemon's socket and registers; the worker of   *)
(* its connection keeps the slot until a prompt finds the connection       *)
(* broken.  A request looks the agent of its uid up in the registry,       *)
(* waiting for one to register, then takes the approval gate, writes a     *)
(* prompt to the agent's stream and reads one line back.                   *)
(*                                                                         *)
(* A handle is one connection of an agent, used once: an agent that        *)
(* reconnects is another handle.  The prompt of a request is named by the  *)
(* request.  Timeouts (10 s to find an agent, 300 s to get a verdict) may  *)
(* expire whenever the thing waited for has not happened.                  *)
(***************************************************************************)
EXTENDS Naturals, Sequences, FiniteSets

CONSTANTS
  Handle,          \* connections of agents
  Req,             \* requests for approval
  Uid,             \* the uid of each handle and each request
  None,            \* no handle, no request
  MaxConcurrent,   \* server.rs:MAX_CONCURRENT
  Buffer,          \* prompts a connection holds that its agent has not read
  SlowHumans       \* may a prompt outlive AGENT_PROMPT_TIMEOUT_SECS?

ASSUME AgentChannelAssumption ==
  /\ None \notin Handle \cup Req
  /\ Handle \cap Req = {}
  /\ MaxConcurrent \in Nat \ {0}
  /\ Buffer \in Nat \ {0}
  /\ SlowHumans \in BOOLEAN

VARIABLES
  backlog,     \* connections waiting for a slot
  slots,       \* the semaphore of the accept loop
  registry,    \* uid -> handle (AgentRegistry)
  gate,        \* the request holding AgentApprover::approval_gate
  hstate,      \* the worker of each agent connection
  broken,      \* AgentHandle::disconnected
  open,        \* the agent's end of each connection
  prompts,     \* prompts the agent has not read yet
  showing,     \* the prompt whose dialog the agent shows
  verdicts,    \* verdict lines the daemon has not read yet
  rstate,      \* the worker of each request
  handle,      \* the handle a request has cloned from the registry
  result,      \* what approve() returned
  \* History variables.
  answered,    \* what the human answered to the prompt of each request
  source       \* the prompt whose verdict decided each request

daemonVars == <<backlog, slots, registry, gate, hstate, broken>>
agentVars  == <<open, prompts, showing, verdicts, answered>>
reqVars    == <<rstate, handle, result, source>>
vars       == <<daemonVars, agentVars, reqVars>>

Uids    == {Uid[x] : x \in Handle \cup Req}
Answers == {"allow", "deny", "error"}

HandleActive == {"starting", "registered"}
ReqActive    == {"seek", "waiting", "timedout", "have", "prompt", "await"}

\* The threads of the daemon that hold a slot.
Threads == {h \in Handle : hstate[h] \in HandleActive} \cup
           {r \in Req : rstate[r] \in ReqActive}

\* The daemon's end of a connection closes with the last clone of the handle.
Held(h) == \/ hstate[h] \in {"queued", "starting", "registered"}
           \/ \E r \in Req : handle[r] = h /\ rstate[r] \in {"have", "prompt", "await"}

\* Types; a request past the lookup has a handle of its own uid, an entry of
\* the registry is of the uid it is filed under.
AgentTypeOK ==
  /\ backlog \in Seq(Handle \cup Req)
  /\ slots \in Nat
  /\ registry \in [Uids -> Handle \cup {None}]
  /\ gate \in Req \cup {None}
  /\ hstate \in [Handle -> {"none", "queued", "gone"} \cup HandleActive]
  /\ broken \in [Handle -> BOOLEAN] /\ open \in [Handle -> BOOLEAN]
  /\ prompts \in [Handle -> Seq(Req)]
  /\ showing \in [Handle -> Req \cup {None}]
  /\ verdicts \in [Handle -> Seq([req : Req, answer : Answers])]
  /\ rstate \in [Req -> {"none", "queued", "done"} \cup ReqActive]
  /\ handle \in [Req -> Handle \cup {None}]
  /\ result \in [Req -> {"none"} \cup Answers]
  /\ answered \in [Req -> {"none"} \cup Answers]
  /\ source \in [Req -> Req \cup {None}]
  /\ \A r \in Req : rstate[r] \in {"have", "prompt", "await"} =>
                      handle[r] # None /\ Uid[handle[r]] = Uid[r]
  /\ \A u \in Uids : registry[u] # None => Uid[registry[u]] = u

Init ==
  /\ backlog = <<>> /\ slots = 0 /\ gate = None
  /\ registry = [u \in Uids |-> None]
  /\ hstate = [h \in Handle |-> "none"]
  /\ broken = [h \in Handle |-> FALSE]
  /\ open = [h \in Handle |-> FALSE]
  /\ prompts = [h \in Handle |-> <<>>]
  /\ showing = [h \in Handle |-> None]
  /\ verdicts = [h \in Handle |-> <<>>]
  /\ rstate = [r \in Req |-> "none"]
  /\ handle = [r \in Req |-> None]
  /\ result = [r \in Req |-> "none"]
  /\ answered = [r \in Req |-> "none"]
  /\ source = [r \in Req |-> None]

-----------------------------------------------------------------------------
(* Connections and slots. *)

AgentConnects(h) ==
  /\ hstate[h] = "none"
  /\ hstate' = [hstate EXCEPT ![h] = "queued"]
  /\ open' = [open EXCEPT ![h] = TRUE]
  /\ backlog' = Append(backlog, h)
  /\ UNCHANGED <<slots, registry, gate, broken, prompts, showing, verdicts,
                 answered, reqVars>>

RequestArrives(r) ==
  /\ rstate[r] = "none"
  /\ rstate' = [rstate EXCEPT ![r] = "queued"]
  /\ backlog' = Append(backlog, r)
  /\ UNCHANGED <<slots, registry, gate, hstate, broken, agentVars, handle,
                 result, source>>

\* The next connection gets a slot and a worker.  A request is taken to where
\* handle_request calls the approver (module Broker has what comes before).
Dispatch ==
  /\ backlog # <<>> /\ slots < MaxConcurrent
  /\ backlog' = Tail(backlog)
  /\ slots' = slots + 1
  /\ LET x == Head(backlog) IN
       IF x \in Handle
       THEN hstate' = [hstate EXCEPT ![x] = "starting"] /\ UNCHANGED rstate
       ELSE rstate' = [rstate EXCEPT ![x] = "seek"] /\ UNCHANGED hstate
  /\ UNCHANGED <<registry, gate, broken, agentVars, handle, result, source>>

\* The handle becomes the agent of its uid, in the place of an earlier one,
\* and every request that waits for an agent looks again.
Register(h) ==
  /\ hstate[h] = "starting"
  /\ hstate' = [hstate EXCEPT ![h] = "registered"]
  /\ registry' = [registry EXCEPT ![Uid[h]] = h]
  /\ rstate' = [r \in Req |-> IF rstate[r] = "waiting" THEN "seek" ELSE rstate[r]]
  /\ UNCHANGED <<backlog, slots, gate, broken, agentVars, handle, result, source>>

\* Mutant of Unregister: the entry stays.
Unregister_Forgets(h) ==
  /\ hstate[h] = "registered" /\ broken[h]
  /\ hstate' = [hstate EXCEPT ![h] = "gone"]
  /\ slots' = slots - 1
  /\ UNCHANGED <<backlog, registry, gate, broken, agentVars, reqVars>>

\* wait_until_disconnected returns: the entry of the uid is removed - whoever
\* it is by now - and the worker ends.
Unregister(h) ==
  /\ hstate[h] = "registered" /\ broken[h]
  /\ hstate' = [hstate EXCEPT ![h] = "gone"]
  /\ registry' = [registry EXCEPT ![Uid[h]] = None]
  /\ slots' = slots - 1
  /\ UNCHANGED <<backlog, gate, broken, agentVars, reqVars>>

-----------------------------------------------------------------------------
(* AgentApprover::approve and AgentHandle::prompt. *)

\* Mutant of Seek: the agent of any uid will do.
Seek_AnyAgent(r) ==
  /\ rstate[r] = "seek"
  /\ IF \E u \in Uids : registry[u] # None
     THEN /\ \E u \in Uids : /\ registry[u] # None
                             /\ handle' = [handle EXCEPT ![r] = registry[u]]
          /\ rstate' = [rstate EXCEPT ![r] = "have"]
     ELSE rstate' = [rstate EXCEPT ![r] = "waiting"] /\ UNCHANGED handle
  /\ UNCHANGED <<daemonVars, agentVars, result, source>>

\* The registry is locked: clone the handle, or wait for a registration.
Seek(r) ==
  /\ rstate[r] = "seek"
  /\ LET h == registry[Uid[r]] IN
       IF h # None
       THEN /\ handle' = [handle EXCEPT ![r] = h]
            /\ rstate' = [rstate EXCEPT ![r] = "have"]
       ELSE rstate' = [rstate EXCEPT ![r] = "waiting"] /\ UNCHANGED handle
  /\ UNCHANGED <<daemonVars, agentVars, result, source>>

\* approve() returns v, decided by the verdict on prompt s; the worker ends.
Return(r, v, s) ==
  /\ rstate' = [rstate EXCEPT ![r] = "done"]
  /\ result' = [result EXCEPT ![r] = v]
  /\ source' = [source EXCEPT ![r] = s]
  /\ slots' = slots - 1

\* The wait for a registration has lasted register_wait.
WaitTimesOut(r) ==
  /\ rstate[r] = "waiting"
  /\ rstate' = [rstate EXCEPT ![r] = "timedout"]
  /\ UNCHANGED <<daemonVars, agentVars, handle, result, source>>

\* Mutant of GiveUp: the slot is not given back.
GiveUp_KeepsSlot(r) ==
  /\ rstate[r] = "timedout"
  /\ rstate' = [rstate EXCEPT ![r] = "done"]
  /\ result' = [result EXCEPT ![r] = "error"]
  /\ UNCHANGED <<daemonVars, agentVars, handle, source>>

\* The registry is not looked at again: an agent that has registered since the
\* wait timed out is not asked.
GiveUp(r) ==
  /\ rstate[r] = "timedout"
  /\ Return(r, "error", None)
  /\ UNCHANGED <<backlog, registry, gate, hstate, broken, agentVars, handle>>

\* Mutant of TakeGate: it is not waited for.
TakeGate_NoWait(r) ==
  /\ rstate[r] = "have"
  /\ rstate' = [rstate EXCEPT ![r] = "prompt"]
  /\ gate' = r
  /\ UNCHANGED <<backlog, slots, registry, hstate, broken, agentVars, handle,
                 result, source>>

\* One prompt at a time, whoever it goes to.
TakeGate(r) ==
  /\ rstate[r] = "have" /\ gate = None
  /\ rstate' = [rstate EXCEPT ![r] = "prompt"]
  /\ gate' = r
  /\ UNCHANGED <<backlog, slots, registry, hstate, broken, agentVars, handle,
                 result, source>>

\* The socket buffer to the agent is full.  A write has no timeout, and an agent
\* reads nothing while it shows a dialog.
Blocked(r) ==
  rstate[r] = "prompt" /\ open[handle[r]] /\ Len(prompts[handle[r]]) = Buffer

\* Write the prompt to a connection the agent still has open and there is room
\* in: write_all waits for both the room and, if that comes first, the end.
Send(r) ==
  /\ rstate[r] = "prompt" /\ open[handle[r]]
  /\ Len(prompts[handle[r]]) < Buffer
  /\ prompts' = [prompts EXCEPT ![handle[r]] = Append(@, r)]
  /\ rstate' = [rstate EXCEPT ![r] = "await"]
  /\ UNCHANGED <<daemonVars, open, showing, verdicts, answered, handle, result,
                 source>>

\* The end of prompt() on an I/O error: signal_disconnected, then the error.
Broken(r) ==
  /\ broken' = [broken EXCEPT ![handle[r]] = TRUE]
  /\ gate' = None
  /\ Return(r, "error", None)
  /\ UNCHANGED <<backlog, registry, hstate, agentVars, handle>>

SendFails(r) == rstate[r] = "prompt" /\ ~open[handle[r]] /\ Broken(r)

\* Mutant of ReadVerdict: the line stays in the stream.
ReadVerdict_Peeks(r) ==
  LET h == handle[r] IN
  /\ rstate[r] = "await" /\ verdicts[h] # <<>>
  /\ gate' = None
  /\ Return(r, Head(verdicts[h]).answer, Head(verdicts[h]).req)
  /\ UNCHANGED <<backlog, registry, hstate, broken, agentVars, handle>>

\* One line is read.  The reader is a BufReader of its own for every prompt,
\* so what else has arrived is read with it and dropped.
ReadVerdict(r) ==
  LET h == handle[r] IN
  /\ rstate[r] = "await" /\ verdicts[h] # <<>>
  /\ verdicts' = [verdicts EXCEPT ![h] = <<>>]
  /\ gate' = None
  /\ Return(r, Head(verdicts[h]).answer, Head(verdicts[h]).req)
  /\ UNCHANGED <<backlog, registry, hstate, broken, open, prompts, showing,
                 answered, handle>>

ReadEof(r) ==
  rstate[r] = "await" /\ verdicts[handle[r]] = <<>> /\ ~open[handle[r]] /\ Broken(r)

\* Mutant of ReadTimesOut: the connection is kept.
ReadTimesOut_KeepsStream(r) ==
  /\ SlowHumans
  /\ rstate[r] = "await" /\ verdicts[handle[r]] = <<>>
  /\ gate' = None
  /\ Return(r, "error", None)
  /\ UNCHANGED <<backlog, registry, hstate, broken, agentVars, handle>>

ReadTimesOut(r) ==
  /\ SlowHumans
  /\ rstate[r] = "await" /\ verdicts[handle[r]] = <<>> /\ Broken(r)

-----------------------------------------------------------------------------
(* The agent: one prompt, one dialog, one verdict at a time. *)

Show(h) ==
  /\ open[h] /\ showing[h] = None /\ prompts[h] # <<>>
  /\ showing' = [showing EXCEPT ![h] = Head(prompts[h])]
  /\ prompts' = [prompts EXCEPT ![h] = Tail(@)]
  /\ UNCHANGED <<daemonVars, open, verdicts, answered, reqVars>>

\* The human answers the dialog, or it fails; the verdict is written, into the
\* void if the daemon has closed its end.
Decide(h) ==
  /\ open[h] /\ showing[h] # None
  /\ \E v \in Answers :
       /\ answered' = [answered EXCEPT ![showing[h]] = v]
       /\ verdicts' = IF Held(h)
                      THEN [verdicts EXCEPT ![h] =
                              Append(@, [req |-> showing[h], answer |-> v])]
                      ELSE verdicts
  /\ showing' = [showing EXCEPT ![h] = None]
  /\ UNCHANGED <<daemonVars, open, prompts, reqVars>>

\* The session ends, or the agent finds the daemon's end closed.
AgentCloses(h) ==
  /\ open[h]
  /\ open' = [open EXCEPT ![h] = FALSE]
  /\ prompts' = [prompts EXCEPT ![h] = <<>>]
  /\ showing' = [showing EXCEPT ![h] = None]
  /\ UNCHANGED <<daemonVars, verdicts, answered, reqVars>>

-----------------------------------------------------------------------------

RequestStep(r) ==
  \/ Seek(r) \/ WaitTimesOut(r) \/ GiveUp(r) \/ TakeGate(r) \/ Send(r) \/ SendFails(r)
  \/ ReadVerdict(r) \/ ReadEof(r) \/ ReadTimesOut(r)

HandlerStep(h) == Register(h) \/ Unregister(h)

Next ==
  \/ Dispatch
  \/ \E r \in Req : RequestArrives(r) \/ RequestStep(r)
  \/ \E h \in Handle : \/ AgentConnects(h) \/ HandlerStep(h)
                       \/ Show(h) \/ Decide(h) \/ AgentCloses(h)

Spec == Init /\ [][Next]_vars

\* Only the daemon is fair: its threads run and its timeouts expire.  Agents
\* and humans owe nothing.
FairSpec ==
  /\ Spec
  /\ WF_vars(Dispatch)
  /\ \A r \in Req : WF_vars(RequestStep(r))
  /\ \A h \in Handle : WF_vars(HandlerStep(h))

-----------------------------------------------------------------------------
(* Properties. *)

\* The semaphore counts the threads, however each of them ends
\* (server.rs:432-442, 467-473; approval.rs:345-381).
SlotsExact == slots = Cardinality(Threads) /\ slots <= MaxConcurrent

\* The gate is held around one prompt and the reading of its answer, never while
\* a request waits for an agent to register, and every way out of prompt()
\* releases it (approval.rs:339-341, 375-380).  That is not one dialog at a time:
\* see OneDialogShown.
GateAroundPrompt == \A r \in Req : rstate[r] \in {"prompt", "await"} <=> gate = r

\* An approval is somebody's: a request is allowed by a human of its own uid
\* who pressed "allow", and one press allows one request - whatever timed
\* out, reconnected or was read late meanwhile (approval.rs:286-326).
AllowUsedOnce ==
  \A r \in Req : result[r] = "allow" =>
    /\ source[r] # None
    /\ answered[source[r]] = "allow"
    /\ Uid[source[r]] = Uid[r]
    /\ \A q \in Req \ {r} : result[q] = "allow" => source[q] # source[r]

\* The registry never hands out a connection the daemon is done with: the
\* worker of an entry is there to remove it when it breaks
\* (server.rs:588-608, approval.rs:329).
RegistryServed ==
  \A u \in Uids : registry[u] # None => hstate[registry[u]] = "registered"

\* As long as agents leave a slot free, every request comes to an end by the
\* daemon's own timeouts, even when no agent comes and no human answers - or a
\* request holds the gate for ever in a write to an agent that does not read,
\* the one wait without a timeout (approval.rs:243, 295, 349-367).
RequestsEnd ==
  \A r \in Req :
    rstate[r] = "queued" ~> rstate[r] = "done" \/ \E q \in Req : []Blocked(q)


\* A verdict line names no prompt: a request may be decided by the answer to
\* another one's prompt, but only on a connection that is given up: the other
\* prompt was sent on the same connection by a request that is over, and some
\* request on it gave up waiting (approval.rs:286-326).
StrayVerdictIsLate ==
  \A r \in Req : source[r] \notin {None, r} =>
    /\ rstate[source[r]] = "done" /\ handle[source[r]] = handle[r]
    /\ broken[handle[r]]
    /\ \E q \in Req : handle[q] = handle[r] /\ result[q] = "error" /\ source[q] = None

\* A dialog outlives the gate only on a connection that is given up: every
\* other one is that of the request that holds the gate, so at most one of the
\* dialogs on the screens of all users is on a connection the daemon will write
\* to for a request to come (approval.rs:307-318, 375-380).
DialogsAreLate ==
  \A h \in Handle : showing[h] # None => showing[h] = gate \/ broken[h]

(* What comments and documents say and the code does not do. *)

\* "gate the dialog itself so at most one dialog shows at a time"
\* (approval.rs:375; "at most one dialog is outstanding", server.rs:161-162).
OneDialogShown ==
  \A g, h \in Handle : showing[g] # None /\ showing[h] # None => g = h

\* "human approves this argv" (docs/DEVELOPMENT.md): the verdict that decides a
\* request is the one on its own prompt.
OwnVerdict == \A r \in Req : source[r] # None => source[r] = r

\* "Block until the agent disconnects (prompt got EOF or error, or stream
\* closed)" (approval.rs:264).
ClosedAgentReleased ==
  \A h \in Handle : hstate[h] = "registered" /\ ~open[h] ~> hstate[h] = "gone"

=============================================================================
