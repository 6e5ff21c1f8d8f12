------------------------------ MODULE EndToEnd ------------------------------
(***************************************************************************)
(* The client command (sudix.rs) at the other end of each connection of    *)
(* module Broker: it reads its line, connects, sends one request, waits    *)
(* for one response and turns that into an exit code.  It may be killed    *)
(* while it waits; the daemon may go down under it.                        *)
(***************************************************************************)
EXTENDS Broker, CommandLine

CONSTANTS
  Line,      \* the lines clients are started with
  Status,    \* what the commands end with: an exit code, -1 for a signal
  Fragile    \* the clients that may panic: nobody reads what they print any
             \* more, or an argument of theirs is not Unicode

ASSUME EndToEndAssumption ==
  /\ \A l \in Line : ParseArgs(l).kind = "command" => ParseArgs(l).argv \in Argv
  /\ Status \subseteq -1 .. 255
  /\ Fragile \subseteq Conn

None == -2          \* no answer, no status, no exit code yet

VARIABLES
  client,   \* how far each client is
  typed,    \* the line it was started with
  exit,     \* its exit code
  answer,   \* the response on its connection, as the client would report it
  status    \* what the command of each request ended with

clientVars == <<client, typed, exit, answer, status>>
allVars    == <<vars, clientVars>>

Submitted(c) == ParseArgs(typed[c]).argv

EndToEndTypeOK ==
  /\ client \in [Conn -> {"none", "dialled", "hungup", "waiting",
                          "killed", "exited"}]
  /\ typed \in [Conn -> Line \cup {<<>>}]
  /\ exit \in [Conn -> {None} \cup 0 .. 255]
  /\ answer \in [Conn -> {None} \cup 0 .. 255]
  /\ status \in [Conn -> {None} \cup Status]
  /\ \A c \in Conn :
       /\ exit[c] # None <=> client[c] = "exited"
       /\ client[c] = "none" => stage[c] = "none"
       /\ client[c] \in {"dialled", "hungup", "waiting", "killed"} =>
            stage[c] # "none" /\ ParseArgs(typed[c]).kind = "command"

EndToEndInit ==
  /\ BrokerInit
  /\ client = [c \in Conn |-> "none"]
  /\ typed = [c \in Conn |-> <<>>]
  /\ exit = [c \in Conn |-> None]
  /\ answer = [c \in Conn |-> None]
  /\ status = [c \in Conn |-> None]

-----------------------------------------------------------------------------
(* The client. *)

\* What becomes of a client that is about to end with a code: every way out
\* prints something, and print!, eprint! and eprintln! panic when that fails.
Codes(c, code) == {code} \cup {e \in {101} : c \in Fragile}

Ends(c, from, code) ==
  /\ client[c] = from
  /\ client' = [client EXCEPT ![c] = "exited"]
  /\ \E e \in Codes(c, code) : exit' = [exit EXCEPT ![c] = e]

\* It is started.  Help ends it with 0; a line it does not understand, or a
\* socket it cannot reach, with 125.  Any of them ends a fragile client with 101.
Invoke(c) ==
  /\ client[c] = "none"
  /\ \E l \in Line :
       /\ typed' = [typed EXCEPT ![c] = l]
       /\ CASE ParseArgs(l) = Help  -> Ends(c, "none", 0) /\ UNCHANGED vars
            [] ParseArgs(l) = Usage -> Ends(c, "none", 125) /\ UNCHANGED vars
            [] OTHER -> \/ Ends(c, "none", 125) /\ UNCHANGED vars
                        \/ /\ Connect(c)
                           /\ client' = [client EXCEPT ![c] = "dialled"]
                           /\ UNCHANGED exit
  /\ UNCHANGED <<answer, status>>

\* It writes its request.  The daemon may have answered before it read
\* anything, and closed the connection: then the write fails, and what it
\* answered is not read.
Send(c) ==
  /\ \/ /\ client[c] = "dialled" /\ stage[c] # "dead"
        /\ client' = [client EXCEPT ![c] = "waiting"]
        /\ UNCHANGED exit
     \/ stage[c] \in {"done", "dead"} /\ Ends(c, "dialled", 125)
  /\ UNCHANGED <<vars, typed, answer, status>>

\* Mutant of Hear: the end of the connection is taken for a success.
Hear_EofIsSuccess(c) ==
  /\ \/ answer[c] # None /\ Ends(c, "waiting", answer[c])
     \/ /\ answer[c] = None /\ stage[c] \in {"done", "dead"}
        /\ Ends(c, "waiting", 0)
  /\ UNCHANGED <<vars, typed, answer, status>>

\* Mutant of Hear: a connection that ends without an answer is not noticed.
Hear_NoEof(c) ==
  /\ answer[c] # None /\ Ends(c, "waiting", answer[c])
  /\ UNCHANGED <<vars, typed, answer, status>>

\* It reads the response, or the end of the connection.
Hear(c) ==
  /\ \/ answer[c] # None /\ Ends(c, "waiting", answer[c])
     \/ /\ answer[c] = None /\ stage[c] \in {"done", "dead"}
        /\ Ends(c, "waiting", 125)
  /\ UNCHANGED <<vars, typed, answer, status>>

\* Somebody kills it.
Kill(c) ==
  /\ \/ /\ client[c] = "dialled"
        /\ client' = [client EXCEPT ![c] = "hungup"]
     \/ /\ client[c] = "waiting"
        /\ client' = [client EXCEPT ![c] = "killed"]
  /\ UNCHANGED <<vars, typed, exit, answer, status>>

-----------------------------------------------------------------------------
(* The daemon, with what it reads from and writes to the client. *)

\* The response to each outcome.  A command that could not be run to its end is
\* a denial too.
Decision(c) ==
  CASE out[c] \in {"executed", "approved-cached"}    -> "approved"
    [] out[c] \in {"reload-error", "approver-error"} -> "error"
    [] OTHER                                         -> "denied"

\* Mutant of ExitCode: the status is not cut.
ExitCode_Uncut(c) == IF Decision(c) = "approved" THEN status[c] ELSE 126

\* What main() makes of a response: the command's own status cut to eight bits,
\* or a code for each of the others.
ExitCode(c) ==
  CASE Decision(c) = "approved" -> status[c] % 256
    [] Decision(c) = "denied"   -> 126
    [] Decision(c) = "error"    -> 125

\* A line that was sent is the request; of a line that is too long or that was
\* cut off only a part is read; a client that was killed before it sent
\* anything leaves the end of the stream.
Read(c) ==
  /\ Receive(c)
  /\ stage'[c] = "release" => client[c] = "hungup"
  /\ stage'[c] = "vet" => /\ client[c] \in {"waiting", "killed"}
                          /\ req'[c] = Submitted(c)
  /\ UNCHANGED clientVars

Finish(c) ==
  /\ Exit(c)
  /\ IF out'[c] = "execute-error" THEN UNCHANGED status
     ELSE \E s \in Status : status' = [status EXCEPT ![c] = s]
  /\ UNCHANGED <<client, typed, exit, answer>>

Respond(c) ==
  /\ Reply(c)
  /\ answer' = [answer EXCEPT ![c] = ExitCode(c)]
  /\ UNCHANGED <<client, typed, exit, status>>

Serve(c) ==
  \/ Respond(c)
  \/ stage[c] # "reply" /\ Worker(c) /\ UNCHANGED clientVars

Await(c) == Read(c) \/ Finish(c) \/ (Answer(c) /\ UNCHANGED clientVars)

Client(c) == Send(c) \/ Hear(c)

Listen == AcceptLoop /\ UNCHANGED clientVars
Boot   == Startup /\ UNCHANGED clientVars

EndToEndNext ==
  \/ \E c \in Conn : \/ Invoke(c) \/ Client(c) \/ Kill(c)
                     \/ Serve(c) \/ Await(c)
                     \/ NoAgent(c) /\ UNCHANGED clientVars
  \/ Listen \/ Boot
  \/ (Tick \/ EditFile \/ BrokerCrash) /\ UNCHANGED clientVars

EndToEndSpec == EndToEndInit /\ [][EndToEndNext]_allVars

\* Threads and processes are scheduled, the daemon is started (by systemd, on a
\* connection), the human answers and the command ends: of each connection, what
\* can happen does not wait for ever.  The code bounds only the human, by a
\* timeout; that a client sends its request or goes away is this module's own
\* doing, so it is no assumption that the daemon's read ends.
EndToEndFairSpec ==
  /\ EndToEndSpec
  /\ WF_allVars(Listen \/ Boot)
  /\ \A c \in Conn : WF_allVars(Serve(c) \/ Await(c) \/ Client(c))

-----------------------------------------------------------------------------
(* Properties. *)

\* The exit code a caller sees can be relied on as far as this: 0 is help, or
\* the success of the very command it typed; a code other than 0, 101, 125 and
\* 126 is that command's own, and so is 101 unless the client may have panicked.
\* A command that ran to its end and was answered is reported by its status,
\* except by a client that panics while it prints; one that never started never
\* is; and a client that reports 125 for one that did was cut off by a crash of
\* the daemon (sudix.rs:95-158, server.rs:242-318).
ExitTruthful ==
  \A c \in Conn : client[c] = "exited" =>
    LET p   == ParseArgs(typed[c])
        own == /\ ran[c] # "no" /\ req[c] = p.argv
               /\ status[c] # None /\ exit[c] = status[c] % 256
    IN  /\ exit[c] = 0 => p = Help \/ own
        /\ exit[c] \notin {0, 101, 125, 126} => own
        /\ exit[c] = 101 => own \/ c \in Fragile
        /\ exit[c] = 126 => own \/ out[c] \notin {"none", "executed", "approved-cached"}
        /\ exit[c] = 125 /\ ran[c] # "no" => own \/ crashes > 0
        /\ ran[c] # "no" /\ stage[c] = "done" /\ out[c] # "execute-error" =>
             own \/ (exit[c] = 101 /\ c \in Fragile)

\* Every client ends and the daemon is done with its request, even if it goes
\* down under it and comes back: no caller hangs on a request nobody works on,
\* and no slot is held by one nobody waits for (sudix.rs:113-126,
\* server.rs:423-475).
Pending(c) ==
  /\ client[c] # "none"
  /\ \/ client[c] \in {"dialled", "waiting"}
     \/ stage[c] \notin {"none", "done", "dead"}
EveryRequestEnds == \A c \in Conn : Pending(c) ~> ~Pending(c)

=============================================================================
