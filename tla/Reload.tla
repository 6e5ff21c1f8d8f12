------------------------------- MODULE Reload -------------------------------
(***************************************************************************)
(* Hot reload of the policy (server.rs:maybe_reload and the snapshot that  *)
(* follows it, sudixd.rs:run_daemon for the first load).                   *)
(*                                                                         *)
(* Every worker first makes sure the policy in force is that of the file:  *)
(* it hashes the file, compares with the hash of the last load and, when   *)
(* they differ, loads the file again.  The hash is read before the lock is *)
(* taken and the file is read a second time to load it, so an edit may     *)
(* fall between any two of these steps.                                    *)
(*                                                                         *)
(* The file is an append-only history of contents: version v of the file   *)
(* has content history[v], and a hash identifies a content.  A bundle is   *)
(* the version it was loaded from, 0 being no bundle.                      *)
(***************************************************************************)
EXTENDS Naturals, Sequences

CONSTANTS
  Conn,             \* connections, each served by a worker thread of its own
  Contents,         \* what the file may contain
  Valid,            \* the contents load_with_checks parses and validates
  NoHash,           \* last_hash = None
  NoConn,           \* nobody holds the last_hash lock
  MaxEdits,         \* bound on the edits of the file
  Reverts,          \* may an edit restore an earlier content?
  EditsAtStartup    \* may an edit fall between the two reads of run_daemon?

ASSUME ReloadAssumption ==
  /\ Valid \subseteq Contents
  /\ NoHash \notin Contents
  /\ NoConn \notin Conn
  /\ MaxEdits \in Nat
  /\ Reverts \in BOOLEAN
  /\ EditsAtStartup \in BOOLEAN

VARIABLES
  history,    \* the contents the file has had, the last one being its content
  daemon,     \* "down", "loading" (loaded, not yet hashed) or "up"
  current,    \* Config::current, the version in force
  last,       \* Config::last_hash
  owner,      \* the worker holding the last_hash lock
  pc,         \* where each worker is
  hashed,     \* the version each worker hashed
  bundle      \* the version each worker loaded, later the one it snapshotted

reloadVars == <<history, daemon, current, last, owner, pc, hashed, bundle>>
workVars   == <<pc, hashed, bundle>>

Version  == Len(history)
InFile   == history[Version]

Locked  == {"load", "swap", "reset"}
ReloadPC == {"idle", "hash", "check", "snap", "serve", "refused"} \cup Locked

\* Types, and the ranges that make every lookup in the history meaningful: a
\* policy is in force exactly while the daemon runs, and a worker that serves
\* has a bundle.
ReloadTypeOK ==
  /\ history \in Seq(Contents) /\ history # <<>>
  /\ daemon \in {"down", "loading", "up"}
  /\ current \in 0 .. Version
  /\ current = 0 <=> daemon = "down"
  /\ last \in Contents \cup {NoHash}
  /\ owner \in Conn \cup {NoConn}
  /\ pc \in [Conn -> ReloadPC]
  /\ hashed \in [Conn -> 0 .. Version]
  /\ bundle \in [Conn -> 0 .. Version]
  /\ \A c \in Conn :
       /\ pc[c] # "idle" => daemon = "up"
       /\ pc[c] \notin {"idle", "hash", "refused"} => hashed[c] # 0
       /\ pc[c] \in {"swap", "reset", "serve"} => bundle[c] # 0

ReloadInit ==
  /\ \E k \in Contents : history = <<k>>
  /\ daemon = "down" /\ current = 0 /\ last = NoHash /\ owner = NoConn
  /\ pc = [c \in Conn |-> "idle"]
  /\ hashed = [c \in Conn |-> 0]
  /\ bundle = [c \in Conn |-> 0]

-----------------------------------------------------------------------------
(***************************************************************************)
(* The administrator.  Only the content counts: rewriting the same bytes   *)
(* changes nothing the daemon can see.                                     *)
(***************************************************************************)
Edit(k) ==
  /\ Version <= MaxEdits
  /\ k # InFile
  /\ ~Reverts => \A v \in 1 .. Version : history[v] # k
  /\ daemon = "loading" => EditsAtStartup
  /\ history' = Append(history, k)
  /\ UNCHANGED <<daemon, current, last, owner, workVars>>

(***************************************************************************)
(* Startup.  A file that cannot be loaded ends the daemon before it serves *)
(* (no step); a file that cannot be hashed leaves last_hash None.          *)
(***************************************************************************)
StartLoad ==
  /\ daemon = "down" /\ InFile \in Valid
  /\ daemon' = "loading"
  /\ current' = Version
  /\ UNCHANGED <<history, last, owner, workVars>>

StartHash ==
  /\ daemon = "loading"
  /\ daemon' = "up"
  /\ last' \in {InFile, NoHash}
  /\ UNCHANGED <<history, current, owner, workVars>>

(***************************************************************************)
(* The daemon stops: every thread and all of its memory are gone.          *)
(***************************************************************************)
ReloadCrash ==
  /\ daemon' = "down" /\ current' = 0 /\ last' = NoHash /\ owner' = NoConn
  /\ pc' = [c \in Conn |-> "idle"]
  /\ hashed' = [c \in Conn |-> 0]
  /\ bundle' = [c \in Conn |-> 0]
  /\ UNCHANGED history

Crash == daemon # "down" /\ ReloadCrash

-----------------------------------------------------------------------------
(* One worker. *)

Goto(c, from, to) == pc[c] = from /\ pc' = [pc EXCEPT ![c] = to]

\* The accept loop spawns a worker for the connection.
Begin(c) ==
  /\ daemon = "up"
  /\ Goto(c, "idle", "hash")
  /\ UNCHANGED <<history, daemon, current, last, owner, hashed, bundle>>

ReadHash(c) ==
  /\ Goto(c, "hash", "check")
  /\ hashed' = [hashed EXCEPT ![c] = Version]
  /\ UNCHANGED <<history, daemon, current, last, owner, bundle>>

\* The file cannot be read: the `?` of maybe_reload refuses the request.
HashFails(c) ==
  /\ Goto(c, "hash", "refused")
  /\ UNCHANGED <<history, daemon, current, last, owner, hashed, bundle>>

\* The lock is free and the contents are those of the last load.
FastPath(c) ==
  /\ Goto(c, "check", "snap")
  /\ owner = NoConn
  /\ last = history[hashed[c]]
  /\ UNCHANGED <<history, daemon, current, last, owner, hashed, bundle>>

\* Mutant of TakeLock: the lock is not waited for.
TakeLock_NoWait(c) ==
  /\ Goto(c, "check", "load")
  /\ last # history[hashed[c]]
  /\ owner' = c
  /\ UNCHANGED <<history, daemon, current, last, hashed, bundle>>

\* The lock is free and they are not: keep it across the load.
TakeLock(c) ==
  /\ Goto(c, "check", "load")
  /\ owner = NoConn
  /\ last # history[hashed[c]]
  /\ owner' = c
  /\ UNCHANGED <<history, daemon, current, last, hashed, bundle>>

Load(c) ==
  /\ Goto(c, "load", "swap")
  /\ InFile \in Valid
  /\ bundle' = [bundle EXCEPT ![c] = Version]
  /\ UNCHANGED <<history, daemon, current, last, owner, hashed>>

\* Mutant of LoadFails: a load that fails is remembered as the last one.
LoadFails_Remembers(c) ==
  /\ Goto(c, "load", "refused")
  /\ owner' = NoConn
  /\ last' = history[hashed[c]]
  /\ UNCHANGED <<history, daemon, current, hashed, bundle>>

\* Mutant of LoadFails: the old policy is served.
LoadFails_Serves(c) ==
  /\ Goto(c, "load", "snap")
  /\ owner' = NoConn
  /\ UNCHANGED <<history, daemon, current, last, hashed, bundle>>

\* Unreadable, loose permissions, malformed: the policy in force stays, the
\* request is refused, and last_hash does not change, so the next one retries.
LoadFails(c) ==
  /\ Goto(c, "load", "refused")
  /\ owner' = NoConn
  /\ UNCHANGED <<history, daemon, current, last, hashed, bundle>>

Swap(c) ==
  /\ Goto(c, "swap", "reset")
  /\ current' = bundle[c]
  /\ UNCHANGED <<history, daemon, last, owner, hashed, bundle>>

\* Mutant of Publish: the hash of the file as it is by now.
Publish_Rehash(c) ==
  /\ Goto(c, "reset", "snap")
  /\ last' = InFile
  /\ owner' = NoConn
  /\ UNCHANGED <<history, daemon, current, hashed, bundle>>

\* The approval state is reset (by the module that has one), the hash read
\* before the lock becomes the hash of the last load, the lock is released.
Publish(c) ==
  /\ Goto(c, "reset", "snap")
  /\ last' = history[hashed[c]]
  /\ owner' = NoConn
  /\ UNCHANGED <<history, daemon, current, hashed, bundle>>

Snapshot(c) ==
  /\ Goto(c, "snap", "serve")
  /\ bundle' = [bundle EXCEPT ![c] = current]
  /\ UNCHANGED <<history, daemon, current, last, owner, hashed>>

\* The worker has answered, or closed the connection.
End(c) ==
  /\ pc[c] \in {"serve", "refused"}
  /\ pc' = [pc EXCEPT ![c] = "idle"]
  /\ hashed' = [hashed EXCEPT ![c] = 0]
  /\ bundle' = [bundle EXCEPT ![c] = 0]
  /\ UNCHANGED <<history, daemon, current, last, owner>>

\* What a worker does by itself once it is spawned.
ReloadWork(c) ==
  \/ ReadHash(c) \/ HashFails(c) \/ FastPath(c) \/ TakeLock(c)
  \/ Load(c) \/ LoadFails(c) \/ Swap(c) \/ Publish(c) \/ Snapshot(c)

ReloadNext ==
  \/ \E k \in Contents : Edit(k)
  \/ StartLoad \/ StartHash \/ Crash
  \/ \E c \in Conn : Begin(c) \/ ReloadWork(c) \/ End(c)

ReloadSpec == ReloadInit /\ [][ReloadNext]_reloadVars

-----------------------------------------------------------------------------
(* Properties. *)

\* Mutual exclusion of the reload: whoever is between the comparison and the
\* publication of the hash holds the lock (server.rs:94-125).
OneReloader == \A c \in Conn : pc[c] \in Locked <=> owner = c

\* A request is decided by a policy at least as new as the file it found when
\* its worker started: what was edited before a request is in force for it,
\* and an edit is never shadowed by a hash that matches (server.rs:81-83,
\* "Reload the policy bundle from disk if the file's contents changed").  Two
\* edits can break it: one between the two reads of run_daemon, and, if Reverts,
\* one that restores the contents a worker hashed, after it has loaded what was
\* there in between.
ServedFresh ==
  \A c \in Conn : pc[c] = "serve" =>
    \/ bundle[c] >= hashed[c]
    \/ history[bundle[c]] = history[hashed[c]]

\* Fail closed: a worker that found a file which cannot be loaded, and which
\* has not changed since, does not serve - the policy that was in force before
\* is no substitute (server.rs:83-84, 533-538).  The same two edits can break it.
BadFileRefused ==
  \A c \in Conn :
    pc[c] = "serve" /\ hashed[c] = Version => InFile \in Valid

\* Workers that reload one after the other, each with a hash of its own age,
\* never put an older version of the file back in force (server.rs:106-112).
NeverBackwards == [][current' >= current \/ daemon' = "down"]_reloadVars

\* The hash recorded with a load may be that of an earlier version than the
\* one loaded - never of a later one: the next request reloads once too often
\* rather than not at all (server.rs:90, 119).
HashNotAhead ==
  last # NoHash => \E v \in 1 .. current : history[v] = last

\* An edit between the two reads of run_daemon makes the recorded hash newer
\* than the policy.  Nothing else does: while the daemon runs, no step puts the
\* hash ahead, and the first reload that changes it puts an end to the gap the
\* startup may have left (sudixd.rs:65-67, server.rs:90-119).
StartupRaceHeals ==
  [][daemon = "up" /\ (HashNotAhead \/ last' # last) => HashNotAhead']_reloadVars

=============================================================================
