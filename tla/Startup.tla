------------------------------ MODULE Startup ------------------------------
(***************************************************************************)
(* The daemon from its start to its first connection (sudixd.rs), and the  *)
(* other command that touches what it reads there: `sudixd enroll`, which  *)
(* an administrator may run at any time, twice at once, with and without   *)
(* --force.                                                                *)
(*                                                                         *)
(* The configuration is loaded and hashed as in module Reload; then the    *)
(* approver is chosen, once for the life of the daemon, by the method the  *)
(* loaded file names.  For TOTP it is made of the secret file: permissions *)
(* first, content second.                                                  *)
(*                                                                         *)
(* The file holds the secret of the enrolment that wrote it, or less than  *)
(* a secret.  The 32 bytes of a secret are written whole or not at all:    *)
(* a file that is cut inside a secret is left out.                         *)
(***************************************************************************)
EXTENDS Reload

CONSTANTS
  Enrolment,   \* runs of `sudixd enroll`
  Method,      \* content -> "agent" or "totp"
  Absent,      \* there is no secret file
  TooShort     \* it is empty, or holds no secret the decoder takes

ASSUME StartupAssumption ==
  /\ Method \in [Contents -> {"agent", "totp"}]
  /\ {Absent, TooShort} \cap Enrolment = {}
  /\ {"none", "checked", "agent", Absent, TooShort} \cap Enrolment = {}

VARIABLES
  secret,     \* the secret file
  private,    \* it is root's and nobody else's (0400 or 0600)
  enrol,      \* how far each enrolment is
  approver,   \* "none" yet, "checked" permissions, "agent", or whose secret
  booted,     \* history: the version of the file this daemon was started with
  raced       \* history: the hash it recorded then is that of a later version

secretVars  == <<secret, private, enrol>>
bootVars    == <<approver, booted, raced>>
startupVars == <<reloadVars, secretVars, bootVars>>

Ready == approver \notin {"none", "checked"}

\* Types; nothing is served before there is an approver.
StartupTypeOK ==
  /\ ReloadTypeOK
  /\ secret \in Enrolment \cup {Absent, TooShort}
  /\ private \in BOOLEAN
  /\ enrol \in [Enrolment -> {"none", "absent", "forced", "opened", "unlinked",
                           "done", "failed"}]
  /\ approver \in {"none", "checked", "agent"} \cup Enrolment
  /\ booted \in 0 .. Version
  /\ booted = 0 <=> daemon = "down"
  /\ raced \in BOOLEAN /\ (raced => daemon = "up")
  /\ approver # "none" => daemon = "up"
  /\ \A c \in Conn : pc[c] # "idle" => Ready

StartupInit ==
  /\ ReloadInit
  /\ secret = Absent /\ private = TRUE
  /\ enrol = [e \in Enrolment |-> "none"]
  /\ approver = "none" /\ booted = 0 /\ raced = FALSE

-----------------------------------------------------------------------------
(* cmd_enroll. *)

Step(e, from, to) == enrol[e] = from /\ enrol' = [enrol EXCEPT ![e] = to]

\* It needs a configuration it can load (for the path) and, unless forced, no
\* file at that path.
EnrolCheck(e) ==
  /\ \/ /\ InFile \in Valid
        /\ \/ Step(e, "none", "forced")
           \/ secret = Absent /\ Step(e, "none", "absent")
     \/ Step(e, "none", "failed")
  /\ UNCHANGED <<reloadVars, secret, private, bootVars>>

\* open with create and truncate; the mode counts only for a file that it
\* creates.
EnrolOpen(e) ==
  /\ \/ /\ Step(e, "absent", "opened") \/ Step(e, "forced", "opened")
        /\ secret' = TooShort
        /\ private' = (secret = Absent \/ private)
     \/ /\ Step(e, "absent", "failed") \/ Step(e, "forced", "failed")
        /\ UNCHANGED <<secret, private>>
  /\ UNCHANGED <<reloadVars, bootVars>>

\* The secret is written at the start of the file that was opened and its URI
\* printed, or the write fails.  The path may be that file's no longer.
EnrolWrite(e) ==
  /\ \/ Step(e, "opened", "done") /\ secret' = e
     \/ Step(e, "unlinked", "done") /\ UNCHANGED secret
     \/ /\ Step(e, "opened", "failed") \/ Step(e, "unlinked", "failed")
        /\ UNCHANGED secret
  /\ UNCHANGED <<reloadVars, private, bootVars>>

\* Whoever has the file open keeps a file without a name.
Unlinked == [e \in Enrolment |-> IF enrol[e] = "opened" THEN "unlinked" ELSE enrol[e]]

\* The administrator changes the mode of the file, or removes it.
Tamper ==
  /\ secret # Absent
  /\ \/ private' = ~private /\ UNCHANGED <<secret, enrol>>
     \/ secret' = Absent /\ private' = TRUE /\ enrol' = Unlinked
  /\ UNCHANGED <<reloadVars, bootVars>>

-----------------------------------------------------------------------------
(* run_daemon. *)

BootLoad ==
  /\ StartLoad
  /\ booted' = Version
  /\ UNCHANGED <<secretVars, approver, raced>>

BootHash ==
  /\ StartHash
  /\ raced' = (current # Version /\ last' # NoHash)
  /\ UNCHANGED <<secretVars, approver, booted>>

\* approver_for failed: the daemon ends before it serves.
Fatal ==
  /\ ReloadCrash
  /\ approver' = "none" /\ booted' = 0 /\ raced' = FALSE
  /\ UNCHANGED secretVars

\* The method is that of the file as it was loaded; the loaded policy is still
\* the one in force.
Starting(method) ==
  /\ daemon = "up" /\ approver = "none"
  /\ Method[history[current]] = method

ChooseAgent ==
  /\ Starting("agent")
  /\ approver' = "agent"
  /\ UNCHANGED <<reloadVars, secretVars, booted, raced>>

\* check_secret_permissions.
CheckSecret ==
  /\ Starting("totp")
  /\ IF secret # Absent /\ private
     THEN approver' = "checked" /\ UNCHANGED <<reloadVars, secretVars, booted, raced>>
     ELSE Fatal

\* Mutant of ReadSecret: a secret that cannot be decoded is no reason to stop.
ReadSecret_FallsBack ==
  /\ approver = "checked"
  /\ approver' = IF secret \in Enrolment THEN secret ELSE "agent"
  /\ UNCHANGED <<reloadVars, secretVars, booted, raced>>

\* The rest of from_secret_file: read, decode, TOTP::new.
ReadSecret ==
  /\ approver = "checked"
  /\ IF secret \in Enrolment
     THEN approver' = secret /\ UNCHANGED <<reloadVars, secretVars, booted, raced>>
     ELSE Fatal

\* Mutant of ServeOne: connections are served while the secret is being read.
ServeOne_Early(c) ==
  /\ Begin(c)
  /\ UNCHANGED <<secretVars, bootVars>>

\* The accept loop runs under serve_on*, which is given the approver.
ServeOne(c) ==
  /\ Ready /\ Begin(c)
  /\ UNCHANGED <<secretVars, bootVars>>

StartupCrash ==
  /\ Crash
  /\ approver' = "none" /\ booted' = 0 /\ raced' = FALSE
  /\ UNCHANGED secretVars

StartupNext ==
  \/ \E e \in Enrolment : EnrolCheck(e) \/ EnrolOpen(e) \/ EnrolWrite(e)
  \/ Tamper
  \/ BootLoad \/ BootHash \/ ChooseAgent \/ CheckSecret \/ ReadSecret
  \/ StartupCrash
  \/ \E c \in Conn : ServeOne(c)
  \/ /\ \/ \E k \in Contents : Edit(k)
        \/ \E c \in Conn : ReloadWork(c) \/ End(c)
     /\ UNCHANGED <<secretVars, bootVars>>

StartupSpec == StartupInit /\ [][StartupNext]_startupVars

-----------------------------------------------------------------------------
(* Properties. *)

\* A daemon that serves has the approver its file asked for when it was loaded:
\* for TOTP the secret of an enrolment that ended well - not a file that is being
\* overwritten, or was removed between the check of its mode and the read - and
\* never the other method instead (sudixd.rs:65-74, approval.rs:144-158,
\* 225-240).  It says nothing of the mode the file has by the time it is read, nor
\* of a secret that was in use and that a later enrolment replaced.
ApproverAsLoaded ==
  Ready => IF Method[history[booted]] = "agent" THEN approver = "agent"
           ELSE approver \in Enrolment /\ enrol[approver] = "done"

\* The next three are those of module Reload for a daemon whose file may change
\* while it starts.  They except the daemon that recorded the hash of a version
\* it did not load, of which StartupRaceHeals speaks, and, by Reverts = FALSE,
\* an edit that restores an earlier content.

\* A request is decided by a policy at least as new as the file it found
\* (sudixd.rs:65-67, server.rs:81-131).
FreshUnlessRaced == raced \/ ServedFresh

\* A file that cannot be loaded is refused as long as it stays so
\* (sudixd.rs:65-67, server.rs:533-538).
RefusedUnlessRaced == raced \/ BadFileRefused

\* The recorded hash is that of no later version than the one in force
\* (sudixd.rs:65-67, server.rs:90-119).
HashNotAheadUnlessRaced == raced \/ HashNotAhead

-----------------------------------------------------------------------------
(* What the documentation says and the code does not do. *)

\* "sudixd enroll  # add --force to regenerate (invalidates old devices)"
\* (README.md:166): no request is taken by a daemon that still accepts the
\* codes of a secret that another enrolment has replaced.
OldSecretInvalid ==
  [][\A c \in Conn : ServeOne(c) /\ approver \in Enrolment /\ secret \in Enrolment
        => approver = secret]_startupVars

=============================================================================
