---------------------------- MODULE StartupProofs ----------------------------
(***************************************************************************)
(* Proofs about module Startup, for any number of workers and enrolments.  *)
(*                                                                         *)
(* That the approver is the one the loaded file asked for rests on two     *)
(* things the code does not check: no reload can fall between the load of  *)
(* the file and the choice of the approver, because nobody is served yet;  *)
(* and a file that holds a secret holds that of an enrolment which is      *)
(* done, because a new one truncates it first.                             *)
(***************************************************************************)
EXTENDS Startup, ReloadProofs

BootInv ==
  /\ StartupTypeOK
  /\ OneReloader
  /\ ~Ready /\ daemon # "down" => current = booted
  /\ approver = "checked" => Method[history[booted]] = "totp"
  /\ secret \in Enrolment => enrol[secret] = "done"
  /\ ApproverAsLoaded

LEMMA BootInit == StartupInit => BootInv
<1> SUFFICES ASSUME StartupInit PROVE BootInv
  OBVIOUS
<1>1. ReloadTypeOK /\ OneReloader
  BY ReloadInitSafe DEF StartupInit, SafeInv
<1>2. Version \in Nat /\ daemon = "down" /\ \A c \in Conn : pc[c] = "idle"
  BY <1>1 DEF StartupInit, ReloadInit, ReloadTypeOK, Version
<1>3. secret \notin Enrolment /\ ~Ready
  BY StartupAssumption DEF StartupInit, Ready
<1>4. raced = FALSE /\ booted = 0 /\ approver = "none"
  BY DEF StartupInit
<1>5. raced \in BOOLEAN /\ (raced => daemon = "up")
  BY <1>4
<1>6. enrol \in [Enrolment -> {"none", "absent", "forced", "opened", "unlinked", "done", "failed"}]
  BY DEF StartupInit
<1>7. booted \in 0 .. Version /\ (booted = 0 <=> daemon = "down")
  BY <1>2, <1>4
<1>8. StartupTypeOK
  BY <1>1, <1>2, <1>3, <1>4, <1>5, <1>6, <1>7 DEF StartupInit, StartupTypeOK
<1> QED
  BY <1>1, <1>2, <1>3, <1>4, <1>8 DEF BootInv, ApproverAsLoaded

\* Every step of the startup is a step of the reload or leaves it alone.
LEMMA StartupStepReload ==
  StartupTypeOK /\ [StartupNext]_startupVars => [ReloadNext]_reloadVars
<1> SUFFICES ASSUME StartupTypeOK, [StartupNext]_startupVars PROVE [ReloadNext]_reloadVars
  OBVIOUS
<1>1. ASSUME NEW e \in Enrolment, EnrolCheck(e) \/ EnrolOpen(e) \/ EnrolWrite(e)
      PROVE  UNCHANGED reloadVars
  BY <1>1 DEF EnrolCheck, EnrolOpen, EnrolWrite
<1>2. CASE Tamper \/ ChooseAgent \/ UNCHANGED startupVars
  BY <1>2 DEF Tamper, ChooseAgent, startupVars
<1>3. CASE CheckSecret \/ ReadSecret
  <2>1. daemon = "up"
    BY <1>3 DEF CheckSecret, ReadSecret, Starting, StartupTypeOK
  <2> QED
    BY <1>3, <2>1 DEF CheckSecret, ReadSecret, Fatal, Crash, ReloadNext
<1>4. CASE BootLoad \/ BootHash \/ StartupCrash
  BY <1>4 DEF BootLoad, BootHash, StartupCrash, ReloadNext
<1>5. ASSUME NEW c \in Conn, ServeOne(c) \/ ReloadWork(c) \/ End(c) PROVE ReloadNext
  BY <1>5 DEF ServeOne, ReloadNext
<1>6. ASSUME NEW k \in Contents, Edit(k) PROVE ReloadNext
  BY <1>6 DEF ReloadNext
<1> QED
  BY <1>1, <1>2, <1>3, <1>4, <1>5, <1>6 DEF StartupNext

\* What happens while the daemon starts, and before, keeps its approver the one
\* that the loaded file asks for.
LEMMA BootStep == BootInv /\ [StartupNext]_startupVars => BootInv'
<1> SUFFICES ASSUME BootInv, [StartupNext]_startupVars PROVE BootInv'
  OBVIOUS
<1> USE StartupAssumption
<1>s. /\ ReloadTypeOK /\ ReloadTypeOK' /\ OneReloader'
  BY StartupStepReload, ReloadStepSafe DEF BootInv, StartupTypeOK, SafeInv
<1>t. /\ Version \in Nat /\ Version >= 1 /\ booted \in 0 .. Version
      /\ StartupTypeOK /\ ApproverAsLoaded
      /\ secret \in Enrolment => enrol[secret] = "done"
      /\ ~Ready /\ daemon # "down" => current = booted
      /\ approver = "checked" => Method[history[booted]] = "totp"
  BY <1>s DEF BootInv, StartupTypeOK, ReloadTypeOK, Version
<1>1. ASSUME NEW e \in Enrolment, EnrolCheck(e) PROVE BootInv'
  <2>1. enrol[e] = "none" /\ \E to \in {"absent", "forced", "failed"} : enrol' = [enrol EXCEPT ![e] = to]
    BY <1>1 DEF EnrolCheck, Step
  <2>2. UNCHANGED <<reloadVars, secret, private, approver, booted, raced>>
    BY <1>1 DEF EnrolCheck, bootVars
  <2> QED
    BY <1>s, <1>t, <2>1, <2>2
       DEF reloadVars, BootInv, StartupTypeOK, ApproverAsLoaded, Ready, Version
<1>2. ASSUME NEW e \in Enrolment, EnrolOpen(e) PROVE BootInv'
  <2>1. /\ enrol[e] \in {"absent", "forced"}
        /\ \E to \in {"opened", "failed"} : enrol' = [enrol EXCEPT ![e] = to]
        /\ secret' \in {TooShort, secret} /\ private' \in BOOLEAN
    BY <1>2, <1>t DEF EnrolOpen, Step, StartupTypeOK
  <2>2. UNCHANGED <<reloadVars, approver, booted, raced>>
    BY <1>2 DEF EnrolOpen, bootVars
  <2> QED
    BY <1>s, <1>t, <2>1, <2>2
       DEF reloadVars, BootInv, StartupTypeOK, ApproverAsLoaded, Ready, Version
<1>3. ASSUME NEW e \in Enrolment, EnrolWrite(e) PROVE BootInv'
  <2>1. /\ enrol[e] \in {"opened", "unlinked"}
        /\ \/ enrol' = [enrol EXCEPT ![e] = "done"] /\ secret' \in {e, secret}
           \/ enrol' = [enrol EXCEPT ![e] = "failed"] /\ secret' = secret
    BY <1>3 DEF EnrolWrite, Step
  <2>2. UNCHANGED <<reloadVars, private, approver, booted, raced>>
    BY <1>3 DEF EnrolWrite, bootVars
  <2> QED
    BY <1>s, <1>t, <2>1, <2>2
       DEF reloadVars, BootInv, StartupTypeOK, ApproverAsLoaded, Ready, Version
<1>4. CASE Tamper
  <2>1. secret' \in {Absent, secret} /\ private' \in BOOLEAN
    BY <1>4, <1>t DEF Tamper, StartupTypeOK
  <2>2. UNCHANGED <<reloadVars, approver, booted, raced>>
    BY <1>4 DEF Tamper, bootVars
  <2>3. enrol' \in {enrol, Unlinked}
    BY <1>4 DEF Tamper
  <2>4. /\ Unlinked \in [Enrolment -> {"none", "absent", "forced", "opened",
                                        "unlinked", "done", "failed"}]
        /\ \A e \in Enrolment : enrol[e] = "done" => Unlinked[e] = "done"
    BY <1>t DEF Unlinked, StartupTypeOK
  <2> QED
    BY <1>s, <1>t, <2>1, <2>2, <2>3, <2>4
       DEF reloadVars, BootInv, StartupTypeOK, ApproverAsLoaded, Ready, Version
<1>5. ASSUME ReloadCrash, approver' = "none", booted' = 0, raced' = FALSE,
             UNCHANGED secretVars
      PROVE  BootInv'
  <2>1. ~Ready'
    BY <1>5 DEF Ready
  <2>2. /\ \A c \in Conn : pc'[c] = "idle"
        /\ booted' \in 0 .. Version' /\ daemon' = "down"
    BY <1>5, <1>t DEF ReloadCrash, Version
  <2>3. raced' \in BOOLEAN /\ (raced' => daemon' = "up")
    BY <1>5
  <2>4. UNCHANGED <<secret, private, enrol>>
    BY <1>5 DEF secretVars
  <2>5. StartupTypeOK'
    BY <1>5, <1>s, <1>t, <2>2, <2>3, <2>4 DEF StartupTypeOK
  <2> QED
    BY <1>5, <1>s, <1>t, <2>1, <2>5 DEF ReloadCrash, secretVars, BootInv, ApproverAsLoaded
<1>6. CASE BootLoad
  <2>1. ~Ready /\ approver = "none" /\ UNCHANGED <<secretVars, approver, raced, history, pc>>
    BY <1>6, <1>t DEF BootLoad, StartLoad, workVars, StartupTypeOK, Ready
  <2>2. booted' = Version /\ current' = Version /\ daemon' = "loading" /\ daemon = "down"
    BY <1>6 DEF BootLoad, StartLoad
  <2>3. \A c \in Conn : pc'[c] = "idle"
    BY <1>s, <2>1, <2>2 DEF ReloadTypeOK
  <2> QED
    BY <1>s, <1>t, <2>1, <2>2, <2>3
       DEF secretVars, BootInv, StartupTypeOK, ApproverAsLoaded, Ready, Version
<1>7. CASE BootHash
  <2>1. /\ UNCHANGED <<history, current, pc, secretVars, approver, booted>>
        /\ daemon' = "up" /\ daemon = "loading" /\ raced' \in BOOLEAN
    BY <1>7 DEF BootHash, StartHash, workVars
  <2> QED
    BY <1>s, <1>t, <2>1
       DEF secretVars, bootVars, BootInv, StartupTypeOK, ApproverAsLoaded, Ready, Version
<1>8. CASE ChooseAgent
  <2>1. /\ daemon = "up" /\ approver = "none" /\ approver' = "agent"
        /\ Method[history[booted]] = "agent"
    BY <1>8, <1>t DEF ChooseAgent, Starting, Ready
  <2>2. UNCHANGED <<reloadVars, secretVars, booted, raced>>
    BY <1>8 DEF ChooseAgent
  <2> QED
    BY <1>s, <1>t, <2>1, <2>2
       DEF reloadVars, secretVars, BootInv, StartupTypeOK, ApproverAsLoaded, Ready, Version
<1>9. CASE CheckSecret
  <2>1. /\ daemon = "up" /\ approver = "none" /\ Method[history[booted]] = "totp"
    BY <1>9, <1>t DEF CheckSecret, Starting, Ready
  <2>2. CASE approver' = "checked" /\ UNCHANGED <<reloadVars, secretVars, booted, raced>>
    BY <1>s, <1>t, <2>1, <2>2
       DEF reloadVars, secretVars, BootInv, StartupTypeOK, ApproverAsLoaded, Ready, Version
  <2> QED
    BY <1>5, <1>9, <2>2 DEF CheckSecret, Fatal
<1>10. CASE ReadSecret
  <2>1. approver = "checked" /\ Method[history[booted]] = "totp"
    BY <1>10, <1>t DEF ReadSecret
  <2>2. CASE secret \in Enrolment /\ approver' = secret /\ UNCHANGED <<reloadVars, secretVars, booted, raced>>
    BY <1>s, <1>t, <2>1, <2>2
       DEF reloadVars, secretVars, BootInv, StartupTypeOK, ApproverAsLoaded, Ready, Version
  <2> QED
    BY <1>5, <1>10, <2>2 DEF ReadSecret, Fatal
<1>11. ASSUME Ready, daemon' = daemon, UNCHANGED <<history, secretVars, bootVars>>
       PROVE  BootInv'
  BY <1>11, <1>s, <1>t
     DEF secretVars, bootVars, BootInv, StartupTypeOK, ApproverAsLoaded, Ready, Version
<1>12. ASSUME NEW c \in Conn, ServeOne(c) \/ ((ReloadWork(c) \/ End(c)) /\ UNCHANGED <<secretVars, bootVars>>)
       PROVE  BootInv'
  <2>1. Ready
    BY <1>12, <1>t DEF ServeOne, StartupTypeOK, End, ReloadWork, ReadHash, HashFails, FastPath,
       TakeLock, Load, LoadFails, Swap, Publish, Snapshot, Goto
  <2>2. UNCHANGED <<history, daemon>>
    BY <1>12 DEF ServeOne, Begin, End, ReloadWork, ReadHash, HashFails, FastPath,
       TakeLock, Load, LoadFails, Swap, Publish, Snapshot
  <2> QED
    BY <1>11, <1>12, <2>1, <2>2 DEF ServeOne
<1>13. ASSUME NEW k \in Contents, Edit(k), UNCHANGED <<secretVars, bootVars>> PROVE BootInv'
  <2>1. /\ Version' = Version + 1
        /\ \A v \in 1 .. Version : history'[v] = history[v]
    BY <1>13, <1>s, EditHistory
  <2>2. UNCHANGED <<daemon, current, pc>>
    BY <1>13 DEF Edit, workVars
  <2>3. booted # 0 => history'[booted] = history[booted]
    BY <1>t, <2>1
  <2>4. approver # "none" => booted # 0
    BY <1>t DEF StartupTypeOK
  <2> QED
    BY <1>13, <1>s, <1>t, <2>1, <2>2, <2>3, <2>4
       DEF secretVars, bootVars, BootInv, StartupTypeOK, ApproverAsLoaded, Ready
<1>14. CASE UNCHANGED startupVars
  BY <1>14, <1>s, <1>t DEF startupVars, reloadVars, secretVars, bootVars, BootInv,
     StartupTypeOK, ApproverAsLoaded, Ready, Version
<1>15. CASE StartupCrash
  BY <1>5, <1>15 DEF StartupCrash, Crash
<1> QED
  BY <1>1, <1>2, <1>3, <1>4, <1>6, <1>7, <1>8, <1>9, <1>10, <1>12, <1>13, <1>14, <1>15
     DEF StartupNext

\* Through the startup, a crash at any point of it and an enrolment beside it,
\* nothing is served before the approver stands.
THEOREM StartupSafe == StartupSpec => []StartupTypeOK
<1>1. BootInv => StartupTypeOK
  BY DEF BootInv
<1> QED
  BY <1>1, BootInit, BootStep, PTL DEF StartupSpec

\* A daemon that serves asks the approver its file named when it was loaded: for
\* TOTP, with the secret of an enrolment that wrote it whole.
THEOREM StartupApprover == StartupSpec => [](StartupTypeOK /\ ApproverAsLoaded)
<1>1. BootInv => StartupTypeOK /\ ApproverAsLoaded
  BY DEF BootInv
<1> QED
  BY <1>1, BootInit, BootStep, PTL DEF StartupSpec

\* The daemon with its startup reloads as module Reload says; what is proved of
\* ReloadSpec holds of it.
THEOREM StartupImplementsReload == StartupSpec => ReloadSpec
<1>1. StartupInit => ReloadInit
  BY DEF StartupInit
<1>2. BootInv /\ [StartupNext]_startupVars => [ReloadNext]_reloadVars
  BY StartupStepReload DEF BootInv
<1> QED
  BY <1>1, <1>2, BootInit, BootStep, PTL DEF StartupSpec, ReloadSpec

-----------------------------------------------------------------------------
(* What an edit between the two reads of the startup can do, and no more. *)

\* The policy is in order except in a daemon that was started across an edit.
RaceInv ==
  /\ BootInv
  /\ OrderInv
  /\ raced \/ HashNotAhead

\* Every step keeps the recorded hash behind the policy, or is the one that
\* records the hash of a version that was not loaded.
LEMMA RaceStep == RaceInv /\ [StartupNext]_startupVars => RaceInv'
<1> SUFFICES ASSUME RaceInv, [StartupNext]_startupVars PROVE RaceInv'
  OBVIOUS
<1>1. BootInv' /\ [ReloadNext]_reloadVars
  BY BootStep, StartupStepReload DEF RaceInv, BootInv
<1>2. OrderInv'
  BY <1>1, ReloadStepOrder DEF RaceInv
<1>t. /\ StartupTypeOK /\ SafeInv /\ raced \in BOOLEAN /\ (raced => daemon = "up")
      /\ Version \in Nat /\ current \in 0 .. Version
      /\ current = 0 <=> daemon = "down"
      /\ Version >= 1
  BY DEF RaceInv, BootInv, StartupTypeOK, OrderInv, SafeInv, ReloadTypeOK, Version
<1>3. CASE ReloadNext /\ daemon = "up"
  <2>1. CASE daemon' = "up"
    <3>1. UNCHANGED raced
      BY <1>3, <2>1, <1>t
         DEF StartupNext, startupVars, EnrolCheck, EnrolOpen, EnrolWrite, Tamper, BootLoad,
             StartLoad, BootHash, StartHash, ChooseAgent, CheckSecret, ReadSecret, Fatal,
             StartupCrash, Crash, ReloadCrash, ServeOne, bootVars
    <3>2. HashNotAhead => HashNotAhead'
      BY <1>3, ReloadStepHash DEF RaceInv
    <3> QED
      BY <1>1, <1>2, <3>1, <3>2 DEF RaceInv
  <2>2. CASE daemon' # "up"
    <3>1. last' = NoHash
      BY <1>3, <2>2 DEF ReloadNext, Edit, StartLoad, StartHash, Crash, ReloadCrash, Begin,
         ReloadWork, ReadHash, HashFails, FastPath, TakeLock, Load, LoadFails, Swap, Publish,
         Snapshot, End
    <3> QED
      BY <1>1, <1>2, <3>1 DEF RaceInv, HashNotAhead
  <2> QED
    BY <2>1, <2>2
<1>4. CASE StartHash
  <2>1. raced' = (current # Version /\ last' # NoHash)
    BY <1>4, <1>t DEF StartHash, StartupNext, startupVars, reloadVars, EnrolCheck, EnrolOpen,
       EnrolWrite, Tamper, BootLoad, StartLoad, BootHash, ChooseAgent, CheckSecret, ReadSecret,
       Starting, Fatal, StartupCrash, Crash, ReloadCrash, ServeOne, Begin, Edit, End, ReloadWork,
       ReadHash, HashFails, FastPath, TakeLock, Load, LoadFails, Swap, Publish, Snapshot,
       Goto, SafeInv, ReloadTypeOK, BootInv, StartupTypeOK
  <2>2. last' \in {InFile, NoHash} /\ UNCHANGED <<history, current>>
    BY <1>4 DEF StartHash
  <2>3. current = Version \/ last' = NoHash => HashNotAhead'
    BY <1>t, <2>2 DEF HashNotAhead, InFile, Version
  <2> QED
    BY <1>1, <1>2, <2>1, <2>3 DEF RaceInv
<1>5. CASE ReloadNext /\ daemon # "up" /\ ~StartHash
  <2>1. (\E k \in Contents : Edit(k)) \/ StartLoad \/ Crash
    BY <1>5, <1>t DEF ReloadNext, Begin, ReloadWork, ReadHash, HashFails, FastPath, TakeLock,
       Load, LoadFails, Swap, Publish, Snapshot, Goto, End, SafeInv, ReloadTypeOK
  <2>2. HashNotAhead
    BY <1>5, <1>t DEF RaceInv
  <2>3. CASE Crash
    BY <1>1, <1>2, <2>3 DEF Crash, ReloadCrash, RaceInv, HashNotAhead
  <2>4. CASE StartLoad
    <3>1. last = NoHash /\ UNCHANGED last
      BY <1>t, <2>2, <2>4 DEF StartLoad, HashNotAhead
    <3> QED
      BY <1>1, <1>2, <3>1 DEF RaceInv, HashNotAhead
  <2>5. ASSUME NEW k \in Contents, Edit(k) PROVE RaceInv'
    <3>1. \A v \in 1 .. Version : history'[v] = history[v]
      BY <1>t, <2>5, EditHistory DEF SafeInv
    <3>2. UNCHANGED <<current, last>>
      BY <2>5 DEF Edit
    <3> QED
      BY <1>1, <1>2, <1>t, <2>2, <3>1, <3>2 DEF RaceInv, HashNotAhead
  <2> QED
    BY <2>1, <2>3, <2>4, <2>5
<1>6. CASE UNCHANGED reloadVars
  <2>1. HashNotAhead => HashNotAhead'
    BY <1>6 DEF reloadVars, HashNotAhead
  <2>2. UNCHANGED raced \/ HashNotAhead'
    BY <1>6, <1>t
       DEF reloadVars, StartupNext, startupVars, EnrolCheck, EnrolOpen, EnrolWrite, Tamper,
           BootLoad, StartLoad, BootHash, StartHash, ChooseAgent, CheckSecret, ReadSecret, Fatal,
           StartupCrash, Crash, ReloadCrash, ServeOne, bootVars, HashNotAhead
  <2> QED
    BY <1>1, <1>2, <2>1, <2>2 DEF RaceInv
<1> QED
  BY <1>1, <1>3, <1>4, <1>5, <1>6

LEMMA RaceInit == StartupInit => RaceInv
BY BootInit, ReloadInitOrder DEF StartupInit, ReloadInit, RaceInv, HashNotAhead

\* For any edits, reverts and crashes: only a daemon that was started across an
\* edit ever has a recorded hash ahead of its policy.
THEOREM StartupHash == StartupSpec => []HashNotAheadUnlessRaced
<1>1. RaceInv => HashNotAheadUnlessRaced
  BY DEF RaceInv, HashNotAheadUnlessRaced
<1> QED
  BY <1>1, RaceInit, RaceStep, PTL DEF StartupSpec

\* The loads are in order, too, except in such a daemon.
TidyInv ==
  /\ RaceInv
  /\ ValidInv
  /\ Distinct
  /\ raced \/ LoadedInOrder

LEMMA TidyStep ==
  ASSUME Reverts = FALSE
  PROVE  TidyInv /\ [StartupNext]_startupVars => TidyInv'
<1> SUFFICES ASSUME TidyInv, [StartupNext]_startupVars PROVE TidyInv'
  OBVIOUS
<1>1. RaceInv'
  BY RaceStep DEF TidyInv
<1>2. [ReloadNext]_reloadVars /\ ValidInv'
  BY StartupStepReload, ReloadStepValid DEF TidyInv, RaceInv, BootInv
<1>3. Distinct'
  BY <1>2, ReloadStepDistinct DEF TidyInv, RaceInv, OrderInv
<1>4. CASE ~raced' /\ ~raced
  <2>1. FreshInv /\ HashNotAhead'
    BY <1>1, <1>4 DEF TidyInv, RaceInv, OrderInv, FreshInv
  <2>2. FreshInv'
    BY <1>2, <2>1, ReloadStepFresh
  <2> QED
    BY <1>1, <1>2, <1>3, <2>2 DEF TidyInv, FreshInv
<1>5. CASE ~raced' /\ raced
  <2>1. daemon = "up"
    BY <1>5 DEF TidyInv, RaceInv, BootInv, StartupTypeOK
  <2>2. pc' = [c \in Conn |-> "idle"]
    BY <1>5, <2>1
       DEF StartupNext, startupVars, EnrolCheck, EnrolOpen, EnrolWrite, Tamper, BootLoad,
           StartLoad, BootHash, StartHash, ChooseAgent, CheckSecret, ReadSecret, Fatal,
           StartupCrash, Crash, ReloadCrash, ServeOne, bootVars
  <2>3. LoadedInOrder'
    BY <2>2 DEF LoadedInOrder
  <2> QED
    BY <1>1, <1>2, <1>3, <2>3 DEF TidyInv
<1>6. CASE raced'
  BY <1>1, <1>2, <1>3, <1>6 DEF TidyInv
<1> QED
  BY <1>4, <1>5, <1>6

\* So, when no edit restores an earlier content, a daemon that was not started
\* across an edit serves no policy older than the file a request found, and no
\* broken file.
THEOREM StartupFresh ==
  ASSUME Reverts = FALSE
  PROVE  StartupSpec => [](FreshUnlessRaced /\ RefusedUnlessRaced)
<1>1. TidyInv => FreshUnlessRaced /\ RefusedUnlessRaced
  <2> SUFFICES ASSUME TidyInv, ~raced PROVE ServedFresh /\ BadFileRefused
    BY DEF FreshUnlessRaced, RefusedUnlessRaced
  <2>1. FreshInv /\ ValidInv
    BY DEF TidyInv, RaceInv, OrderInv, FreshInv
  <2> QED
    BY <2>1, FreshIsClosed DEF FreshInv, LoadedInOrder, ServedFresh
<1>2. StartupInit => TidyInv
  BY RaceInit, ReloadInitFresh, ReloadInitSafe
     DEF StartupInit, ReloadInit, TidyInv, ValidInv, FreshInv
<1>3. TidyInv /\ [StartupNext]_startupVars => TidyInv'
  BY TidyStep
<1> QED
  BY <1>1, <1>2, <1>3, PTL DEF StartupSpec

=============================================================================
