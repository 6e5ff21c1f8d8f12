---------------------------- MODULE ReloadProofs ----------------------------
(***************************************************************************)
(* Proofs about module Reload.                                             *)
(*                                                                         *)
(* ReloadTypeOK and OneReloader are inductive together.  ServedFresh is    *)
(* not: that a worker on the fast path has a policy as new as its hash     *)
(* rests on what last_hash says about the policy in force (HashNotAhead),  *)
(* on a version being known by its content (Distinct) and on the order in  *)
(* which loads take effect (LoadedInOrder).                                *)
(***************************************************************************)
EXTENDS Reload, TLAPS

Distinct ==
  \A v, w \in 1 .. Version : history[v] = history[w] => v = w

LoadedInOrder ==
  \A c \in Conn :
    /\ pc[c] = "swap" => bundle[c] >= current /\ bundle[c] >= hashed[c]
    /\ pc[c] \in {"reset", "snap"} => current >= hashed[c]
    /\ pc[c] = "serve" => bundle[c] >= hashed[c]

SafeInv == ReloadTypeOK /\ OneReloader

ValidInv ==
  /\ SafeInv
  /\ current # 0 => history[current] \in Valid
  /\ \A c \in Conn :
       pc[c] \in {"swap", "reset", "serve"} => history[bundle[c]] \in Valid

FreshInv ==
  /\ SafeInv
  /\ Distinct
  /\ HashNotAhead
  /\ LoadedInOrder

-----------------------------------------------------------------------------

\* The initial states are well typed and nobody holds the lock.
LEMMA ReloadInitSafe == ReloadInit => SafeInv
BY ReloadAssumption
   DEF ReloadInit, SafeInv, ReloadTypeOK, OneReloader, Version, ReloadPC, Locked

\* A further version leaves the earlier ones as they were.
LEMMA EditHistory ==
  ASSUME ReloadTypeOK, NEW k \in Contents, Edit(k)
  PROVE  /\ history' \in Seq(Contents) /\ history' # <<>>
         /\ Version' = Version + 1 /\ Version \in Nat
         /\ \A v \in 1 .. Version : history'[v] = history[v]
         /\ history'[Version'] = k
BY DEF ReloadTypeOK, Edit, Version

\* Every step keeps the types and the lock exclusive.
LEMMA ReloadStepSafe == SafeInv /\ [ReloadNext]_reloadVars => SafeInv'
<1> SUFFICES ASSUME SafeInv, [ReloadNext]_reloadVars PROVE SafeInv'
  OBVIOUS
<1> USE ReloadAssumption
<1>v. Version \in Nat /\ Version >= 1 /\ InFile \in Contents
      /\ \A v \in 1 .. Version : history[v] \in Contents
  BY DEF SafeInv, ReloadTypeOK, Version, InFile
<1>1. ASSUME NEW k \in Contents, Edit(k) PROVE SafeInv'
  <2>1. /\ history' \in Seq(Contents) /\ history' # <<>>
        /\ Version' = Version + 1
    BY <1>1, EditHistory DEF SafeInv
  <2>2. UNCHANGED <<daemon, current, last, owner, pc, hashed, bundle>>
    BY <1>1 DEF Edit, workVars
  <2> QED
    BY <1>v, <2>1, <2>2 DEF SafeInv, ReloadTypeOK, OneReloader
<1>2. CASE StartLoad
  BY <1>2, <1>v DEF StartLoad, SafeInv, ReloadTypeOK, OneReloader, Version, workVars
<1>3. CASE StartHash
  BY <1>3, <1>v DEF StartHash, SafeInv, ReloadTypeOK, OneReloader, Version, workVars
<1>4. CASE Crash
  BY <1>4, <1>v DEF Crash, ReloadCrash, SafeInv, ReloadTypeOK, OneReloader,
                    Version, ReloadPC, Locked
<1>5. ASSUME NEW c \in Conn, Begin(c) PROVE SafeInv'
  BY <1>5, <1>v DEF Begin, Goto, SafeInv, ReloadTypeOK, OneReloader, Version,
                    ReloadPC, Locked
<1>6. ASSUME NEW c \in Conn, ReadHash(c) PROVE SafeInv'
  BY <1>6, <1>v DEF ReadHash, Goto, SafeInv, ReloadTypeOK, OneReloader, Version,
                    ReloadPC, Locked
<1>7. ASSUME NEW c \in Conn, HashFails(c) PROVE SafeInv'
  BY <1>7, <1>v DEF HashFails, Goto, SafeInv, ReloadTypeOK, OneReloader, Version,
                    ReloadPC, Locked
<1>8. ASSUME NEW c \in Conn, FastPath(c) PROVE SafeInv'
  BY <1>8, <1>v DEF FastPath, Goto, SafeInv, ReloadTypeOK, OneReloader, Version,
                    ReloadPC, Locked
<1>9. ASSUME NEW c \in Conn, TakeLock(c) PROVE SafeInv'
  BY <1>9, <1>v DEF TakeLock, Goto, SafeInv, ReloadTypeOK, OneReloader, Version,
                    ReloadPC, Locked
<1>10. ASSUME NEW c \in Conn, Load(c) PROVE SafeInv'
  BY <1>10, <1>v DEF Load, Goto, SafeInv, ReloadTypeOK, OneReloader, Version,
                     ReloadPC, Locked
<1>11. ASSUME NEW c \in Conn, LoadFails(c) PROVE SafeInv'
  BY <1>11, <1>v DEF LoadFails, Goto, SafeInv, ReloadTypeOK, OneReloader, Version,
                     ReloadPC, Locked
<1>12. ASSUME NEW c \in Conn, Swap(c) PROVE SafeInv'
  BY <1>12, <1>v DEF Swap, Goto, SafeInv, ReloadTypeOK, OneReloader, Version,
                     ReloadPC, Locked
<1>13. ASSUME NEW c \in Conn, Publish(c) PROVE SafeInv'
  <2>0. pc[c] = "reset" /\ hashed[c] \in 0 .. Version /\ hashed[c] # 0
    BY <1>13 DEF Publish, Goto, SafeInv, ReloadTypeOK
  <2>1. history[hashed[c]] \in Contents
    BY <1>v, <2>0
  <2> QED
    BY <1>13, <1>v, <2>1 DEF Publish, Goto, SafeInv, ReloadTypeOK, OneReloader,
                             Version, ReloadPC, Locked
<1>14. ASSUME NEW c \in Conn, Snapshot(c) PROVE SafeInv'
  BY <1>14, <1>v DEF Snapshot, Goto, SafeInv, ReloadTypeOK, OneReloader, Version,
                     ReloadPC, Locked
<1>15. ASSUME NEW c \in Conn, End(c) PROVE SafeInv'
  BY <1>15, <1>v DEF End, SafeInv, ReloadTypeOK, OneReloader, Version,
                     ReloadPC, Locked
<1>16. CASE UNCHANGED reloadVars
  BY <1>16, <1>v DEF reloadVars, SafeInv, ReloadTypeOK, OneReloader, Version
<1> QED
  BY <1>1, <1>2, <1>3, <1>4, <1>5, <1>6, <1>7, <1>8, <1>9, <1>10, <1>11, <1>12,
     <1>13, <1>14, <1>15, <1>16 DEF ReloadNext, ReloadWork

\* The types are kept, and the reload is mutually exclusive, for any number of
\* workers, contents and edits.
THEOREM ReloadSafe == ReloadSpec => [](ReloadTypeOK /\ OneReloader)
<1>1. SafeInv => ReloadTypeOK /\ OneReloader
  BY DEF SafeInv
<1> QED
  BY <1>1, ReloadInitSafe, ReloadStepSafe, PTL DEF ReloadSpec


-----------------------------------------------------------------------------

LEMMA ReloadInitFresh == ReloadInit => FreshInv
BY ReloadInitSafe
   DEF ReloadInit, FreshInv, Distinct, HashNotAhead, LoadedInOrder, Version

\* When no edit restores an earlier content, a content identifies its version.
LEMMA ReloadStepDistinct ==
  ASSUME Reverts = FALSE, SafeInv, Distinct, [ReloadNext]_reloadVars
  PROVE  Distinct'
<1>1. ASSUME NEW k \in Contents, Edit(k) PROVE Distinct'
  <2>1. /\ Version' = Version + 1 /\ Version \in Nat /\ history'[Version'] = k
        /\ \A v \in 1 .. Version : history'[v] = history[v]
    BY <1>1, EditHistory DEF SafeInv
  <2>2. \A v \in 1 .. Version : history[v] # k
    BY <1>1 DEF Edit
  <2> QED
    BY <2>1, <2>2 DEF Distinct
<1>2. CASE UNCHANGED history
  BY <1>2 DEF Distinct, Version
<1> QED
  BY <1>1, <1>2 DEF ReloadNext, StartLoad, StartHash, Crash, ReloadCrash, Begin, End,
     ReloadWork, ReadHash, HashFails, FastPath, TakeLock, Load, LoadFails, Swap, Publish,
     Snapshot, reloadVars

\* When the administrator restores no earlier content, every step keeps the loads
\* in order, unless the startup records the hash of a version it did not load.
LEMMA ReloadStepFresh ==
  ASSUME Reverts = FALSE, FreshInv, [ReloadNext]_reloadVars,
         StartHash => HashNotAhead'
  PROVE  FreshInv'
<1>s. SafeInv /\ SafeInv'
  BY ReloadStepSafe DEF FreshInv
<1>t. /\ Version \in Nat /\ Version >= 1 /\ current \in 0 .. Version
      /\ hashed \in [Conn -> 0 .. Version] /\ bundle \in [Conn -> 0 .. Version]
      /\ pc \in [Conn -> ReloadPC]
      /\ \A c \in Conn : /\ pc[c] # "idle" => daemon = "up"
                         /\ pc[c] = "swap" => bundle[c] # 0
                         /\ pc[c] \in {"check", "load", "swap", "reset"} => hashed[c] # 0
  <2>1. Version \in Nat /\ Version >= 1
    BY <1>s DEF SafeInv, ReloadTypeOK, Version
  <2> QED
    BY <1>s, <2>1 DEF SafeInv, ReloadTypeOK
<1>i. Distinct /\ HashNotAhead /\ LoadedInOrder
  BY DEF FreshInv
<1>1. ASSUME NEW k \in Contents, Edit(k) PROVE FreshInv'
  <2>1. \A v \in 1 .. Version : history'[v] = history[v]
    BY <1>1, <1>s, EditHistory DEF SafeInv
  <2>3. UNCHANGED <<daemon, current, last, owner, pc, hashed, bundle>>
    BY <1>1 DEF Edit, workVars
  <2>4. Distinct'
    BY <1>s, <1>i, ReloadStepDistinct
  <2>5. HashNotAhead'
    BY <1>t, <1>i, <2>1, <2>3 DEF HashNotAhead
  <2>6. LoadedInOrder'
    BY <1>i, <2>3 DEF LoadedInOrder
  <2> QED
    BY <1>s, <2>3, <2>4, <2>5, <2>6 DEF FreshInv
<1>2. CASE StartLoad
  <2>1. last = NoHash
    BY <1>2, <1>t, <1>s, <1>i DEF StartLoad, HashNotAhead, SafeInv, ReloadTypeOK
  <2>2. \A c \in Conn : pc[c] = "idle"
    BY <1>2, <1>t DEF StartLoad
  <2> QED
    BY <1>2, <1>s, <1>t, <1>i, <2>1, <2>2
       DEF StartLoad, FreshInv, Distinct, HashNotAhead, LoadedInOrder, Version, workVars
<1>3. CASE StartHash
  BY <1>3, <1>s, <1>t, <1>i
     DEF StartHash, FreshInv, Distinct, LoadedInOrder, Version, workVars
<1>4. CASE Crash
  BY <1>4, <1>s, <1>t, <1>i
     DEF Crash, ReloadCrash, FreshInv, Distinct, HashNotAhead, LoadedInOrder, Version
<1>5. ASSUME NEW c \in Conn, Begin(c) PROVE FreshInv'
  BY <1>5, <1>s, <1>t, <1>i
     DEF Begin, Goto, FreshInv, Distinct, HashNotAhead, LoadedInOrder, Version
<1>6. ASSUME NEW c \in Conn, ReadHash(c) PROVE FreshInv'
  BY <1>6, <1>s, <1>t, <1>i
     DEF ReadHash, Goto, FreshInv, Distinct, HashNotAhead, LoadedInOrder, Version
<1>7. ASSUME NEW c \in Conn, HashFails(c) PROVE FreshInv'
  BY <1>7, <1>s, <1>t, <1>i
     DEF HashFails, Goto, FreshInv, Distinct, HashNotAhead, LoadedInOrder, Version
<1>8. ASSUME NEW c \in Conn, FastPath(c) PROVE FreshInv'
  <2>1. /\ pc[c] = "check" /\ hashed[c] \in 1 .. Version
        /\ last = history[hashed[c]] /\ last # NoHash
    BY <1>8, <1>s, <1>t, ReloadAssumption
       DEF FastPath, Goto, SafeInv, ReloadTypeOK, Version
  <2>2. current >= hashed[c]
    <3>1. PICK v \in 1 .. current : history[v] = last
      BY <1>i, <2>1 DEF HashNotAhead
    <3>2. v = hashed[c]
      BY <1>t, <1>i, <2>1, <3>1 DEF Distinct
    <3> QED
      BY <1>t, <3>1, <3>2
  <2> QED
    BY <1>8, <1>s, <1>t, <1>i, <2>2
       DEF FastPath, Goto, FreshInv, Distinct, HashNotAhead, LoadedInOrder, Version
<1>9. ASSUME NEW c \in Conn, TakeLock(c) PROVE FreshInv'
  BY <1>9, <1>s, <1>t, <1>i
     DEF TakeLock, Goto, FreshInv, Distinct, HashNotAhead, LoadedInOrder, Version
<1>10. ASSUME NEW c \in Conn, Load(c) PROVE FreshInv'
  BY <1>10, <1>s, <1>t, <1>i
     DEF Load, Goto, FreshInv, Distinct, HashNotAhead, LoadedInOrder, Version
<1>11. ASSUME NEW c \in Conn, LoadFails(c) PROVE FreshInv'
  BY <1>11, <1>s, <1>t, <1>i
     DEF LoadFails, Goto, FreshInv, Distinct, HashNotAhead, LoadedInOrder, Version
<1>12. ASSUME NEW c \in Conn, Swap(c) PROVE FreshInv'
  <2>1. /\ pc[c] = "swap" /\ bundle[c] >= current /\ bundle[c] >= hashed[c]
        /\ current' = bundle[c] /\ pc' = [pc EXCEPT ![c] = "reset"]
        /\ UNCHANGED <<history, daemon, last, owner, hashed, bundle>>
    BY <1>12, <1>i DEF Swap, Goto, LoadedInOrder
  <2>2. HashNotAhead'
    BY <1>t, <1>i, <2>1 DEF HashNotAhead
  <2>3. \A d \in Conn \ {c} : pc[d] # "swap" /\ pc'[d] = pc[d]
    BY <1>s, <1>t, <2>1 DEF SafeInv, OneReloader, Locked
  <2>4. LoadedInOrder'
    BY <1>t, <1>i, <2>1, <2>3 DEF LoadedInOrder
  <2> QED
    BY <1>s, <1>i, <2>1, <2>2, <2>4 DEF FreshInv, Distinct, Version
<1>13. ASSUME NEW c \in Conn, Publish(c) PROVE FreshInv'
  <2>1. /\ pc[c] = "reset" /\ hashed[c] \in 1 .. current
        /\ last' = history[hashed[c]]
    BY <1>13, <1>t, <1>i DEF Publish, Goto, LoadedInOrder
  <2> QED
    BY <1>13, <1>s, <1>t, <1>i, <2>1
       DEF Publish, Goto, FreshInv, Distinct, HashNotAhead, LoadedInOrder, Version
<1>14. ASSUME NEW c \in Conn, Snapshot(c) PROVE FreshInv'
  BY <1>14, <1>s, <1>t, <1>i
     DEF Snapshot, Goto, FreshInv, Distinct, HashNotAhead, LoadedInOrder, Version
<1>15. ASSUME NEW c \in Conn, End(c) PROVE FreshInv'
  BY <1>15, <1>s, <1>t, <1>i
     DEF End, FreshInv, Distinct, HashNotAhead, LoadedInOrder, Version
<1>16. CASE UNCHANGED reloadVars
  BY <1>16, <1>s, <1>i
     DEF reloadVars, FreshInv, Distinct, HashNotAhead, LoadedInOrder, Version
<1> QED
  BY <1>1, <1>2, <1>3, <1>4, <1>5, <1>6, <1>7, <1>8, <1>9, <1>10, <1>11, <1>12,
     <1>13, <1>14, <1>15, <1>16
     DEF ReloadNext, ReloadWork

\* Only what has been loaded is in force, or handed to a worker.
LEMMA ReloadStepValid == ValidInv /\ [ReloadNext]_reloadVars => ValidInv'
<1> SUFFICES ASSUME ValidInv, [ReloadNext]_reloadVars PROVE ValidInv'
  OBVIOUS
<1>s. SafeInv /\ SafeInv'
  BY ReloadStepSafe DEF ValidInv
<1>t. /\ Version \in Nat /\ Version >= 1 /\ current \in 0 .. Version
      /\ bundle \in [Conn -> 0 .. Version] /\ pc \in [Conn -> ReloadPC]
      /\ daemon = "up" => current # 0
      /\ \A c \in Conn : /\ pc[c] # "idle" => daemon = "up"
                         /\ pc[c] \in {"swap", "reset", "serve"} => bundle[c] # 0
  BY <1>s DEF SafeInv, ReloadTypeOK, Version
<1>1. ASSUME NEW k \in Contents, Edit(k) PROVE ValidInv'
  <2>1. \A v \in 1 .. Version : history'[v] = history[v]
    BY <1>1, <1>s, EditHistory DEF SafeInv
  <2>2. UNCHANGED <<daemon, current, pc, bundle>>
    BY <1>1 DEF Edit, workVars
  <2> QED
    BY <1>s, <1>t, <2>1, <2>2 DEF ValidInv
<1>2. CASE StartLoad \/ StartHash \/ Crash
  BY <1>2, <1>s, <1>t
     DEF StartLoad, StartHash, Crash, ReloadCrash, ValidInv, Version, InFile, workVars
<1>3. ASSUME NEW c \in Conn, Begin(c) \/ End(c) PROVE ValidInv'
  BY <1>3, <1>s, <1>t DEF Begin, End, Goto, ValidInv
<1>4. ASSUME NEW c \in Conn, ReadHash(c) \/ HashFails(c) \/ FastPath(c) \/ TakeLock(c)
      PROVE  ValidInv'
  BY <1>4, <1>s, <1>t DEF ReadHash, HashFails, FastPath, TakeLock, Goto, ValidInv
<1>5. ASSUME NEW c \in Conn, Load(c) \/ LoadFails(c) PROVE ValidInv'
  BY <1>5, <1>s, <1>t DEF Load, LoadFails, Goto, ValidInv, InFile
<1>6. ASSUME NEW c \in Conn, Swap(c) \/ Publish(c) \/ Snapshot(c) PROVE ValidInv'
  BY <1>6, <1>s, <1>t DEF Swap, Publish, Snapshot, Goto, ValidInv
<1>7. CASE UNCHANGED reloadVars
  BY <1>7, <1>s DEF reloadVars, ValidInv
<1> QED
  BY <1>1, <1>2, <1>3, <1>4, <1>5, <1>6, <1>7 DEF ReloadNext, ReloadWork

-----------------------------------------------------------------------------
(* What holds whatever the administrator edits, and when. *)

\* A load that is about to take effect, or has, is not older than the policy it
\* replaces and than the hash it is filed under: both were there before it.
OrderInv ==
  /\ SafeInv
  /\ \A c \in Conn :
       /\ pc[c] = "swap" => bundle[c] >= current /\ bundle[c] >= hashed[c]
       /\ pc[c] = "reset" => current >= hashed[c]

\* The lock keeps the loads apart, so each of them sees the file after the last.
LEMMA ReloadStepOrder == OrderInv /\ [ReloadNext]_reloadVars => OrderInv'
<1> SUFFICES ASSUME OrderInv, [ReloadNext]_reloadVars PROVE OrderInv'
  OBVIOUS
<1>s. SafeInv /\ SafeInv'
  BY ReloadStepSafe DEF OrderInv
<1>t. /\ Version \in Nat /\ current \in 0 .. Version
      /\ hashed \in [Conn -> 0 .. Version] /\ bundle \in [Conn -> 0 .. Version]
      /\ pc \in [Conn -> ReloadPC]
      /\ \A c \in Conn : pc[c] # "idle" => daemon = "up"
  BY <1>s DEF SafeInv, ReloadTypeOK, Version
<1>1. CASE (\E k \in Contents : Edit(k)) \/ UNCHANGED reloadVars
  BY <1>1, <1>s DEF Edit, workVars, reloadVars, OrderInv
<1>2. CASE StartLoad \/ StartHash \/ Crash
  BY <1>2, <1>s, <1>t DEF StartLoad, StartHash, Crash, ReloadCrash, workVars, OrderInv
<1>3. ASSUME NEW c \in Conn, Begin(c) \/ End(c) \/ ReadHash(c) \/ HashFails(c) \/ FastPath(c)
      PROVE  OrderInv'
  BY <1>3, <1>s, <1>t DEF Begin, End, ReadHash, HashFails, FastPath, Goto, OrderInv
<1>4. ASSUME NEW c \in Conn, TakeLock(c) \/ LoadFails(c) \/ Publish(c) \/ Snapshot(c)
      PROVE  OrderInv'
  BY <1>4, <1>s, <1>t DEF TakeLock, LoadFails, Publish, Snapshot, Goto, OrderInv
<1>5. ASSUME NEW c \in Conn, Load(c) PROVE OrderInv'
  BY <1>5, <1>s, <1>t DEF Load, Goto, OrderInv
<1>6. ASSUME NEW c \in Conn, Swap(c) PROVE OrderInv'
  <2>1. \A d \in Conn \ {c} : pc[d] \notin {"swap", "reset"} /\ pc'[d] = pc[d]
    BY <1>6, <1>s, <1>t DEF Swap, Goto, SafeInv, OneReloader, Locked
  <2>2. pc'[c] = "reset" /\ current' >= hashed'[c]
    BY <1>6, <1>t DEF Swap, Goto, OrderInv
  <2> QED
    BY <1>s, <2>1, <2>2 DEF OrderInv
<1> QED
  BY <1>1, <1>2, <1>3, <1>4, <1>5, <1>6 DEF ReloadNext, ReloadWork

LEMMA ReloadInitOrder == ReloadInit => OrderInv
BY ReloadInitSafe DEF ReloadInit, OrderInv

\* The policy in force never goes back to an earlier version of the file, even
\* when an edit restores old contents or falls into the startup.
THEOREM ReloadMonotone == ReloadSpec => NeverBackwards
<1>1. OrderInv /\ [ReloadNext]_reloadVars
        => [current' >= current \/ daemon' = "down"]_reloadVars
  <2> SUFFICES ASSUME OrderInv, ReloadNext
               PROVE  current' >= current \/ daemon' = "down"
    OBVIOUS
  <2>1. current \in Nat
    BY DEF OrderInv, SafeInv, ReloadTypeOK, Version
  <2>2. ASSUME NEW c \in Conn, ReloadWork(c) PROVE current' >= current
    BY <2>1, <2>2
       DEF ReloadWork, ReadHash, HashFails, FastPath, TakeLock, Load, LoadFails,
           Swap, Publish, Snapshot, Goto, OrderInv
  <2>3. CASE StartLoad
    BY <2>1, <2>3 DEF StartLoad, OrderInv, SafeInv, ReloadTypeOK, Version
  <2> QED
    BY <2>1, <2>2, <2>3
       DEF ReloadNext, Edit, StartHash, Crash, ReloadCrash, Begin, End
<1> QED
  BY <1>1, ReloadInitOrder, ReloadStepOrder, PTL DEF ReloadSpec, NeverBackwards

\* While the daemon runs no step puts the recorded hash ahead of the policy, and
\* a step that changes the hash leaves it behind.
LEMMA ReloadStepHash ==
  ASSUME OrderInv, ReloadNext, daemon = "up", HashNotAhead \/ last' # last
  PROVE  HashNotAhead'
<1>t. SafeInv /\ Version \in Nat /\ current \in 0 .. Version
  BY DEF OrderInv, SafeInv, ReloadTypeOK, Version
<1>1. ASSUME NEW k \in Contents, Edit(k) PROVE HashNotAhead'
  <2>1. \A v \in 1 .. Version : history'[v] = history[v]
    BY <1>t, <1>1, EditHistory DEF SafeInv
  <2>2. HashNotAhead /\ UNCHANGED <<current, last>>
    BY <1>1 DEF Edit
  <2> QED
    BY <1>t, <2>1, <2>2 DEF HashNotAhead
<1>2. CASE Crash
  BY <1>2 DEF Crash, ReloadCrash, HashNotAhead
<1>3. ASSUME NEW c \in Conn, Swap(c) PROVE HashNotAhead'
  <2>1. bundle[c] \in 0 .. Version /\ bundle[c] >= current
    BY <1>t, <1>3 DEF Swap, Goto, OrderInv, SafeInv, ReloadTypeOK
  <2>2. 1 .. current \subseteq 1 .. bundle[c]
    BY <1>t, <2>1
  <2> QED
    BY <1>3, <2>2 DEF Swap, HashNotAhead
<1>4. ASSUME NEW c \in Conn, Publish(c) PROVE HashNotAhead'
  <2>0. pc[c] = "reset" /\ current >= hashed[c]
    BY <1>4 DEF Publish, Goto, OrderInv
  <2>1. hashed[c] \in 0 .. Version /\ hashed[c] # 0
    BY <1>t, <2>0 DEF SafeInv, ReloadTypeOK
  <2>2. hashed[c] \in 1 .. current
    BY <1>t, <2>0, <2>1
  <2> QED
    BY <1>4, <2>2 DEF Publish, HashNotAhead
<1>5. ASSUME NEW c \in Conn,
             \/ Begin(c) \/ End(c) \/ ReadHash(c) \/ HashFails(c) \/ FastPath(c)
             \/ TakeLock(c) \/ Load(c) \/ LoadFails(c) \/ Snapshot(c)
      PROVE  HashNotAhead'
  BY <1>5 DEF Begin, End, ReadHash, HashFails, FastPath, TakeLock, Load, LoadFails,
     Snapshot, HashNotAhead
<1>6. ~StartLoad /\ ~StartHash
  BY DEF StartLoad, StartHash
<1> QED
  BY <1>1, <1>2, <1>3, <1>4, <1>5, <1>6 DEF ReloadNext, ReloadWork

\* The recorded hash can be ahead of the policy only since the startup, and a
\* reload that changes it ends that.
THEOREM ReloadHeals == ReloadSpec => StartupRaceHeals
<1>1. OrderInv /\ [ReloadNext]_reloadVars
        => [daemon = "up" /\ (HashNotAhead \/ last' # last) => HashNotAhead']_reloadVars
  BY ReloadStepHash
<1> QED
  BY <1>1, ReloadInitOrder, ReloadStepOrder, PTL DEF ReloadSpec, StartupRaceHeals

\* While the daemon starts, the policy in force is that of the file.
StartInv ==
  /\ OrderInv
  /\ HashNotAhead
  /\ daemon = "loading" => current = Version

LEMMA ReloadInitStart == ReloadInit => StartInv
BY ReloadInitOrder DEF ReloadInit, StartInv, HashNotAhead

\* When no edit falls into the startup, the hash is never ahead: whatever the
\* administrator restores afterwards.
LEMMA ReloadStepStart ==
  ASSUME EditsAtStartup = FALSE, StartInv, [ReloadNext]_reloadVars
  PROVE  StartInv'
<1>1. OrderInv'
  BY ReloadStepOrder DEF StartInv
<1>t. /\ SafeInv /\ Version \in Nat /\ Version >= 1 /\ current \in 0 .. Version
      /\ current = 0 <=> daemon = "down"
      /\ \A c \in Conn : pc[c] # "idle" => daemon = "up"
  BY DEF StartInv, OrderInv, SafeInv, ReloadTypeOK, Version
<1>2. CASE UNCHANGED reloadVars
  BY <1>1, <1>2 DEF StartInv, HashNotAhead, reloadVars, Version
<1>3. CASE ReloadNext /\ daemon = "up"
  <2>1. HashNotAhead'
    BY <1>3, ReloadStepHash DEF StartInv
  <2>2. daemon' # "loading"
    BY <1>3 DEF ReloadNext, Edit, StartLoad, StartHash, Crash, ReloadCrash, Begin, ReloadWork,
       ReadHash, HashFails, FastPath, TakeLock, Load, LoadFails, Swap, Publish, Snapshot, End
  <2> QED
    BY <1>1, <2>1, <2>2 DEF StartInv
<1>4. CASE ReloadNext /\ daemon # "up"
  <2>1. (\E k \in Contents : Edit(k)) \/ StartLoad \/ StartHash \/ Crash
    BY <1>4, <1>t DEF ReloadNext, Begin, ReloadWork, ReadHash, HashFails, FastPath, TakeLock,
       Load, LoadFails, Swap, Publish, Snapshot, Goto, End
  <2>2. CASE Crash
    BY <1>1, <2>2 DEF Crash, ReloadCrash, StartInv, HashNotAhead
  <2>3. CASE StartLoad
    <3>1. /\ last = NoHash /\ UNCHANGED <<last, history>>
          /\ current' = Version
      BY <1>t, <2>3 DEF StartLoad, StartInv, HashNotAhead
    <3> QED
      BY <1>1, <3>1 DEF StartInv, HashNotAhead, Version
  <2>4. CASE StartHash
    BY <1>1, <1>t, <2>4 DEF StartHash, StartInv, HashNotAhead, InFile, Version
  <2>5. ASSUME NEW k \in Contents, Edit(k) PROVE StartInv'
    <3>1. daemon = "down" /\ UNCHANGED <<daemon, current, last>>
      BY <1>4, <1>t, <2>5 DEF Edit, SafeInv, ReloadTypeOK
    <3>2. last = NoHash
      BY <1>t, <3>1 DEF StartInv, HashNotAhead
    <3> QED
      BY <1>1, <3>1, <3>2 DEF StartInv, HashNotAhead
  <2> QED
    BY <2>1, <2>2, <2>3, <2>4, <2>5
<1> QED
  BY <1>2, <1>3, <1>4

\* The hash recorded with a load is never that of a later version than the one
\* loaded, also when edits restore earlier contents: only an edit between the
\* two reads of the startup can put it ahead.
THEOREM ReloadHashNotAhead ==
  ASSUME EditsAtStartup = FALSE
  PROVE  ReloadSpec => []HashNotAhead
<1>1. StartInv /\ [ReloadNext]_reloadVars => StartInv'
  BY ReloadStepStart
<1>2. StartInv => HashNotAhead
  BY DEF StartInv
<1> QED
  BY <1>1, <1>2, ReloadInitStart, PTL DEF ReloadSpec

\* A request is never decided by a policy older than the file its worker found,
\* whatever other workers reload meanwhile and however stale their hashes are.
THEOREM ReloadFresh ==
  ASSUME Reverts = FALSE, EditsAtStartup = FALSE
  PROVE  ReloadSpec => [](ServedFresh /\ HashNotAhead)
<1>1. FreshInv => ServedFresh /\ HashNotAhead
  BY DEF FreshInv, LoadedInOrder, ServedFresh
<1>2. ReloadInit => FreshInv /\ StartInv
  BY ReloadInitFresh, ReloadInitStart
<1>3. FreshInv /\ StartInv /\ [ReloadNext]_reloadVars => FreshInv' /\ StartInv'
  BY ReloadStepFresh, ReloadStepStart DEF StartInv
<1> QED
  BY <1>1, <1>2, <1>3, PTL DEF ReloadSpec

\* What is in force was loaded, so a file that cannot be loaded is not served.
LEMMA FreshIsClosed == FreshInv /\ ValidInv => BadFileRefused
BY DEF FreshInv, SafeInv, ReloadTypeOK, LoadedInOrder, ValidInv, BadFileRefused,
       InFile, Version

\* A request whose worker found a file that cannot be loaded is refused as long
\* as the file stays so.
THEOREM ReloadFailsClosed ==
  ASSUME Reverts = FALSE, EditsAtStartup = FALSE
  PROVE  ReloadSpec => []BadFileRefused
<1>1. ReloadInit => FreshInv /\ ValidInv /\ StartInv
  BY ReloadInitFresh, ReloadInitSafe, ReloadInitStart DEF ReloadInit, ValidInv
<1>2. FreshInv /\ ValidInv /\ StartInv /\ [ReloadNext]_reloadVars
        => FreshInv' /\ ValidInv' /\ StartInv'
  BY ReloadStepFresh, ReloadStepValid, ReloadStepStart DEF StartInv
<1> QED
  BY <1>1, <1>2, FreshIsClosed, PTL DEF ReloadSpec

=============================================================================
