------------------------------ MODULE Scoping -------------------------------
(***************************************************************************)
(* The approval state shared by all connections (scoping.rs): a cache of   *)
(* human approvals and, per rule, the window of recent executions the rate *)
(* limit is counted in.  The operators are the functions the worker calls, *)
(* each one a critical section of the state mutex; the `now` they take is  *)
(* the Instant the code reads before it locks.                             *)
(*                                                                         *)
(* A rule index is a member of Rules; a scope is [ttl, rate], both 0 for a *)
(* rule the configuration gives no knobs.                                  *)
(***************************************************************************)
EXTENDS Integers, Sequences, FiniteSets

CONSTANTS Rules,     \* rule indices of the allow list
          Argv,      \* requested commands, as exact token lists
          Window     \* the rate window, 60 seconds in the code

ASSUME ScopingAssumption == Window \in Nat

Never == -1          \* no entry in the cache for this key

Scope         == [ttl : Nat, rate : Nat]
ApprovalState == [cache : [Rules \X Argv -> Nat \cup {Never}],
                  rate  : [Rules -> Seq(Nat)]]

\* ApprovalState::new
EmptyState == [cache |-> [key \in Rules \X Argv |-> Never],
               rate  |-> [r \in Rules |-> <<>>]]

(***************************************************************************)
(* check_cache.  Instant::duration_since saturates at zero, so an entry    *)
(* recorded after `now` was read has age zero.                             *)
(***************************************************************************)
Age(now, t) == IF now < t THEN 0 ELSE now - t

\* Mutant of CacheFresh: the approval of any argv under the rule will do.
CacheFresh_AnyArgv(st, scope, r, a, now) ==
  /\ scope.ttl > 0
  /\ \E b \in Argv : /\ st.cache[<<r, b>>] # Never
                     /\ Age(now, st.cache[<<r, b>>]) < scope.ttl

CacheFresh(st, scope, r, a, now) ==
  /\ scope.ttl > 0
  /\ st.cache[<<r, a>>] # Never
  /\ Age(now, st.cache[<<r, a>>]) < scope.ttl

(***************************************************************************)
(* is_rate_limited prunes the front of the window, even when it goes on to *)
(* refuse.  `now` and the entries come from different workers, so a window *)
(* need not be sorted: an old entry behind a young one stays.              *)
(***************************************************************************)
Expired(win, now) ==
  Cardinality({i \in DOMAIN win : \A j \in 1 .. i : win[j] <= now - Window})

Prune(win, now) == SubSeq(win, Expired(win, now) + 1, Len(win))

PruneRate(st, scope, r, now) ==
  IF scope.rate = 0 THEN st
  ELSE [st EXCEPT !.rate[r] = Prune(@, now)]

\* Mutant of RateLimited: off by one.
RateLimited_OffByOne(st, scope, r, now) ==
  scope.rate > 0 /\ Len(Prune(st.rate[r], now)) > scope.rate

RateLimited(st, scope, r, now) ==
  scope.rate > 0 /\ Len(Prune(st.rate[r], now)) >= scope.rate

(***************************************************************************)
(* record_approval and record_cache_hit share note_execution, which leaves *)
(* the window of an uncapped rule alone.                                   *)
(***************************************************************************)
NoteExecution(st, scope, r, now) ==
  IF scope.rate = 0 THEN st
  ELSE [st EXCEPT !.rate[r] = Append(@, now)]

RecordApproval(st, scope, r, a, now) ==
  LET noted == NoteExecution(st, scope, r, now)
  IN  IF scope.ttl = 0 THEN noted
      ELSE [noted EXCEPT !.cache[<<r, a>>] = now]

\* Mutant of RecordCacheHit: a hit is taken for an approval and renews the entry.
RecordCacheHit_Renews(st, scope, r, a, now) == RecordApproval(st, scope, r, a, now)

RecordCacheHit(st, scope, r, a, now) == NoteExecution(st, scope, r, now)

=============================================================================
