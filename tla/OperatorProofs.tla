--------------------------- MODULE OperatorProofs ---------------------------
(***************************************************************************)
(* Lemmas about the operators the models are built from: the approval      *)
(* state of module Scoping and the line of module CommandLine.  A loop of  *)
(* the code is a recursive function: that such a function exists, and is   *)
(* what it ought to be, is proved by descent, from the fact that every     *)
(* non-empty set of natural numbers has a least element.                   *)
(***************************************************************************)
EXTENDS Scoping, CommandLine, FiniteSetTheorems, FunctionTheorems,
        SequenceTheorems, WellFoundedInduction, TLAPS

\* Every non-empty set of natural numbers has a least element.
LEMMA Least ==
  ASSUME NEW S, S \subseteq Nat, S # {}
  PROVE  \E m \in S : \A k \in S : m <= k
<1> DEFINE R == {ss \in Nat \X Nat : ss[1] < ss[2]}
<1>1. IsWellFoundedOn(R, Nat)
  BY NatLessThanWellFounded, Zenon DEF OpToRel
<1>2. \A x, y \in Nat : x < y => <<x, y>> \in R
  OBVIOUS
<1> HIDE DEF R
<1>3. PICK m \in S : \A k \in S : ~ (<<k, m>> \in R)
  BY <1>1, WFMin, Zenon
<1>4. \A k \in S : ~ (k < m)
  BY <1>2, <1>3
<1>5. \A k \in S : k \in Nat
  OBVIOUS
<1> QED
  BY <1>4, <1>5

\* What holds at a position when it holds at all later ones holds everywhere.
LEMMA Downward ==
  ASSUME NEW m \in Nat, NEW Good,
         \A i \in 1 .. m : i + 1 .. m \subseteq Good => i \in Good
  PROVE  1 .. m \subseteq Good
<1> DEFINE Bad == {k \in 0 .. m - 1 : m - k \notin Good}
<1>1. SUFFICES ASSUME Bad # {} PROVE FALSE
  <2>1. \A i \in 1 .. m : m - i \in 0 .. m - 1 /\ m - (m - i) = i
    OBVIOUS
  <2> QED
    BY <2>1
<1>2. PICK k \in Bad : \A l \in Bad : k <= l
  <2>1. Bad \subseteq Nat
    OBVIOUS
  <2> HIDE DEF Bad
  <2> QED
    BY <1>1, <2>1, Least
<1>3. k \in 0 .. m - 1 /\ m - k \in 1 .. m /\ m - k \notin Good
  OBVIOUS
<1>4. ASSUME NEW j \in m - k + 1 .. m PROVE j \in Good
  <2>1. m - j \in 0 .. m - 1 /\ m - j < k /\ m - (m - j) = j
    BY <1>3
  <2> QED
    BY <1>2, <2>1
<1> QED
  BY <1>3, <1>4

-----------------------------------------------------------------------------
(* The approval state. *)

\* At most the whole window is pruned.
LEMMA ExpiredBound ==
  ASSUME NEW win \in Seq(Nat), NEW now \in Nat
  PROVE  Expired(win, now) \in 0 .. Len(win)
<1> DEFINE E == {i \in DOMAIN win : \A j \in 1 .. i : win[j] <= now - Window}
<1>1. E \subseteq 1 .. Len(win)
  OBVIOUS
<1>2. IsFiniteSet(1 .. Len(win)) /\ Cardinality(1 .. Len(win)) = Len(win)
  <2>1. Len(win) \in Nat /\ Len(win) \in Int /\ 1 \in Int
    OBVIOUS
  <2>2. /\ IsFiniteSet(1 .. Len(win))
        /\ Cardinality(1 .. Len(win)) = IF 1 > Len(win) THEN 0 ELSE Len(win) - 1 + 1
    BY <2>1, FS_Interval, Zenon
  <2> QED
    BY <2>1, <2>2
<1>3. Cardinality(E) \in Nat /\ Cardinality(E) <= Len(win)
  BY <1>1, <1>2, FS_Subset, FS_CardinalityType
<1> QED
  BY <1>3 DEF Expired

\* Pruning leaves a window, no longer than it was.
LEMMA PruneType ==
  ASSUME NEW win \in Seq(Nat), NEW now \in Nat
  PROVE  Prune(win, now) \in Seq(Nat) /\ Len(Prune(win, now)) <= Len(win)
<1>1. Expired(win, now) \in 0 .. Len(win)
  BY ExpiredBound
<1>2. \A k \in 0 .. Len(win) :
        SubSeq(win, k + 1, Len(win)) \in Seq(Nat) /\ Len(SubSeq(win, k + 1, Len(win))) <= Len(win)
  OBVIOUS
<1> QED
  BY <1>1, <1>2 DEF Prune

\* The functions of scoping.rs keep the approval state well typed.
LEMMA ScopingType ==
  ASSUME NEW st \in ApprovalState, NEW scope \in Scope,
         NEW r \in Rules, NEW a \in Argv, NEW now \in Nat
  PROVE  /\ PruneRate(st, scope, r, now) \in ApprovalState
         /\ RecordApproval(st, scope, r, a, now) \in ApprovalState
         /\ RecordCacheHit(st, scope, r, a, now) \in ApprovalState
<1>1. st.rate[r] \in Seq(Nat)
  BY DEF ApprovalState
<1>2. Prune(st.rate[r], now) \in Seq(Nat) /\ Append(st.rate[r], now) \in Seq(Nat)
  BY <1>1, PruneType
<1>3. PruneRate(st, scope, r, now) \in ApprovalState
  BY <1>2 DEF PruneRate, ApprovalState
<1>4. NoteExecution(st, scope, r, now) \in ApprovalState
  BY <1>2 DEF NoteExecution, ApprovalState
<1>5. \A s \in ApprovalState : [s EXCEPT !.cache[<<r, a>>] = now] \in ApprovalState
  BY DEF ApprovalState
<1> QED
  BY <1>3, <1>4, <1>5 DEF RecordApproval, RecordCacheHit

LEMMA EmptyStateType == EmptyState \in ApprovalState
BY DEF EmptyState, ApprovalState

-----------------------------------------------------------------------------
(* What pruning and recording do to the young entries of a window. *)

\* The entries of a window that are younger than t.
Young(win, t) == {i \in 1 .. Len(win) : win[i] > t}

LEMMA YoungBound ==
  ASSUME NEW win \in Seq(Nat), NEW t \in Int
  PROVE  /\ IsFiniteSet(Young(win, t))
         /\ Cardinality(Young(win, t)) \in Nat
         /\ Cardinality(Young(win, t)) <= Len(win)
<1>1. Len(win) \in Nat /\ Len(win) \in Int /\ 1 \in Int
  OBVIOUS
<1>2. /\ IsFiniteSet(1 .. Len(win))
      /\ Cardinality(1 .. Len(win)) = IF 1 > Len(win) THEN 0 ELSE Len(win) - 1 + 1
  BY <1>1, FS_Interval, Zenon
<1>3. Young(win, t) \in SUBSET (1 .. Len(win))
  BY DEF Young
<1>4. /\ IsFiniteSet(Young(win, t))
      /\ Cardinality(Young(win, t)) <= Cardinality(1 .. Len(win))
  BY <1>2, <1>3, FS_Subset
<1>5. Cardinality(Young(win, t)) \in Nat
  BY <1>4, FS_CardinalityType
<1> QED
  BY <1>1, <1>2, <1>4, <1>5

\* The pruned entries are a prefix of the window, and every one has expired:
\* counting the positions up to which all have expired finds no other.
LEMMA ExpiredPrefix ==
  ASSUME NEW win \in Seq(Nat), NEW now \in Nat, NEW j \in 1 .. Expired(win, now)
  PROVE  win[j] <= now - Window
<1> DEFINE E == {i \in DOMAIN win : \A h \in 1 .. i : win[h] <= now - Window}
<1>1. Expired(win, now) = Cardinality(E) /\ Expired(win, now) \in 0 .. Len(win)
  BY ExpiredBound DEF Expired
<1>2. j \in Nat /\ j >= 1 /\ j <= Len(win) /\ j \in DOMAIN win
  BY <1>1
<1>3. ASSUME ~ (win[j] <= now - Window) PROVE FALSE
  <2>1. E \in SUBSET (1 .. (j - 1))
    BY <1>2, <1>3
  <2>2. j - 1 \in Int /\ 1 \in Int
    BY <1>2
  <2>3. /\ IsFiniteSet(1 .. (j - 1))
        /\ Cardinality(1 .. (j - 1)) = IF 1 > j - 1 THEN 0 ELSE (j - 1) - 1 + 1
    BY <2>2, FS_Interval, Zenon
  <2>4. Cardinality(E) <= Cardinality(1 .. (j - 1))
    BY <2>1, <2>3, FS_Subset
  <2> QED
    BY <1>1, <1>2, <2>3, <2>4
<1> QED
  BY <1>3

\* Pruning at an instant loses no entry younger than a window before it, not
\* even when the window is not sorted.
LEMMA PruneYoung ==
  ASSUME NEW win \in Seq(Nat), NEW now \in Nat, NEW t \in Int, now - Window <= t
  PROVE  Cardinality(Young(Prune(win, now), t)) = Cardinality(Young(win, t))
<1> DEFINE k == Expired(win, now)
           old == Young(win, t)
           new == Young(Prune(win, now), t)
           f == [i \in old |-> i - k]
<1>1. k \in Nat /\ k <= Len(win) /\ Len(win) \in Nat
  BY ExpiredBound
<1>2. \A m \in 1 .. Len(win) + 1 :
        /\ Len(SubSeq(win, m, Len(win))) = IF m <= Len(win) THEN Len(win) - m + 1 ELSE 0
        /\ \A i \in 1 .. Len(win) - m + 1 : SubSeq(win, m, Len(win))[i] = win[m + i - 1]
  <2> SUFFICES ASSUME NEW m \in 1 .. Len(win) + 1
               PROVE  /\ Len(SubSeq(win, m, Len(win)))
                           = IF m <= Len(win) THEN Len(win) - m + 1 ELSE 0
                      /\ \A i \in 1 .. Len(win) - m + 1 :
                           SubSeq(win, m, Len(win))[i] = win[m + i - 1]
    OBVIOUS
  <2>1. m \in Int /\ Len(win) \in Int /\ \A i \in m .. Len(win) : win[i] \in Nat
    BY <1>1
  <2> QED
    BY <2>1, SubSeqProperties
<1>3. /\ Len(Prune(win, now)) = Len(win) - k
      /\ \A i \in 1 .. (Len(win) - k) : Prune(win, now)[i] = win[i + k]
  <2>1. k + 1 \in 1 .. Len(win) + 1 /\ Prune(win, now) = SubSeq(win, k + 1, Len(win))
    BY <1>1 DEF Prune
  <2>2. /\ Len(Prune(win, now)) = IF k + 1 <= Len(win) THEN Len(win) - (k + 1) + 1 ELSE 0
        /\ \A i \in 1 .. Len(win) - (k + 1) + 1 : Prune(win, now)[i] = win[(k + 1) + i - 1]
    BY <1>2, <2>1
  <2>3. Len(Prune(win, now)) = Len(win) - k
    BY <1>1, <2>2
  <2>4. ASSUME NEW i \in 1 .. (Len(win) - k) PROVE Prune(win, now)[i] = win[i + k]
    <3>1. i \in 1 .. Len(win) - (k + 1) + 1 /\ (k + 1) + i - 1 = i + k
      BY <1>1
    <3> QED
      BY <2>2, <3>1
  <2> QED
    BY <2>3, <2>4
<1>4. \A i \in old : i \in Nat /\ i > k /\ i <= Len(win) /\ win[i] > t
  <2> SUFFICES ASSUME NEW i \in old, ~ (i > k) PROVE FALSE
    BY <1>1 DEF Young
  <2>1. i \in 1 .. k /\ win[i] > t /\ win[i] \in Nat
    BY <1>1 DEF Young
  <2>2. win[i] <= now - Window
    BY <2>1, ExpiredPrefix
  <2> QED
    BY <2>1, <2>2, ScopingAssumption
<1>5. f \in [old -> new]
  BY <1>1, <1>3, <1>4 DEF Young
<1>6. \A a, b \in old : f[a] = f[b] => a = b
  BY <1>1, <1>4
<1>7. ASSUME NEW i \in new PROVE \E a \in old : f[a] = i
  <2>1. i \in 1 .. (Len(win) - k) /\ Prune(win, now)[i] > t
    BY <1>3 DEF Young
  <2>2. i + k \in 1 .. Len(win) /\ win[i + k] > t
    BY <1>1, <1>3, <2>1
  <2>3. i + k \in old /\ (i + k) - k = i
    BY <1>1, <2>1, <2>2 DEF Young
  <2> QED
    BY <2>3
<1>8. ExistsBijection(old, new)
  <2> HIDE DEF old, new, f
  <2>1. f \in Bijection(old, new)
    BY <1>5, <1>6, <1>7, Fun_IsBij
  <2> QED
    BY <2>1 DEF ExistsBijection
<1> HIDE DEF old, new
<1>9. IsFiniteSet(old)
  BY YoungBound DEF old
<1>10. Cardinality(new) = Cardinality(old)
  BY <1>8, <1>9, FS_Bijection
<1> QED
  BY <1>10 DEF old, new

\* Recording adds one entry, young for every bound before its instant.
LEMMA AppendYoung ==
  ASSUME NEW win \in Seq(Nat), NEW now \in Nat, NEW t \in Int
  PROVE  Cardinality(Young(Append(win, now), t)) =
           IF now > t THEN Cardinality(Young(win, t)) + 1 ELSE Cardinality(Young(win, t))
<1>1. /\ Len(Append(win, now)) = Len(win) + 1 /\ Len(win) \in Nat
      /\ \A i \in 1 .. Len(win) : Append(win, now)[i] = win[i]
      /\ Append(win, now)[Len(win) + 1] = now
  OBVIOUS
<1>2. CASE now > t
  <2>1. Young(Append(win, now), t) = Young(win, t) \cup {Len(win) + 1}
    BY <1>1, <1>2 DEF Young
  <2>2. Len(win) + 1 \notin Young(win, t) /\ IsFiniteSet(Young(win, t))
    BY <1>1, YoungBound DEF Young
  <2>3. Cardinality(Young(win, t) \cup {Len(win) + 1}) = Cardinality(Young(win, t)) + 1
    BY <2>2, FS_AddElement
  <2> QED
    BY <1>2, <2>1, <2>3
<1>3. CASE ~ (now > t)
  <2>1. Young(Append(win, now), t) = Young(win, t)
    BY <1>1, <1>3 DEF Young
  <2> QED
    BY <1>3, <2>1
<1> QED
  BY <1>2, <1>3

-----------------------------------------------------------------------------
(* The line of a client. *)

\* What parse_args makes of the token at i, given what it makes of the tokens
\* behind the option and the value that may stand there.
ParseBody(raw, i, next) ==
  IF i > Len(raw) THEN Usage
  ELSE CASE raw[i] \in Options      -> IF FlagValue(raw, i)
                                       THEN WithOption(next, raw[i], raw[i + 1])
                                       ELSE Usage
         [] raw[i] \in HelpFlags    -> Help
         [] raw[i] \in UnknownFlags -> Usage
         [] raw[i] = Separator      -> Remainder(raw, i + 1)
         [] OTHER                   -> Remainder(raw, i)

ParseFrom(raw, f, k) ==
  f = [i \in k .. Len(raw) + 1 |-> ParseBody(raw, i, f[i + 2])]

\* One more token to the left.
LEMMA ParseExtends ==
  ASSUME NEW T, NEW raw \in Seq(T), NEW k \in 1 .. Len(raw), NEW f, ParseFrom(raw, f, k + 1)
  PROVE  \E g : ParseFrom(raw, g, k)
<1> DEFINE n == Len(raw)
           g == [i \in k .. n + 1 |-> IF i = k THEN ParseBody(raw, k, f[k + 2]) ELSE f[i]]
<1>1. n \in Nat
  OBVIOUS
<1>2. \A i \in Nat : i >= n => \A x, y : ParseBody(raw, i, x) = ParseBody(raw, i, y)
  <2> SUFFICES ASSUME NEW i \in Nat, i >= n, NEW x, NEW y
               PROVE  ParseBody(raw, i, x) = ParseBody(raw, i, y)
    OBVIOUS
  <2>1. ~ FlagValue(raw, i) \/ i > n
    BY <1>1 DEF FlagValue
  <2> QED
    BY <2>1 DEF ParseBody
<1>3. \A i \in k + 1 .. n + 1 : f[i] = ParseBody(raw, i, f[i + 2]) /\ g[i] = f[i]
  BY <1>1 DEF ParseFrom
<1>4. ASSUME NEW i \in k .. n + 1 PROVE g[i] = ParseBody(raw, i, g[i + 2])
  <2>1. g[i] = ParseBody(raw, i, f[i + 2])
    <3>1. CASE i = k
      BY <3>1
    <3>2. CASE i # k
      <4>1. i \in k + 1 .. n + 1
        BY <1>1, <3>2
      <4> QED
        BY <1>3, <4>1, Zenon
    <3> QED
      BY <3>1, <3>2
  <2>2. CASE i + 2 \in k + 1 .. n + 1
    BY <1>3, <2>1, <2>2, Zenon
  <2>3. CASE i + 2 \notin k + 1 .. n + 1
    <3>1. i >= n /\ i \in Nat
      BY <1>1, <2>3
    <3> HIDE DEF g
    <3> QED
      BY <1>2, <2>1, <3>1, Zenon
  <2> QED
    BY <2>2, <2>3
<1>5. g = [i \in k .. n + 1 |-> g[i]]
  OBVIOUS
<1> HIDE DEF g
<1>6. g = [i \in k .. n + 1 |-> ParseBody(raw, i, g[i + 2])]
  BY <1>4, <1>5
<1> QED
  BY <1>6, Zenon DEF ParseFrom

\* parse_args terminates: each of its results is that of its body.
LEMMA ParseUnfolds ==
  ASSUME NEW T, NEW raw \in Seq(T)
  PROVE  \E f : /\ ParseArgs(raw) = f[1]
                /\ \A i \in 1 .. Len(raw) + 1 : f[i] = ParseBody(raw, i, f[i + 2])
<1> DEFINE n == Len(raw)
           Good == {k \in 1 .. n + 1 : \E f : ParseFrom(raw, f, k)}
<1>1. n \in Nat
  OBVIOUS
<1>2. n + 1 \in Good
  <2> DEFINE f == [i \in n + 1 .. n + 1 |-> Usage]
  <2>1. \A i \in n + 1 .. n + 1 : \A x : ParseBody(raw, i, x) = Usage
    BY <1>1 DEF ParseBody
  <2>2. f = [i \in n + 1 .. n + 1 |-> ParseBody(raw, i, f[i + 2])]
    BY <2>1
  <2>3. n + 1 \in 1 .. n + 1
    BY <1>1
  <2> QED
    BY <2>2, <2>3 DEF ParseFrom
<1>3. ASSUME NEW i \in 1 .. n + 1, i + 1 .. n + 1 \subseteq Good PROVE i \in Good
  <2>1. CASE i = n + 1
    BY <1>2, <2>1
  <2>2. CASE i \in 1 .. n
    <3>1. i + 1 \in Good
      <4>1. i + 1 \in i + 1 .. n + 1
        BY <1>1, <2>2
      <4> QED
        BY <1>3, <4>1, Zenon
    <3>2. PICK f : ParseFrom(raw, f, i + 1)
      BY <3>1
    <3> QED
      BY <1>1, <2>2, <3>2, ParseExtends
  <2> QED
    BY <1>1, <2>1, <2>2
<1> HIDE DEF Good
<1>4. 1 .. n + 1 \subseteq Good
  <2>1. n + 1 \in Nat
    BY <1>1
  <2> QED
    BY <1>3, <2>1, Downward
<1>5. \E f : ParseFrom(raw, f, 1)
  <2>1. 1 \in 1 .. n + 1
    BY <1>1
  <2>2. 1 \in Good
    BY <1>4, <2>1, Zenon
  <2> QED
    BY <2>2, Zenon DEF Good
<1> DEFINE scan == CHOOSE f : ParseFrom(raw, f, 1)
<1>6. ParseFrom(raw, scan, 1)
  BY <1>5, Zenon
<1>7. ParseArgs(raw) = scan[1]
  BY DEF ParseArgs, ParseFrom, ParseBody
<1> HIDE DEF scan
<1>8. \A i \in 1 .. n + 1 : scan[i] = ParseBody(raw, i, scan[i + 2])
  BY <1>6 DEF ParseFrom
<1> QED
  BY <1>7, <1>8

\* It asks for help, fails, or finds a command.
LEMMA ParseOutcomes ==
  ASSUME NEW T, NEW raw \in Seq(T)
  PROVE  ParseArgs(raw) \in {Help, Usage} \/ ParseArgs(raw).kind = "command"
<1>1. PICK f : /\ ParseArgs(raw) = f[1]
               /\ \A i \in 1 .. Len(raw) + 1 : f[i] = ParseBody(raw, i, f[i + 2])
  BY ParseUnfolds
<1> DEFINE n == Len(raw)
           Outcome(p) == p \in {Help, Usage} \/ p.kind = "command"
           Good == {i \in 1 .. n + 1 : Outcome(f[i])}
<1>2. n + 1 \in Nat /\ n \in Nat
  OBVIOUS
<1>3. \A p, flag, v : Outcome(p) => Outcome(WithOption(p, flag, v))
  <2> SUFFICES ASSUME NEW p, NEW flag, NEW v, Outcome(p) PROVE Outcome(WithOption(p, flag, v))
    OBVIOUS
  <2>1. CASE p.kind = "command"
    <3> DEFINE q == [p EXCEPT !.given =
                       [x \in {flag} \cup DOMAIN @ |-> IF x \in DOMAIN @ THEN @[x] ELSE v]]
    <3>1. q.kind = "command"
      BY <2>1
    <3> QED
      BY <2>1, <3>1 DEF WithOption
  <2>2. CASE p.kind # "command"
    BY <2>2 DEF WithOption
  <2> QED
    BY <2>1, <2>2
<1>4. \A i : Outcome(Remainder(raw, i))
  BY DEF Remainder, Command
<1>5. ASSUME NEW i \in 1 .. n + 1, i + 1 .. n + 1 \subseteq Good PROVE i \in Good
  <2>1. f[i] = ParseBody(raw, i, f[i + 2])
    BY <1>1
  <2>2. CASE i <= n /\ FlagValue(raw, i)
    <3>1. i + 2 \in i + 1 .. n + 1
      BY <1>2, <2>2 DEF FlagValue
    <3>2. Outcome(f[i + 2])
      BY <1>5, <3>1
    <3> HIDE DEF Outcome
    <3>3. Outcome(Help) /\ Outcome(Usage)
      BY DEF Outcome
    <3>4. Outcome(f[i])
      BY <1>3, <1>4, <2>1, <3>2, <3>3, Zenon DEF ParseBody
    <3> QED
      BY <3>4
  <2>3. CASE ~ (i <= n /\ FlagValue(raw, i))
    <3> HIDE DEF Outcome
    <3>3. Outcome(Help) /\ Outcome(Usage)
      BY DEF Outcome
    <3>1. i > n \/ ~ FlagValue(raw, i)
      BY <1>2, <2>3
    <3>2. Outcome(f[i])
      BY <1>4, <2>1, <3>1, <3>3, Zenon DEF ParseBody
    <3> QED
      BY <3>2
  <2> QED
    BY <2>2, <2>3
<1> HIDE DEF Good
<1>6. 1 .. n + 1 \subseteq Good
  BY <1>2, <1>5, Downward
<1>7. 1 \in 1 .. n + 1
  BY <1>2
<1>8. 1 \in Good
  BY <1>6, <1>7
<1> USE DEF Good
<1> QED
  BY <1>1, <1>8

\* The k tokens from i on, every second one, are options with values.
OptionsAt(raw, i, k) ==
  \A j \in 1 .. k : raw[i + 2 * j - 2] \in Options /\ raw[i + 2 * j - 1] # Separator

\* What k options from i on give: of an option given twice the last value.
GivenAt(raw, i, k, g) ==
  /\ DOMAIN g = {raw[i + 2 * j - 2] : j \in 1 .. k}
  /\ \A x \in DOMAIN g : \E j \in 1 .. k :
       /\ raw[i + 2 * j - 2] = x /\ g[x] = raw[i + 2 * j - 1]
       /\ \A l \in j + 1 .. k : raw[i + 2 * l - 2] # x

\* What parse_args makes of the token behind the options.
Ending(raw, e, g) ==
  IF e > Len(raw) THEN Usage
  ELSE CASE raw[e] \in Options      -> Usage
         [] raw[e] \in HelpFlags    -> Help
         [] raw[e] \in UnknownFlags -> Usage
         [] raw[e] = Separator      -> IF e + 1 > Len(raw) THEN Usage
                                       ELSE Command(SubSeq(raw, e + 1, Len(raw)), g)
         [] OTHER                   -> Command(SubSeq(raw, e, Len(raw)), g)

\* The tokens from i on are k options with their values, no more of them, and
\* an end.
Shape(raw, i, p) ==
  \E k \in Nat : \E g :
    /\ i + 2 * k <= Len(raw) + 1
    /\ OptionsAt(raw, i, k)
    /\ ~ (i + 2 * k <= Len(raw) /\ raw[i + 2 * k] \in Options /\ FlagValue(raw, i + 2 * k))
    /\ GivenAt(raw, i, k, g)
    /\ p = Ending(raw, i + 2 * k, g)

\* What is given with one more option in front: a later value of it is kept.
InFront(flag, v, g) == [x \in {flag} \cup DOMAIN g |-> IF x \in DOMAIN g THEN g[x] ELSE v]

LEMMA WithOptionEnding ==
  ASSUME NEW raw, NEW e, NEW g, NEW flag, NEW v
  PROVE  WithOption(Ending(raw, e, g), flag, v) = Ending(raw, e, InFront(flag, v, g))
<1>1. \A argv : WithOption(Command(argv, g), flag, v) = Command(argv, InFront(flag, v, g))
  BY DEF WithOption, Command, InFront
<1>2. WithOption(Usage, flag, v) = Usage /\ WithOption(Help, flag, v) = Help
  BY DEF WithOption, Usage, Help
<1>3. CASE e > Len(raw)
  BY <1>2, <1>3, Zenon DEF Ending
<1>4. CASE ~ (e > Len(raw))
  <2>1. CASE raw[e] \in Options \/ raw[e] \in HelpFlags \/ raw[e] \in UnknownFlags
    BY <1>2, <1>4, <2>1, CommandLineAssumption DEF Ending
  <2>2. CASE raw[e] = Separator
    BY <1>1, <1>2, <1>4, <2>2, CommandLineAssumption DEF Ending
  <2>3. CASE ~ (raw[e] \in Options \/ raw[e] \in HelpFlags \/ raw[e] \in UnknownFlags
                \/ raw[e] = Separator)
    BY <1>1, <1>4, <2>3 DEF Ending
  <2> QED
    BY <2>1, <2>2, <2>3
<1> QED
  BY <1>3, <1>4

\* An option and its value in front.
LEMMA ShapeOption ==
  ASSUME NEW T, NEW raw \in Seq(T), NEW i \in 1 .. Len(raw), NEW p,
         raw[i] \in Options, FlagValue(raw, i), Shape(raw, i + 2, p)
  PROVE  Shape(raw, i, WithOption(p, raw[i], raw[i + 1]))
<1>0. PICK k \in Nat : \E g :
        /\ i + 2 + 2 * k <= Len(raw) + 1
        /\ OptionsAt(raw, i + 2, k)
        /\ ~ (i + 2 + 2 * k <= Len(raw) /\ raw[i + 2 + 2 * k] \in Options
              /\ FlagValue(raw, i + 2 + 2 * k))
        /\ GivenAt(raw, i + 2, k, g)
        /\ p = Ending(raw, i + 2 + 2 * k, g)
  BY Zenon DEF Shape
<1>1. PICK g :
        /\ i + 2 + 2 * k <= Len(raw) + 1
        /\ OptionsAt(raw, i + 2, k)
        /\ ~ (i + 2 + 2 * k <= Len(raw) /\ raw[i + 2 + 2 * k] \in Options
              /\ FlagValue(raw, i + 2 + 2 * k))
        /\ GivenAt(raw, i + 2, k, g)
        /\ p = Ending(raw, i + 2 + 2 * k, g)
  BY <1>0, Zenon
<1> DEFINE h == InFront(raw[i], raw[i + 1], g)
<1>2. /\ WithOption(p, raw[i], raw[i + 1]) = Ending(raw, i + 2 + 2 * k, h)
      /\ DOMAIN h = {raw[i]} \cup DOMAIN g
      /\ \A x \in DOMAIN g : h[x] = g[x]
      /\ raw[i] \notin DOMAIN g => h[raw[i]] = raw[i + 1]
  <2>1. WithOption(p, raw[i], raw[i + 1]) = Ending(raw, i + 2 + 2 * k, h)
    <3>1. \A e, flag, v : WithOption(Ending(raw, e, g), flag, v) = Ending(raw, e, InFront(flag, v, g))
      BY WithOptionEnding, Zenon
    <3>2. WithOption(Ending(raw, i + 2 + 2 * k, g), raw[i], raw[i + 1]) = Ending(raw, i + 2 + 2 * k, h)
      BY <3>1, Zenon
    <3> QED
      BY <1>1, <3>2
  <2> QED
    BY <2>1 DEF InFront
<1> HIDE DEF h
<1>3. /\ i \in Nat /\ k + 1 \in Nat /\ i + 2 * (k + 1) = i + 2 + 2 * k
      /\ i + 2 * 1 - 2 = i /\ i + 2 * 1 - 1 = i + 1
      /\ \A j \in 1 .. k : /\ j + 1 \in 2 .. k + 1
                           /\ i + 2 + 2 * j - 2 = i + 2 * (j + 1) - 2
                           /\ i + 2 + 2 * j - 1 = i + 2 * (j + 1) - 1
      /\ \A j \in 2 .. k + 1 : j - 1 \in 1 .. k /\ (j - 1) + 1 = j
      /\ 1 .. k + 1 = {1} \cup 2 .. k + 1
  OBVIOUS
<1>4. OptionsAt(raw, i, k + 1)
  <2> SUFFICES ASSUME NEW j \in 1 .. k + 1
               PROVE  raw[i + 2 * j - 2] \in Options /\ raw[i + 2 * j - 1] # Separator
    BY DEF OptionsAt
  <2>1. CASE j = 1
    BY <1>3, <2>1 DEF FlagValue
  <2>2. CASE j \in 2 .. k + 1
    <3>1. j - 1 \in 1 .. k
      BY <1>3, <2>2
    <3>2. raw[i + 2 + 2 * (j - 1) - 2] \in Options /\ raw[i + 2 + 2 * (j - 1) - 1] # Separator
      BY <1>1, <3>1 DEF OptionsAt
    <3>3. i + 2 + 2 * (j - 1) - 2 = i + 2 * j - 2 /\ i + 2 + 2 * (j - 1) - 1 = i + 2 * j - 1
      BY <2>2
    <3> QED
      BY <3>2, <3>3
  <2> QED
    BY <1>3, <2>1, <2>2
<1>5. DOMAIN h = {raw[i + 2 * j - 2] : j \in 1 .. k + 1}
  <2>1. DOMAIN g = {raw[i + 2 * j - 2] : j \in 2 .. k + 1}
    <3>1. DOMAIN g = {raw[i + 2 + 2 * j - 2] : j \in 1 .. k}
      BY <1>1 DEF GivenAt
    <3>2. \A x : (\E j \in 1 .. k : x = raw[i + 2 + 2 * j - 2])
                 => \E j \in 2 .. k + 1 : x = raw[i + 2 * j - 2]
      <4> SUFFICES ASSUME NEW j \in 1 .. k
                   PROVE  \E l \in 2 .. k + 1 : raw[i + 2 + 2 * j - 2] = raw[i + 2 * l - 2]
        OBVIOUS
      <4>1. j + 1 \in 2 .. k + 1 /\ i + 2 + 2 * j - 2 = i + 2 * (j + 1) - 2
        OBVIOUS
      <4> QED
        BY <4>1
    <3>3. \A x : (\E j \in 2 .. k + 1 : x = raw[i + 2 * j - 2])
                 => \E j \in 1 .. k : x = raw[i + 2 + 2 * j - 2]
      <4> SUFFICES ASSUME NEW j \in 2 .. k + 1
                   PROVE  \E l \in 1 .. k : raw[i + 2 * j - 2] = raw[i + 2 + 2 * l - 2]
        OBVIOUS
      <4>1. j - 1 \in 1 .. k /\ i + 2 + 2 * (j - 1) - 2 = i + 2 * j - 2
        OBVIOUS
      <4> QED
        BY <4>1
    <3> QED
      BY <3>1, <3>2, <3>3, Zenon
  <2>2. {raw[i + 2 * j - 2] : j \in 1 .. k + 1}
          = {raw[i + 2 * j - 2] : j \in {1}} \cup {raw[i + 2 * j - 2] : j \in 2 .. k + 1}
    BY <1>3
  <2>3. {raw[i + 2 * j - 2] : j \in {1}} = {raw[i]}
    BY <1>3
  <2> QED
    BY <1>2, <2>1, <2>2, <2>3
<1>6. ASSUME NEW x \in DOMAIN h
      PROVE  \E j \in 1 .. k + 1 :
               /\ raw[i + 2 * j - 2] = x /\ h[x] = raw[i + 2 * j - 1]
               /\ \A l \in j + 1 .. k + 1 : raw[i + 2 * l - 2] # x
  <2>1. CASE x \in DOMAIN g
    <3>1. PICK j \in 1 .. k :
            /\ raw[i + 2 + 2 * j - 2] = x /\ g[x] = raw[i + 2 + 2 * j - 1]
            /\ \A l \in j + 1 .. k : raw[i + 2 + 2 * l - 2] # x
      BY <1>1, <2>1 DEF GivenAt
    <3>2. j + 1 \in 1 .. k + 1
      OBVIOUS
    <3>3. raw[i + 2 * (j + 1) - 2] = x /\ h[x] = raw[i + 2 * (j + 1) - 1]
      BY <1>2, <1>3, <2>1, <3>1
    <3>4. ASSUME NEW l \in (j + 1) + 1 .. k + 1 PROVE raw[i + 2 * l - 2] # x
      <4>1. l - 1 \in j + 1 .. k /\ i + 2 + 2 * (l - 1) - 2 = i + 2 * l - 2
        OBVIOUS
      <4> QED
        BY <3>1, <4>1
    <3> QED
      BY <3>2, <3>3, <3>4
  <2>2. CASE x \notin DOMAIN g
    <3>1. x = raw[i] /\ h[x] = raw[i + 1]
      BY <1>2, <2>2
    <3>2. 1 \in 1 .. k + 1
      OBVIOUS
    <3>3. ASSUME NEW l \in 1 + 1 .. k + 1 PROVE raw[i + 2 * l - 2] # x
      <4>1. l - 1 \in 1 .. k /\ i + 2 + 2 * (l - 1) - 2 = i + 2 * l - 2
        OBVIOUS
      <4>2. raw[i + 2 + 2 * (l - 1) - 2] \in DOMAIN g
        BY <1>1, <4>1 DEF GivenAt
      <4> QED
        BY <2>2, <4>1, <4>2
    <3> QED
      BY <1>3, <3>1, <3>2, <3>3
  <2> QED
    BY <2>1, <2>2
<1>7. GivenAt(raw, i, k + 1, h)
  BY <1>5, <1>6 DEF GivenAt
<1> QED
  BY <1>1, <1>2, <1>3, <1>4, <1>7 DEF Shape

\* No option with a value is in front.
LEMMA ShapeEnd ==
  ASSUME NEW T, NEW raw \in Seq(T), NEW i \in 1 .. Len(raw) + 1, NEW next,
         ~ (i <= Len(raw) /\ raw[i] \in Options /\ FlagValue(raw, i))
  PROVE  Shape(raw, i, ParseBody(raw, i, next))
<1> DEFINE g == << >>
<1>1. i + 2 * 0 = i /\ 0 \in Nat /\ i <= Len(raw) + 1
  OBVIOUS
<1>2. OptionsAt(raw, i, 0)
  BY DEF OptionsAt
<1>3. DOMAIN g = {}
  OBVIOUS
<1>4. GivenAt(raw, i, 0, g)
  BY <1>3 DEF GivenAt
<1>5. ParseBody(raw, i, next) = Ending(raw, i, g)
  <2>1. CASE i > Len(raw)
    BY <2>1, Zenon DEF ParseBody, Ending
  <2>2. CASE ~ (i > Len(raw))
    <3>1. CASE raw[i] \in Options
      BY <2>2, <3>1, CommandLineAssumption DEF ParseBody, Ending
    <3>2. CASE raw[i] \notin Options
      BY <2>2, <3>2, CommandLineAssumption DEF ParseBody, Ending, Remainder
    <3> QED
      BY <3>1, <3>2
  <2> QED
    BY <2>1, <2>2
<1> HIDE DEF g
<1> QED
  BY <1>1, <1>2, <1>4, <1>5 DEF Shape

\* parse_args takes the options with values at the head of the line, as many as
\* there are, and what is left.
LEMMA ParseShape ==
  ASSUME NEW T, NEW raw \in Seq(T)
  PROVE  Shape(raw, 1, ParseArgs(raw))
<1>1. PICK f : /\ ParseArgs(raw) = f[1]
               /\ \A i \in 1 .. Len(raw) + 1 : f[i] = ParseBody(raw, i, f[i + 2])
  BY ParseUnfolds
<1> DEFINE n == Len(raw)
           Good == {i \in 1 .. n + 1 : Shape(raw, i, f[i])}
<1>2. n + 1 \in Nat /\ n \in Nat
  OBVIOUS
<1>3. ASSUME NEW i \in 1 .. n + 1, i + 1 .. n + 1 \subseteq Good PROVE i \in Good
  <2>1. f[i] = ParseBody(raw, i, f[i + 2])
    BY <1>1
  <2>2. CASE i <= n /\ raw[i] \in Options /\ FlagValue(raw, i)
    <3>1. i + 2 \in i + 1 .. n + 1 /\ i \in 1 .. n
      BY <1>2, <2>2 DEF FlagValue
    <3>2. Shape(raw, i + 2, f[i + 2])
      BY <1>3, <3>1
    <3>3. f[i] = WithOption(f[i + 2], raw[i], raw[i + 1])
      BY <1>2, <2>1, <2>2, <3>1, CommandLineAssumption DEF ParseBody
    <3>4. Shape(raw, i, f[i])
      BY <2>2, <3>1, <3>2, <3>3, ShapeOption
    <3> QED
      BY <3>4
  <2>3. CASE ~ (i <= n /\ raw[i] \in Options /\ FlagValue(raw, i))
    <3>1. Shape(raw, i, f[i])
      BY <2>1, <2>3, ShapeEnd
    <3> QED
      BY <3>1
  <2> QED
    BY <2>2, <2>3
<1> HIDE DEF Good
<1>4. 1 .. n + 1 \subseteq Good
  BY <1>2, <1>3, Downward
<1>5. 1 \in 1 .. n + 1
  BY <1>2
<1>6. 1 \in Good
  BY <1>4, <1>5
<1> USE DEF Good
<1> QED
  BY <1>1, <1>6

=============================================================================
