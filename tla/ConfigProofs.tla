---------------------------- MODULE ConfigProofs -----------------------------
(***************************************************************************)
(* Proofs about the evaluation of a request (module Policy), the policy a  *)
(* file is made into (module Config) and the client's line (CommandLine),  *)
(* for the files and lines written step by step in MCConfig, of any        *)
(* length.  The loops of the code are recursive functions, and what one    *)
(* computes is proved by descent (OperatorProofs).                         *)
(***************************************************************************)
EXTENDS MCConfig, OperatorProofs

-----------------------------------------------------------------------------
(* The matching loop. *)

\* A loop that runs over the positions 1 .. n of a rule while they are in ok, and
\* ends at one in open with success and after n with whether len is n.
LoopBody(n, len, ok, open, i, next) ==
  IF i > n THEN i = len + 1
  ELSE IF i \in open THEN TRUE
  ELSE i <= len /\ i \in ok /\ next

\* What is left to hold at position i for the loop to succeed from there.
LoopShape(n, len, ok, open, i) ==
  IF n \in open THEN i < n => len >= n - 1 /\ i .. n - 1 \subseteq ok
                ELSE len = n /\ i .. n \subseteq ok

LEMMA LoopUnrolls ==
  ASSUME NEW n \in Nat \ {0}, NEW len \in Nat, NEW ok, NEW open, open \subseteq {n},
         NEW i \in 1 .. n, NEW next, next \in BOOLEAN,
         next <=> IF i = n THEN len = n ELSE LoopShape(n, len, ok, open, i + 1)
  PROVE  LoopBody(n, len, ok, open, i, next) <=> LoopShape(n, len, ok, open, i)
BY DEF LoopBody, LoopShape

\* Whatever satisfies the equation of the loop succeeds exactly by shape.
LEMMA LoopIsShape ==
  ASSUME NEW n \in Nat \ {0}, NEW len \in Nat, NEW ok, NEW open, open \subseteq {n},
         NEW f \in [1 .. n + 1 -> BOOLEAN],
         \A i \in 1 .. n + 1 : f[i] <=> LoopBody(n, len, ok, open, i, f[i + 1])
  PROVE  f[1] <=> LoopShape(n, len, ok, open, 1)
<1> DEFINE Good == {i \in 1 .. n : f[i] <=> LoopShape(n, len, ok, open, i)}
<1>1. f[n + 1] <=> len = n
  BY DEF LoopBody
<1>2. ASSUME NEW i \in 1 .. n, i + 1 .. n \subseteq Good PROVE i \in Good
  <2>1. f[i + 1] <=> IF i = n THEN len = n ELSE LoopShape(n, len, ok, open, i + 1)
    BY <1>1, <1>2
  <2>2. f[i + 1] \in BOOLEAN
    OBVIOUS
  <2>3. LoopBody(n, len, ok, open, i, f[i + 1]) <=> LoopShape(n, len, ok, open, i)
    BY <2>1, <2>2, LoopUnrolls
  <2> QED
    BY <2>3
<1> HIDE DEF Good
<1>3. 1 .. n \subseteq Good
  BY <1>2, Downward
<1> USE DEF Good
<1> QED
  BY <1>3

\* Such a function exists.
LoopTable(n, len, ok, open) ==
  [i \in 1 .. n + 1 |-> IF i = n + 1 THEN len = n ELSE LoopShape(n, len, ok, open, i)]

LEMMA LoopExists ==
  ASSUME NEW n \in Nat \ {0}, NEW len \in Nat, NEW ok, NEW open, open \subseteq {n},
         NEW f, f = LoopTable(n, len, ok, open)
  PROVE  /\ f \in [1 .. n + 1 -> BOOLEAN]
         /\ \A i \in 1 .. n + 1 : f[i] <=> LoopBody(n, len, ok, open, i, f[i + 1])
<1>t. f = [i \in 1 .. n + 1 |-> IF i = n + 1 THEN len = n
                                ELSE LoopShape(n, len, ok, open, i)]
  BY DEF LoopTable
<1>1. f \in [1 .. n + 1 -> BOOLEAN]
  BY <1>t DEF LoopShape
<1>2. ASSUME NEW i \in 1 .. n + 1 PROVE f[i] <=> LoopBody(n, len, ok, open, i, f[i + 1])
  <2>1. CASE i = n + 1
    <3>1. f[i] = (len = n)
      BY <1>t, <2>1
    <3>2. LoopBody(n, len, ok, open, i, f[i + 1]) <=> len = n
      BY <2>1 DEF LoopBody
    <3>3. LoopBody(n, len, ok, open, i, f[i + 1]) \in BOOLEAN
      BY <2>1 DEF LoopBody
    <3> QED
      BY <3>1, <3>2, <3>3
  <2>2. CASE i \in 1 .. n
    <3>1. f[i + 1] \in BOOLEAN
      BY <1>1, <2>2
    <3>2. f[i + 1] <=> IF i = n THEN len = n ELSE LoopShape(n, len, ok, open, i + 1)
      <4>1. i + 1 \in 1 .. n + 1 /\ (i + 1 = n + 1 <=> i = n)
        BY <2>2
      <4>2. f[i + 1] = IF i + 1 = n + 1 THEN len = n ELSE LoopShape(n, len, ok, open, i + 1)
        BY <1>t, <4>1, Zenon
      <4> QED
        BY <4>1, <4>2
    <3>3. LoopBody(n, len, ok, open, i, f[i + 1]) <=> LoopShape(n, len, ok, open, i)
      BY <2>2, <3>1, <3>2, LoopUnrolls
    <3>4. f[i] <=> LoopShape(n, len, ok, open, i)
      BY <1>t, <2>2
    <3>5. LoopBody(n, len, ok, open, i, f[i + 1]) \in BOOLEAN /\ f[i] \in BOOLEAN
      BY <1>1, <2>2 DEF LoopBody
    <3> QED
      BY <3>3, <3>4, <3>5
  <2> QED
    BY <2>1, <2>2
<1> QED
  BY <1>1, <1>2

\* The loop over the matchers answers what the shape of the rule says.
LEMMA MatchIsReference ==
  ASSUME NEW M, NEW T, NEW rule \in Seq(M), NEW argv \in Seq(T), WellFormed(rule)
  PROVE  /\ IsMatch(rule, argv) <=> RefMatch(rule, argv)
         /\ IsMatch(rule, argv) \in BOOLEAN
<1> DEFINE n == Len(rule)
           len == Len(argv)
           ok == {i \in 1 .. n : Effective(argv, i) \in rule[i].accepts}
           open == {i \in 1 .. n : rule[i] = Rest}
           Body(i, next) == IF i > n THEN i = len + 1
                            ELSE IF rule[i] = Rest THEN TRUE
                            ELSE /\ i <= len
                                 /\ Effective(argv, i) \in rule[i].accepts
                                 /\ next
           Solves(f) == f = [i \in 1 .. n + 1 |-> Body(i, f[i + 1])]
           scan == CHOOSE f : Solves(f)
<1>1. n \in Nat \ {0} /\ len \in Nat /\ open \subseteq {n}
  BY DEF WellFormed
<1>2. \A f : Solves(f) <=> f = [i \in 1 .. n + 1 |-> LoopBody(n, len, ok, open, i, f[i + 1])]
  <2>1. ASSUME NEW i \in 1 .. n + 1, NEW next
        PROVE  Body(i, next) = LoopBody(n, len, ok, open, i, next)
    <3>1. i \in open <=> i <= n /\ rule[i] = Rest
      BY <1>1
    <3>2. i \in ok <=> i <= n /\ Effective(argv, i) \in rule[i].accepts
      BY <1>1
    <3>3. i > n <=> ~ (i <= n)
      BY <1>1
    <3> HIDE DEF n, len, ok, open
    <3> QED
      BY <3>1, <3>2, <3>3, Zenon DEF LoopBody
  <2> HIDE DEF Body
  <2> QED
    BY <2>1
<1>3. IsMatch(rule, argv) = scan[1]
  BY DEF IsMatch
<1> HIDE DEF Solves
<1>4. Solves(scan)
  <2> HIDE DEF n, len, ok, open
  <2>1. PICK f : f = LoopTable(n, len, ok, open)
    OBVIOUS
  <2>2. /\ f \in [1 .. n + 1 -> BOOLEAN]
        /\ \A i \in 1 .. n + 1 : f[i] <=> LoopBody(n, len, ok, open, i, f[i + 1])
    BY <1>1, <2>1, LoopExists
  <2>3. \A i \in 1 .. n + 1 : LoopBody(n, len, ok, open, i, f[i + 1]) \in BOOLEAN
    BY DEF LoopBody
  <2>4. f = [i \in 1 .. n + 1 |-> LoopBody(n, len, ok, open, i, f[i + 1])]
    BY <2>2, <2>3
  <2>5. Solves(f)
    BY <1>2, <2>4
  <2> QED
    BY <2>5, Zenon
<1>5. scan \in [1 .. n + 1 -> BOOLEAN]
  <2>1. \A i \in 1 .. n + 1 : LoopBody(n, len, ok, open, i, scan[i + 1]) \in BOOLEAN
    BY <1>1 DEF LoopBody
  <2> HIDE DEF n, len, ok, open, scan
  <2> QED
    BY <1>2, <1>4, <2>1
<1>6. scan[1] <=> LoopShape(n, len, ok, open, 1)
  <2> HIDE DEF n, len, ok, open, scan
  <2>1. \A i \in 1 .. n + 1 : scan[i] <=> LoopBody(n, len, ok, open, i, scan[i + 1])
    BY <1>2, <1>4
  <2> QED
    BY <1>1, <1>5, <2>1, LoopIsShape
<1>7. LoopShape(n, len, ok, open, 1) <=> RefMatch(rule, argv)
  BY <1>1 DEF LoopShape, RefMatch, Effective
<1> HIDE DEF n, len, ok, open, scan
<1> QED
  BY <1>1, <1>3, <1>5, <1>6, <1>7

-----------------------------------------------------------------------------
(* The evaluation. *)

\* Rule lists as BuildPolicy makes them, of matchers of any kind.
WellBuilt(policy, M) ==
  /\ policy.deny \in Seq(Seq(M)) /\ policy.allow \in Seq(Seq(M))
  /\ \A i \in DOMAIN policy.deny : WellFormed(policy.deny[i])
  /\ \A i \in DOMAIN policy.allow : WellFormed(policy.allow[i])

\* The allow rules that admit argv, had it passed the deny rules.
Admitting(policy, argv) ==
  {i \in 1 .. Len(policy.allow) : RefMatch(policy.allow[i], argv)}

\* The lowest of the admitting rules, 0 when there is none.
LEMMA FirstMatchIsLeast ==
  ASSUME NEW M, NEW T, NEW policy, WellBuilt(policy, M), NEW argv \in Seq(T)
  PROVE  FirstMatch(policy.allow, argv) =
           LET I == Admitting(policy, argv) IN
           IF I # {} THEN CHOOSE i \in I : \A j \in I : i <= j ELSE 0
<1>1. \A i \in 1 .. Len(policy.allow) :
        IsMatch(policy.allow[i], argv) <=> RefMatch(policy.allow[i], argv)
  <2> SUFFICES ASSUME NEW i \in 1 .. Len(policy.allow)
               PROVE  IsMatch(policy.allow[i], argv) <=> RefMatch(policy.allow[i], argv)
    OBVIOUS
  <2>1. PICK rule : rule = policy.allow[i]
    OBVIOUS
  <2>2. rule \in Seq(M) /\ WellFormed(rule)
    BY <2>1 DEF WellBuilt
  <2> QED
    BY <2>1, <2>2, MatchIsReference
<1>2. {i \in 1 .. Len(policy.allow) : IsMatch(policy.allow[i], argv)} = Admitting(policy, argv)
  BY <1>1 DEF Admitting
<1>3. FirstMatch(policy.allow, argv) =
        LET I == {i \in 1 .. Len(policy.allow) : IsMatch(policy.allow[i], argv)} IN
        IF I # {} THEN Min(I) ELSE 0
  BY DEF FirstMatch, SelectInSeq
<1> QED
  BY <1>2, <1>3, Zenon DEF Min

\* Policy::evaluate is what the shapes of the rules say.
LEMMA EvaluateShape ==
  ASSUME NEW M, NEW T, NEW policy, WellBuilt(policy, M), NEW argv \in Seq(T)
  PROVE  Evaluate(policy, argv) = RefEvaluate(policy, argv)
<1>1. \A i \in DOMAIN policy.deny :
        IsMatch(policy.deny[i], argv) <=> RefMatch(policy.deny[i], argv)
  <2> SUFFICES ASSUME NEW i \in DOMAIN policy.deny
               PROVE  IsMatch(policy.deny[i], argv) <=> RefMatch(policy.deny[i], argv)
    OBVIOUS
  <2>1. PICK rule : rule = policy.deny[i]
    OBVIOUS
  <2>2. rule \in Seq(M) /\ WellFormed(rule)
    BY <2>1 DEF WellBuilt
  <2> QED
    BY <2>1, <2>2, MatchIsReference
<1>2. {i \in DOMAIN policy.allow : RefMatch(policy.allow[i], argv)} = Admitting(policy, argv)
  BY DEF Admitting, WellBuilt
<1>3. HasControlChar(argv) <=> ~ \A i \in DOMAIN argv : argv[i] \notin Control
  BY DEF HasControlChar
<1> QED
  BY <1>1, <1>2, <1>3, FirstMatchIsLeast, Zenon DEF Evaluate, RefEvaluate, Refused

-----------------------------------------------------------------------------
(* The file. *)

\* The elements the rules in a file may hold.
RawMatcher == Raws
  \cup {Bare("/bin/id"), Bare("env"), Table({"ls"}, Absent),
        Table({}, Absent), Table({"new\nline"}, Absent),
        Table({"sh", "bash", "zsh", "fish"}, Absent),
        Table({"dd", "mkfs", "fdisk", "parted"}, Absent),
        Table({"tee", "chmod", "chown"}, Absent),
        Table({"visudo", "su", "sudo"}, Absent),
        Table({"vi", "vim", "nano"}, Absent),
        Table({"python", "perl"}, Absent)}

AllowEntries == [argv : Seq(RawMatcher), ttl : Nat, rate : Nat]

IsFile(file) ==
  /\ file.deny \in Seq(Seq(RawMatcher))
  /\ file.allow \in Seq(AllowEntries)
  /\ DOMAIN file = {"deny", "allow", "agent_uids", "approver_uids", "method", "secret_path"}

FileTyped == IsFile(fc)

\* RulesOk, of any file.
Acceptable(file) ==
  /\ \A i \in DOMAIN file.deny : RuleOk(file.deny[i])
  /\ \A i \in DOMAIN file.allow : RuleOk(file.allow[i].argv)

Matchers == {ToMatcher(raw) : raw \in RawMatcher}

\* A rule keeps the length of what it is built from.
LEMMA BuildRuleTyped ==
  ASSUME NEW raws \in Seq(RawMatcher)
  PROVE  BuildRule(raws) \in Seq(Matchers) /\ Len(BuildRule(raws)) = Len(raws)
<1>1. \A i \in 1 .. Len(raws) : ToMatcher(raws[i]) \in Matchers
  BY DEF Matchers
<1>2. BuildRule(raws) = [i \in 1 .. Len(raws) |-> ToMatcher(raws[i])]
  BY DEF BuildRule
<1> HIDE DEF Matchers
<1> QED
  BY <1>1, <1>2

LEMMA BuildPolicyTyped ==
  ASSUME NEW file, IsFile(file), NEW p, p = BuildPolicy(file)
  PROVE  /\ p.deny \in Seq(Seq(Matchers)) /\ p.allow \in Seq(Seq(Matchers))
         /\ Len(p.deny) = Len(file.deny) /\ Len(p.allow) = Len(file.allow)
         /\ \A i \in 1 .. Len(file.deny) : p.deny[i] = BuildRule(file.deny[i])
         /\ \A i \in 1 .. Len(file.allow) : p.allow[i] = BuildRule(file.allow[i].argv)
<1>1. /\ p.deny = [i \in 1 .. Len(file.deny) |-> BuildRule(file.deny[i])]
      /\ p.allow = [i \in 1 .. Len(file.allow) |-> BuildRule(file.allow[i].argv)]
  BY DEF BuildPolicy, IsFile
<1>2. \A i \in 1 .. Len(file.deny) : BuildRule(file.deny[i]) \in Seq(Matchers)
  BY BuildRuleTyped DEF IsFile
<1>3. \A i \in 1 .. Len(file.allow) : BuildRule(file.allow[i].argv) \in Seq(Matchers)
  <2>1. \A i \in 1 .. Len(file.allow) : file.allow[i] \in AllowEntries
    BY DEF IsFile
  <2>2. \A e \in AllowEntries : e.argv \in Seq(RawMatcher)
    BY DEF AllowEntries
  <2>3. \A i \in 1 .. Len(file.allow) : file.allow[i].argv \in Seq(RawMatcher)
    BY <2>1, <2>2
  <2> QED
    BY <2>3, BuildRuleTyped
<1>4. Len(file.deny) \in Nat /\ Len(file.allow) \in Nat
  BY DEF IsFile
<1> QED
  BY <1>1, <1>2, <1>3, <1>4

LEMMA PolicyWellBuilt ==
  ASSUME NEW file, IsFile(file), Acceptable(file)
  PROVE  WellBuilt(BuildPolicy(file), Matchers)
<1>1. PICK p : p = BuildPolicy(file)
  OBVIOUS
<1>2. \A i \in 1 .. Len(file.deny) : WellFormed(BuildRule(file.deny[i]))
  BY DEF Acceptable, RuleOk, IsFile
<1>3. \A i \in 1 .. Len(file.allow) : WellFormed(BuildRule(file.allow[i].argv))
  BY DEF Acceptable, RuleOk, IsFile
<1>4. DOMAIN p.deny = 1 .. Len(file.deny) /\ DOMAIN p.allow = 1 .. Len(file.allow)
  BY <1>1, BuildPolicyTyped
<1> QED
  BY <1>1, <1>2, <1>3, <1>4, BuildPolicyTyped DEF WellBuilt

LEMMA ArgvTyped == \A n : BoundedSeq(Small, n) \subseteq Seq(Small)
BY DEF BoundedSeq, SeqOf

\* Every entry an administrator may write is a list of raw matchers.
LEMMA EntriesTyped ==
  /\ DenyRaws \subseteq Seq(RawMatcher)
  /\ AllowRaws \subseteq Seq(RawMatcher)
<1>1. /\ Bare("id") \in RawMatcher /\ Bare("ls") \in RawMatcher
      /\ Bare("/bin/id") \in RawMatcher /\ Table(Absent, TRUE) \in RawMatcher
      /\ Table({"ls"}, Absent) \in RawMatcher /\ Table({}, Absent) \in RawMatcher
      /\ Table({"new\nline"}, Absent) \in RawMatcher
  BY Zenon DEF RawMatcher, Raws
<1>2. Raws \subseteq RawMatcher
  BY DEF RawMatcher
<1>3. AllowRaws \subseteq Seq(RawMatcher)
  BY <1>2 DEF AllowRaws, BoundedSeq, SeqOf
<1>4. \A a, b \in RawMatcher : <<a, b>> \in Seq(RawMatcher) /\ <<a>> \in Seq(RawMatcher)
  OBVIOUS
<1>5. /\ <<Bare("id"), Table(Absent, TRUE)>> \in Seq(RawMatcher)
       /\ <<Bare("ls")>> \in Seq(RawMatcher)
       /\ <<Table({"ls"}, Absent), Bare("/bin/id")>> \in Seq(RawMatcher)
       /\ <<Bare("/bin/id")>> \in Seq(RawMatcher) /\ <<>> \in Seq(RawMatcher)
       /\ <<Table(Absent, TRUE)>> \in Seq(RawMatcher)
       /\ <<Bare("ls"), Table({}, Absent)>> \in Seq(RawMatcher)
       /\ <<Bare("ls"), Table({"new\nline"}, Absent)>> \in Seq(RawMatcher)
  <2>1. <<>> \in Seq(RawMatcher)
    OBVIOUS
  <2> QED
    BY <1>1, <1>4, <2>1, Zenon
<1>6. DenyRaws \subseteq Seq(RawMatcher)
  BY <1>5, Zenon DEF DenyRaws
<1> QED
  BY <1>3, <1>6

\* The default file is a file.
LEMMA DefaultTyped ==
  ASSUME NEW f, f = DefaultConfig
  PROVE  /\ f.deny \in Seq(Seq(RawMatcher)) /\ f.allow \in Seq(AllowEntries)
         /\ DOMAIN f = {"deny", "allow", "agent_uids", "approver_uids", "method",
                        "secret_path"}
<1>1. /\ Table({"sh", "bash", "zsh", "fish"}, Absent) \in RawMatcher
      /\ Table({"dd", "mkfs", "fdisk", "parted"}, Absent) \in RawMatcher
      /\ Table({"tee", "chmod", "chown"}, Absent) \in RawMatcher
      /\ Table({"visudo", "su", "sudo"}, Absent) \in RawMatcher
      /\ Table({"vi", "vim", "nano"}, Absent) \in RawMatcher
      /\ Table({"python", "perl"}, Absent) \in RawMatcher
      /\ Bare("env") \in RawMatcher
  BY Zenon DEF RawMatcher
<1>2. Bare("id") \in RawMatcher /\ Table(Absent, TRUE) \in RawMatcher
  BY Zenon DEF RawMatcher, Raws
<1>3. \A a, b \in RawMatcher : <<a, b>> \in Seq(RawMatcher) /\ <<a>> \in Seq(RawMatcher)
  OBVIOUS
<1>4. \A r1, r2, r3, r4, r5, r6, r7 \in Seq(RawMatcher) :
        <<r1, r2, r3, r4, r5, r6, r7>> \in Seq(Seq(RawMatcher))
  OBVIOUS
<1>5. \A raws \in Seq(RawMatcher) : <<AllowEntry(raws)>> \in Seq(AllowEntries)
  <2>1. \A raws \in Seq(RawMatcher) : AllowEntry(raws) \in AllowEntries
    BY DEF AllowEntry, AllowEntries
  <2> QED
    BY <2>1
<1>6. /\ <<Table({"sh", "bash", "zsh", "fish"}, Absent), Table(Absent, TRUE)>> \in Seq(RawMatcher)
      /\ <<Table({"dd", "mkfs", "fdisk", "parted"}, Absent), Table(Absent, TRUE)>> \in Seq(RawMatcher)
      /\ <<Table({"tee", "chmod", "chown"}, Absent), Table(Absent, TRUE)>> \in Seq(RawMatcher)
      /\ <<Table({"visudo", "su", "sudo"}, Absent), Table(Absent, TRUE)>> \in Seq(RawMatcher)
      /\ <<Bare("env"), Table(Absent, TRUE)>> \in Seq(RawMatcher)
      /\ <<Table({"vi", "vim", "nano"}, Absent), Table(Absent, TRUE)>> \in Seq(RawMatcher)
      /\ <<Table({"python", "perl"}, Absent), Table(Absent, TRUE)>> \in Seq(RawMatcher)
      /\ <<Bare("id")>> \in Seq(RawMatcher)
  BY <1>1, <1>2, <1>3, Zenon
<1>7. f.deny \in Seq(Seq(RawMatcher))
  BY <1>4, <1>6 DEF DefaultConfig
<1>8. f.allow \in Seq(AllowEntries)
  BY <1>5, <1>6 DEF DefaultConfig
<1>9. DOMAIN f = {"deny", "allow", "agent_uids", "approver_uids", "method", "secret_path"}
  BY DEF DefaultConfig
<1> QED
  BY <1>7, <1>8, <1>9

LEMMA FileInit == Init => FileTyped
<1> SUFFICES ASSUME Init PROVE FileTyped
  OBVIOUS
<1>1. CASE fc = Blank
  BY <1>1 DEF Blank, FileTyped, IsFile
<1>2. CASE fc = DefaultConfig
  BY <1>2, DefaultTyped DEF FileTyped, IsFile
<1> QED
  BY <1>1, <1>2 DEF Init

LEMMA AppendTyped ==
  ASSUME NEW S, NEW s \in Seq(S), NEW e \in S
  PROVE  Append(s, e) \in Seq(S)
OBVIOUS

LEMMA FileStep == FileTyped /\ [Next]_<<fc, line>> => FileTyped'
<1> SUFFICES ASSUME FileTyped, [Next]_<<fc, line>> PROVE FileTyped'
  OBVIOUS
<1>1. ASSUME NEW raws \in DenyRaws, AddDeny(raws) PROVE FileTyped'
  <2>1. raws \in Seq(RawMatcher)
    BY EntriesTyped
  <2>2. fc' = [fc EXCEPT !.deny = Append(fc.deny, raws)]
    BY <1>1 DEF AddDeny
  <2>3. fc'.deny = Append(fc.deny, raws) /\ fc'.allow = fc.allow /\ DOMAIN fc' = DOMAIN fc
    BY <2>2 DEF FileTyped, IsFile
  <2>4. Append(fc.deny, raws) \in Seq(Seq(RawMatcher))
    BY <2>1, AppendTyped DEF FileTyped, IsFile
  <2> QED
    BY <2>3, <2>4 DEF FileTyped, IsFile
<1>2. ASSUME NEW raws \in AllowRaws, AddAllow(raws) PROVE FileTyped'
  <2>1. PICK e : e = [argv |-> raws, ttl |-> Len(fc.allow) + 1, rate |-> Len(fc.allow)]
    OBVIOUS
  <2>2. e \in AllowEntries
    <3>1. raws \in Seq(RawMatcher) /\ Len(fc.allow) \in Nat
      BY EntriesTyped DEF FileTyped, IsFile
    <3> QED
      BY <2>1, <3>1 DEF AllowEntries
  <2>3. fc' = [fc EXCEPT !.allow = Append(fc.allow, e)]
    BY <1>2, <2>1 DEF AddAllow
  <2>4. fc'.allow = Append(fc.allow, e) /\ fc'.deny = fc.deny /\ DOMAIN fc' = DOMAIN fc
    BY <2>3 DEF FileTyped, IsFile
  <2>5. Append(fc.allow, e) \in Seq(AllowEntries)
    BY <2>2, AppendTyped DEF FileTyped, IsFile
  <2> QED
    BY <2>4, <2>5 DEF FileTyped, IsFile
<1>3. ASSUME NEW m, NEW s, Finish(m, s) PROVE FileTyped'
  <2>1. fc' = [fc EXCEPT !.agent_uids = {1000}, !.approver_uids = {1000},
                         !.method = m, !.secret_path = s]
    BY <1>3 DEF Finish
  <2>2. fc'.deny = fc.deny /\ fc'.allow = fc.allow /\ DOMAIN fc' = DOMAIN fc
    BY <2>1 DEF FileTyped, IsFile
  <2> QED
    BY <2>2 DEF FileTyped, IsFile
<1>4. ASSUME UNCHANGED fc PROVE FileTyped'
  BY <1>4 DEF FileTyped, IsFile
<1> QED
  BY <1>1, <1>2, <1>3, <1>4 DEF Next, Type

\* Whatever the rules, the loop of the code and the shape of the rules decide
\* every request alike.
THEOREM ConfigEvaluates == Spec => []EvaluateIsReference
<1>1. FileTyped => EvaluateIsReference
  <2> SUFFICES ASSUME FileTyped, RulesOk, NEW argv \in Argvs
               PROVE  Evaluate(BuildPolicy(fc), argv) = RefEvaluate(BuildPolicy(fc), argv)
    BY DEF EvaluateIsReference
  <2>1. argv \in Seq(Small) /\ WellBuilt(BuildPolicy(fc), Matchers)
    BY ArgvTyped, PolicyWellBuilt DEF Argvs, FileTyped, RulesOk, Acceptable
  <2> QED
    BY <2>1, EvaluateShape
<1> QED
  BY <1>1, FileInit, FileStep, PTL DEF Spec

\* The argv passes every check that comes before the allow rules.
Passes(policy, argv) ==
  /\ argv # <<>>
  /\ \A i \in DOMAIN argv : argv[i] \notin Control
  /\ \A i \in DOMAIN policy.deny : ~ RefMatch(policy.deny[i], argv)

\* A verdict is the lowest rule that admits an argv no deny rule matches.
LEMMA Verdicts ==
  ASSUME NEW M, NEW T, NEW policy, WellBuilt(policy, M), NEW argv \in Seq(T),
         NEW v, v = Evaluate(policy, argv)
  PROVE  \/ /\ v = Refused
            /\ ~ Passes(policy, argv) \/ Admitting(policy, argv) = {}
         \/ /\ v \in Admitting(policy, argv)
            /\ \A j \in Admitting(policy, argv) : v <= j
            /\ v # Refused /\ Passes(policy, argv)
<1>1. PICK I : I = Admitting(policy, argv)
  OBVIOUS
<1>2. I = {i \in DOMAIN policy.allow : RefMatch(policy.allow[i], argv)}
  BY <1>1 DEF Admitting, WellBuilt
<1>3. v = IF Passes(policy, argv) /\ I # {}
          THEN CHOOSE i \in I : \A j \in I : i <= j ELSE Refused
  BY <1>2, EvaluateShape, Zenon DEF RefEvaluate, Passes
<1>4. CASE Passes(policy, argv) /\ I # {}
  <2>1. I \subseteq Nat \ {0}
    BY <1>1 DEF Admitting
  <2>2. PICK m \in I : \A j \in I : m <= j
    BY <1>4, <2>1, Least
  <2>3. v \in I /\ \A j \in I : v <= j
    BY <1>3, <1>4, <2>2, Zenon
  <2> QED
    BY <1>1, <1>4, <2>1, <2>3 DEF Refused
<1> QED
  BY <1>1, <1>3, <1>4

\* The knobs a verdict selects are those of the entry that admitted the argv.
THEOREM ConfigBundleAligned == Spec => []BundleAligned
<1>1. FileTyped => BundleAligned
  <2> SUFFICES ASSUME FileTyped, Validate(fc) PROVE BundleAligned
    BY DEF BundleAligned
  <2>1. PICK b : b = BundleFromFileCfg(fc)
    OBVIOUS
  <2>2. PICK p : p = BuildPolicy(fc)
    OBVIOUS
  <2>3. /\ b.policy = p /\ b.agent_uids = fc.agent_uids
        /\ b.scopes = [i \in DOMAIN fc.allow |->
                         [ttl |-> fc.allow[i].ttl, rate |-> fc.allow[i].rate]]
    BY <2>1, <2>2 DEF BundleFromFileCfg, RuleScoping
  <2>4. RulesOk
    BY DEF Validate, RulesOk
  <2>5. WellBuilt(p, Matchers) /\ Len(p.allow) = Len(fc.allow)
    BY <2>2, <2>4, PolicyWellBuilt, BuildPolicyTyped DEF FileTyped, RulesOk, Acceptable
  <2>6. ASSUME NEW i \in DOMAIN p.allow
        PROVE  /\ p.allow[i] # <<>>
               /\ \A k \in DOMAIN p.allow[i] : p.allow[i][k] = Rest => k = Len(p.allow[i])
    <3>1. PICK rule : rule = p.allow[i]
      OBVIOUS
    <3>2. rule \in Seq(Matchers) /\ WellFormed(rule)
      BY <2>5, <3>1 DEF WellBuilt
    <3> QED
      BY <3>1, <3>2 DEF WellFormed
  <2>7. ASSUME NEW argv \in Argvs, NEW r, r = Evaluate(p, argv), r # Refused
        PROVE  /\ r \in DOMAIN b.scopes
               /\ b.scopes[r].ttl = fc.allow[r].ttl
               /\ b.scopes[r].rate = fc.allow[r].rate
               /\ RefMatch(p.allow[r], argv)
    <3>1. argv \in Seq(Small)
      BY ArgvTyped DEF Argvs
    <3>2. r \in Admitting(p, argv)
      BY <2>5, <2>7, <3>1, Verdicts
    <3>3. r \in 1 .. Len(p.allow) /\ RefMatch(p.allow[r], argv)
      BY <3>2 DEF Admitting
    <3>4. DOMAIN fc.allow = 1 .. Len(fc.allow)
      BY DEF FileTyped, IsFile
    <3> QED
      BY <2>3, <2>5, <3>3, <3>4
  <2>8. fc.agent_uids # {} /\ (fc.method = "totp" => fc.secret_path)
    BY DEF Validate
  <2> QED
    BY <2>1, <2>3, <2>6, <2>7, <2>8, Zenon DEF BundleAligned
<1> QED
  BY <1>1, FileInit, FileStep, PTL DEF Spec

\* The directory part of the program changes no verdict, unless there is a
\* control character in it: an argv with one is refused before any rule is
\* looked at, whatever its bare name is worth.
THEOREM ConfigPathIndifferent == Spec => []PathIndifferent
<1>1. FileTyped => PathIndifferent
  <2> SUFFICES ASSUME FileTyped, RulesOk, NEW argv \in Argvs, argv # <<>>,
                      NEW bare, bare = [argv EXCEPT ![1] = Basename[argv[1]]]
               PROVE  Evaluate(BuildPolicy(fc), argv) =
                        IF HasControlChar(argv) THEN Refused
                        ELSE Evaluate(BuildPolicy(fc), bare)
    BY DEF PathIndifferent
  <2>1. PICK p : p = BuildPolicy(fc)
    OBVIOUS
  <2>2. WellBuilt(p, Matchers)
    BY <2>1, PolicyWellBuilt DEF FileTyped, RulesOk, Acceptable
  <2>3. argv \in Seq(Small) /\ argv \in Seq(Token) /\ Len(argv) \in Nat \ {0}
    BY ArgvTyped, InstanceAssumption DEF Argvs, Tokens
  <2>4. argv[1] \in Small /\ argv[1] \in Token
    BY <2>3
  <2>5. /\ bare \in Seq(Token) /\ Len(bare) = Len(argv) /\ bare # <<>>
        /\ bare[1] = Basename[argv[1]] /\ \A i \in 2 .. Len(argv) : bare[i] = argv[i]
    BY <2>3, <2>4, TokenAssumption
  <2>6. Basename[bare[1]] = Basename[argv[1]]
    BY <2>4, <2>5, TokenAssumption
  <2>7. ASSUME NEW rule PROVE RefMatch(rule, bare) <=> RefMatch(rule, argv)
    <3>1. ASSUME NEW fixed, Len(argv) >= fixed, NEW i \in 1 .. fixed
          PROVE  (IF i = 1 THEN Basename[bare[i]] ELSE bare[i])
                   = (IF i = 1 THEN Basename[argv[i]] ELSE argv[i])
      BY <2>3, <2>5, <2>6, <3>1
    <3> QED
      BY <2>3, <2>5, <3>1 DEF RefMatch
  <2>8. PICK v, w : v = Evaluate(p, argv) /\ w = Evaluate(p, bare)
    OBVIOUS
  <2>9. \/ v = Refused /\ (~ Passes(p, argv) \/ Admitting(p, argv) = {})
        \/ /\ v \in Admitting(p, argv) /\ \A j \in Admitting(p, argv) : v <= j
           /\ v # Refused /\ Passes(p, argv)
    BY <2>2, <2>3, <2>8, Verdicts
  <2>10. \/ w = Refused /\ (~ Passes(p, bare) \/ Admitting(p, bare) = {})
         \/ /\ w \in Admitting(p, bare) /\ \A j \in Admitting(p, bare) : w <= j
            /\ w # Refused /\ Passes(p, bare)
    BY <2>2, <2>5, <2>8, Verdicts
  <2>11. CASE HasControlChar(argv)
    <3>1. ~ Passes(p, argv)
      BY <2>11 DEF Passes, HasControlChar
    <3>2. v = Refused
      BY <2>9, <3>1
    <3> QED
      BY <2>1, <2>8, <2>11, <3>2
  <2>12. CASE ~ HasControlChar(argv)
    <3>0. \A i \in 1 .. Len(argv) : argv[i] \notin Control
      BY <2>3, <2>12 DEF HasControlChar
    <3>1. \A i \in 1 .. Len(argv) : argv[i] \notin Control /\ bare[i] \notin Control
      <4>1. argv[1] \notin Control /\ 1 \in 1 .. Len(argv)
        BY <2>3, <3>0
      <4>2. bare[1] \notin Control
        BY <2>4, <2>5, <4>1, TokenAssumption
      <4> QED
        BY <2>3, <2>5, <3>0, <4>2
    <3>2. Admitting(p, argv) = Admitting(p, bare) /\ (Passes(p, argv) <=> Passes(p, bare))
      <4>1. (\A i \in DOMAIN bare : bare[i] \notin Control)
              <=> (\A i \in DOMAIN argv : argv[i] \notin Control)
        BY <2>3, <2>5, <3>1
      <4> QED
        BY <2>5, <2>7, <4>1 DEF Admitting, Passes
    <3>3. Admitting(p, argv) \subseteq Nat \ {0}
      BY DEF Admitting
    <3>4. v = w
      <4>1. CASE v \in Admitting(p, argv) /\ w \in Admitting(p, argv)
        <5>1. v <= w /\ w <= v /\ v \in Nat /\ w \in Nat
          BY <2>9, <2>10, <3>2, <3>3, <4>1 DEF Refused
        <5> QED
          BY <5>1
      <4> QED
        BY <2>9, <2>10, <3>2, <4>1
    <3> QED
      BY <2>1, <2>8, <2>12, <3>4
  <2> QED
    BY <2>11, <2>12
<1> QED
  BY <1>1, FileInit, FileStep, PTL DEF Spec

\* A further deny rule only refuses more.
LEMMA DenyRefusesMore ==
  ASSUME NEW M, NEW T, NEW p, WellBuilt(p, M), NEW q, WellBuilt(q, M),
         NEW argv \in Seq(T), q.allow = p.allow,
         Len(p.deny) <= Len(q.deny),
         \A i \in 1 .. Len(p.deny) : q.deny[i] = p.deny[i]
  PROVE  Evaluate(q, argv) \in {Evaluate(p, argv), Refused}
<1>1. Admitting(q, argv) = Admitting(p, argv)
  BY DEF Admitting
<1>2. Passes(q, argv) => Passes(p, argv)
  <2>1. /\ DOMAIN p.deny = 1 .. Len(p.deny) /\ DOMAIN q.deny = 1 .. Len(q.deny)
        /\ Len(p.deny) \in Nat /\ Len(q.deny) \in Nat
    BY DEF WellBuilt
  <2>2. \A i \in DOMAIN p.deny : i \in DOMAIN q.deny /\ q.deny[i] = p.deny[i]
    BY <2>1
  <2> QED
    BY <2>2 DEF Passes
<1>3. PICK v, w : v = Evaluate(p, argv) /\ w = Evaluate(q, argv)
  OBVIOUS
<1>4. \A i \in Admitting(p, argv) : i \in Nat
  BY DEF Admitting
<1> QED
  BY <1>1, <1>2, <1>3, <1>4, Verdicts

\* A further allow rule moves no rule that was there.
LEMMA AllowMovesNone ==
  ASSUME NEW M, NEW T, NEW p, WellBuilt(p, M), NEW q, WellBuilt(q, M),
         NEW argv \in Seq(T), q.deny = p.deny,
         Len(p.allow) <= Len(q.allow),
         \A i \in 1 .. Len(p.allow) : q.allow[i] = p.allow[i],
         Evaluate(p, argv) # Refused
  PROVE  Evaluate(q, argv) = Evaluate(p, argv)
<1>1. Passes(q, argv) <=> Passes(p, argv)
  BY DEF Passes
<1>2. PICK v, w : v = Evaluate(p, argv) /\ w = Evaluate(q, argv)
  OBVIOUS
<1>3. \A i \in 1 .. Len(p.allow) : i \in Admitting(q, argv) <=> i \in Admitting(p, argv)
  BY DEF Admitting, WellBuilt
<1>4. /\ v \in Admitting(p, argv) /\ \A j \in Admitting(p, argv) : v <= j
      /\ Passes(p, argv)
  BY <1>2, Verdicts
<1>5. /\ w \in Admitting(q, argv) /\ \A j \in Admitting(q, argv) : w <= j
  BY <1>1, <1>2, <1>3, <1>4, Verdicts DEF Admitting
<1>6. v \in 1 .. Len(p.allow) /\ w \in Nat \ {0} /\ Len(p.allow) \in Nat
  BY <1>4, <1>5 DEF Admitting, WellBuilt
<1>7. w <= v
  BY <1>3, <1>4, <1>5, <1>6
<1>8. w \in 1 .. Len(p.allow)
  BY <1>6, <1>7
<1>9. v <= w
  BY <1>3, <1>4, <1>5, <1>8
<1> QED
  BY <1>2, <1>6, <1>7, <1>9

\* Appending to a file, rule by rule and up to the knobs, moves nothing.
THEOREM ConfigAppendStable == Spec => AppendStable
<1> DEFINE Stable == (RulesOk /\ RulesOk') =>
             \A argv \in Argvs :
               LET old == Evaluate(BuildPolicy(fc), argv)
                   new == Evaluate(BuildPolicy(fc'), argv)
               IN  IF fc'.deny # fc.deny THEN new \in {old, Refused}
                   ELSE old # Refused => new = old
<1>1. FileTyped /\ FileTyped' /\ [Next]_<<fc, line>> => Stable
  <2> SUFFICES ASSUME FileTyped, FileTyped', [Next]_<<fc, line>>, RulesOk, RulesOk',
                      NEW argv \in Argvs,
                      NEW old, old = Evaluate(BuildPolicy(fc), argv),
                      NEW new, new = Evaluate(BuildPolicy(fc'), argv)
               PROVE  IF fc'.deny # fc.deny THEN new \in {old, Refused}
                      ELSE old # Refused => new = old
    OBVIOUS
  <2>1. PICK g : g = fc'
    OBVIOUS
  <2>2. PICK p, q : p = BuildPolicy(fc) /\ q = BuildPolicy(g)
    OBVIOUS
  <2>3. argv \in Seq(Small)
    BY ArgvTyped DEF Argvs
  <2>4. IsFile(fc) /\ IsFile(g) /\ Acceptable(fc) /\ Acceptable(g)
    BY <2>1 DEF FileTyped, RulesOk, Acceptable
  <2>5. WellBuilt(p, Matchers) /\ WellBuilt(q, Matchers)
    BY <2>2, <2>4, PolicyWellBuilt
  <2>6. ASSUME NEW raws, AddDeny(raws)
        PROVE  new \in {old, Refused} /\ g.deny # fc.deny
    <3>1. g.deny = Append(fc.deny, raws) /\ g.allow = fc.allow
      BY <2>1, <2>4, <2>6 DEF AddDeny, IsFile
    <3>2. Len(g.deny) = Len(fc.deny) + 1 /\ \A i \in 1 .. Len(fc.deny) : g.deny[i] = fc.deny[i]
      BY <2>4, <3>1 DEF IsFile
    <3>3. Len(p.deny) <= Len(q.deny) /\ \A i \in 1 .. Len(p.deny) : q.deny[i] = p.deny[i]
      <4>1. /\ Len(p.deny) = Len(fc.deny)
            /\ \A i \in 1 .. Len(fc.deny) : p.deny[i] = BuildRule(fc.deny[i])
        BY <2>2, <2>4, BuildPolicyTyped
      <4>2. /\ Len(q.deny) = Len(g.deny)
            /\ \A i \in 1 .. Len(g.deny) : q.deny[i] = BuildRule(g.deny[i])
        BY <2>2, <2>4, BuildPolicyTyped
      <4>3. Len(fc.deny) \in Nat
        BY <2>4 DEF IsFile
      <4>4. ASSUME NEW i \in 1 .. Len(fc.deny) PROVE q.deny[i] = p.deny[i]
        <5>1. i \in 1 .. Len(g.deny) /\ g.deny[i] = fc.deny[i]
          BY <3>2, <4>3
        <5>2. p.deny[i] = BuildRule(fc.deny[i])
          BY <4>1, Zenon
        <5>3. q.deny[i] = BuildRule(g.deny[i])
          BY <4>2, <5>1, Zenon
        <5> QED
          BY <5>1, <5>2, <5>3, Zenon
      <4>5. Len(p.deny) <= Len(q.deny)
        BY <3>2, <4>1, <4>2, <4>3
      <4>6. 1 .. Len(p.deny) = 1 .. Len(fc.deny)
        BY <4>1, Zenon
      <4> QED
        BY <4>4, <4>5, <4>6, Zenon
    <3>4. q.allow = p.allow
      BY <2>2, <3>1 DEF BuildPolicy
    <3>5. new \in {old, Refused}
      BY <2>1, <2>2, <2>3, <2>5, <3>3, <3>4, DenyRefusesMore
    <3> QED
      BY <2>4, <3>2, <3>5 DEF IsFile
  <2>7. ASSUME NEW raws, AddAllow(raws), old # Refused
        PROVE  new = old /\ g.deny = fc.deny
    <3>1. PICK e : g.allow = Append(fc.allow, e) /\ g.deny = fc.deny
      BY <2>1, <2>4, <2>7 DEF AddAllow, IsFile
    <3>2. Len(g.allow) = Len(fc.allow) + 1 /\ \A i \in 1 .. Len(fc.allow) : g.allow[i] = fc.allow[i]
      BY <2>4, <3>1 DEF IsFile
    <3>3. Len(p.allow) <= Len(q.allow) /\ \A i \in 1 .. Len(p.allow) : q.allow[i] = p.allow[i]
      <4>1. /\ Len(p.allow) = Len(fc.allow)
            /\ \A i \in 1 .. Len(fc.allow) : p.allow[i] = BuildRule(fc.allow[i].argv)
        BY <2>2, <2>4, BuildPolicyTyped
      <4>2. /\ Len(q.allow) = Len(g.allow)
            /\ \A i \in 1 .. Len(g.allow) : q.allow[i] = BuildRule(g.allow[i].argv)
        BY <2>2, <2>4, BuildPolicyTyped
      <4>3. Len(fc.allow) \in Nat
        BY <2>4 DEF IsFile
      <4>4. ASSUME NEW i \in 1 .. Len(fc.allow) PROVE q.allow[i] = p.allow[i]
        <5>1. i \in 1 .. Len(g.allow) /\ g.allow[i] = fc.allow[i]
          BY <3>2, <4>3
        <5>2. p.allow[i] = BuildRule(fc.allow[i].argv)
          BY <4>1, Zenon
        <5>3. q.allow[i] = BuildRule(g.allow[i].argv)
          BY <4>2, <5>1, Zenon
        <5> QED
          BY <5>1, <5>2, <5>3, Zenon
      <4>5. Len(p.allow) <= Len(q.allow)
        BY <3>2, <4>1, <4>2, <4>3
      <4>6. 1 .. Len(p.allow) = 1 .. Len(fc.allow)
        BY <4>1, Zenon
      <4> QED
        BY <4>4, <4>5, <4>6, Zenon
    <3>4. q.deny = p.deny
      BY <2>2, <3>1 DEF BuildPolicy
    <3>5. new = old
      BY <2>1, <2>2, <2>3, <2>5, <2>7, <3>3, <3>4, AllowMovesNone
    <3> QED
      BY <3>1, <3>5
  <2>8. ASSUME NEW raws, AddAllow(raws) PROVE g.deny = fc.deny
    BY <2>1, <2>4, <2>8 DEF AddAllow, IsFile
  <2>9. ASSUME (\E m, s : Finish(m, s)) \/ UNCHANGED fc PROVE g.deny = fc.deny /\ new = old
    <3>1. g.deny = fc.deny /\ g.allow = fc.allow
      <4>1. CASE UNCHANGED fc
        BY <2>1, <4>1
      <4>2. ASSUME NEW m, NEW s, Finish(m, s) PROVE g.deny = fc.deny /\ g.allow = fc.allow
        BY <2>1, <2>4, <4>2 DEF Finish, IsFile
      <4> QED
        BY <2>9, <4>1, <4>2
    <3>2. p = q
      BY <2>2, <3>1 DEF BuildPolicy
    <3> QED
      BY <2>1, <2>2, <3>1, <3>2
  <2> QED
    BY <2>1, <2>6, <2>7, <2>8, <2>9 DEF Next, Type
<1> QED
  BY <1>1, FileInit, FileStep, PTL DEF Spec, AppendStable

-----------------------------------------------------------------------------
(* The default file. *)

\* The programs each of its deny rules names, by pattern or verbatim.
DefaultRaws ==
  <<Table({"sh", "bash", "zsh", "fish"}, Absent),
    Table({"dd", "mkfs", "fdisk", "parted"}, Absent),
    Table({"tee", "chmod", "chown"}, Absent),
    Table({"visudo", "su", "sudo"}, Absent),
    Bare("env"),
    Table({"vi", "vim", "nano"}, Absent),
    Table({"python", "perl"}, Absent)>>

\* A key that is absent and a pattern that does not compile are no patterns.
LEMMA KeysDistinct ==
  Absent \notin {TRUE} \cup SUBSET Denied /\ BadPattern \notin SUBSET Denied
BY InstanceAssumption

\* Each of them is acceptable, and together they name the denied programs.
LEMMA DefaultNames ==
  /\ \A i \in 1 .. 7 : RawOk(DefaultRaws[i]) /\ ToMatcher(DefaultRaws[i]) # Rest
  /\ \A t \in Denied : \E i \in 1 .. 7 : t \in ToMatcher(DefaultRaws[i]).accepts
  /\ \A i \in 1 .. 7 : "id" \notin ToMatcher(DefaultRaws[i]).accepts
  /\ \A i \in 1 .. 7 : ToMatcher(DefaultRaws[i]).accepts \subseteq Denied
<1>1. ASSUME NEW S \in SUBSET Denied
      PROVE  /\ RawOk(Table(S, Absent)) /\ ToMatcher(Table(S, Absent)) # Rest
             /\ ToMatcher(Table(S, Absent)).accepts = S
  BY KeysDistinct DEF RawOk, ToMatcher, Table, Regex, Rest
<1>2. /\ RawOk(Bare("env")) /\ ToMatcher(Bare("env")) # Rest
      /\ ToMatcher(Bare("env")).accepts = {"env"}
  BY DEF RawOk, ToMatcher, Bare, Literal, Rest
<1>3. /\ {"sh", "bash", "zsh", "fish"} \in SUBSET Denied
      /\ {"dd", "mkfs", "fdisk", "parted"} \in SUBSET Denied
      /\ {"tee", "chmod", "chown"} \in SUBSET Denied
      /\ {"visudo", "su", "sudo"} \in SUBSET Denied
      /\ {"vi", "vim", "nano"} \in SUBSET Denied
      /\ {"python", "perl"} \in SUBSET Denied
  BY DEF Denied
<1>4. /\ DefaultRaws[1] = Table({"sh", "bash", "zsh", "fish"}, Absent)
      /\ DefaultRaws[2] = Table({"dd", "mkfs", "fdisk", "parted"}, Absent)
      /\ DefaultRaws[3] = Table({"tee", "chmod", "chown"}, Absent)
      /\ DefaultRaws[4] = Table({"visudo", "su", "sudo"}, Absent)
      /\ DefaultRaws[5] = Bare("env")
      /\ DefaultRaws[6] = Table({"vi", "vim", "nano"}, Absent)
      /\ DefaultRaws[7] = Table({"python", "perl"}, Absent)
  BY DEF DefaultRaws
<1>5. PICK a \in [1 .. 7 -> SUBSET Denied] :
        /\ a[1] = {"sh", "bash", "zsh", "fish"} /\ a[2] = {"dd", "mkfs", "fdisk", "parted"}
        /\ a[3] = {"tee", "chmod", "chown"} /\ a[4] = {"visudo", "su", "sudo"}
        /\ a[5] = {"env"} /\ a[6] = {"vi", "vim", "nano"} /\ a[7] = {"python", "perl"}
        /\ \A i \in 1 .. 7 : ToMatcher(DefaultRaws[i]).accepts = a[i]
  <2> DEFINE a == [i \in 1 .. 7 |-> ToMatcher(DefaultRaws[i]).accepts]
  <2>1. /\ a[1] = {"sh", "bash", "zsh", "fish"} /\ a[2] = {"dd", "mkfs", "fdisk", "parted"}
        /\ a[3] = {"tee", "chmod", "chown"} /\ a[4] = {"visudo", "su", "sudo"}
        /\ a[5] = {"env"} /\ a[6] = {"vi", "vim", "nano"} /\ a[7] = {"python", "perl"}
    BY <1>1, <1>2, <1>3, <1>4
  <2>2. {"env"} \in SUBSET Denied
    BY DEF Denied
  <2>3. \A i \in 1 .. 7 : i = 1 \/ i = 2 \/ i = 3 \/ i = 4 \/ i = 5 \/ i = 6 \/ i = 7
    OBVIOUS
  <2>4. \A i \in 1 .. 7 : a[i] = ToMatcher(DefaultRaws[i]).accepts
    OBVIOUS
  <2>5. a = [i \in 1 .. 7 |-> a[i]]
    OBVIOUS
  <2> HIDE DEF a
  <2>6. a \in [1 .. 7 -> SUBSET Denied]
    BY <1>3, <2>1, <2>2, <2>3, <2>5
  <2> QED
    BY <2>1, <2>4, <2>6
<1>6. \A i \in 1 .. 7 : i = 1 \/ i = 2 \/ i = 3 \/ i = 4 \/ i = 5 \/ i = 6 \/ i = 7
  OBVIOUS
<1>7. \A i \in 1 .. 7 : RawOk(DefaultRaws[i]) /\ ToMatcher(DefaultRaws[i]) # Rest
  <2>1. \A i \in 1 .. 7 : \/ \E S \in SUBSET Denied : DefaultRaws[i] = Table(S, Absent)
                         \/ DefaultRaws[i] = Bare("env")
    BY <1>3, <1>4, <1>6
  <2> QED
    BY <1>1, <1>2, <2>1
<1>8. \A t \in Denied : \E i \in 1 .. 7 : t \in a[i]
  BY <1>5 DEF Denied
<1>9. \A i \in 1 .. 7 : "id" \notin a[i]
  BY <1>5, <1>6
<1> QED
  BY <1>5, <1>7, <1>8, <1>9

\* What a rule of the default file matches: a program it names, with any
\* arguments.
LEMMA AnyArgsMatches ==
  ASSUME NEW raw, RawOk(raw), ToMatcher(raw) # Rest,
         NEW S, NEW raws \in Seq(S), Len(raws) = 2,
         raws[1] = raw, raws[2] = Table(Absent, TRUE)
  PROVE  /\ RuleOk(raws)
         /\ \A T : \A argv \in Seq(T) :
              RefMatch(BuildRule(raws), argv)
                <=> argv # <<>> /\ Basename[argv[1]] \in ToMatcher(raw).accepts
<1>1. RawOk(Table(Absent, TRUE)) /\ ToMatcher(Table(Absent, TRUE)) = Rest
  BY DEF RawOk, ToMatcher, Table
<1>2. PICK rule : rule = BuildRule(raws)
  OBVIOUS
<1>3. DOMAIN raws = 1 .. 2 /\ raws[1] = raw /\ raws[2] = Table(Absent, TRUE)
  OBVIOUS
<1>4. /\ rule = [i \in 1 .. 2 |-> ToMatcher(raws[i])]
      /\ Len(rule) = 2 /\ rule[1] = ToMatcher(raw) /\ rule[2] = Rest /\ rule # <<>>
  <2>1. rule = [i \in 1 .. 2 |-> ToMatcher(raws[i])]
    BY <1>2, <1>3 DEF BuildRule
  <2>2. rule \in Seq({ToMatcher(s) : s \in S}) /\ Len(rule) = 2
    BY <1>3, <2>1
  <2>3. rule[1] = ToMatcher(raws[1]) /\ rule[2] = ToMatcher(raws[2])
    <3>1. \A i \in 1 .. 2 : rule[i] = ToMatcher(raws[i])
      BY <2>1, Zenon
    <3>2. 1 \in 1 .. 2 /\ 2 \in 1 .. 2
      OBVIOUS
    <3> QED
      BY <3>1, <3>2, Zenon
  <2>4. rule # <<>>
    BY <2>2
  <2> QED
    BY <1>1, <1>3, <2>1, <2>2, <2>3, <2>4
<1>5. RuleOk(raws)
  <2>1. \A i \in DOMAIN raws : RawOk(raws[i])
    <3>1. \A i \in DOMAIN raws : i = 1 \/ i = 2
      BY <1>3
    <3> QED
      BY <1>1, <1>3, <3>1, Zenon
  <2>2. WellFormed(rule)
    BY <1>4 DEF WellFormed
  <2> QED
    BY <1>2, <2>1, <2>2 DEF RuleOk
<1>6. ASSUME NEW T, NEW argv \in Seq(T)
      PROVE  RefMatch(rule, argv) <=> argv # <<>> /\ Basename[argv[1]] \in ToMatcher(raw).accepts
  BY <1>4 DEF RefMatch
<1> QED
  BY <1>2, <1>5, <1>6

LEMMA DefaultRules ==
  ASSUME NEW f, f = DefaultConfig
  PROVE  /\ Len(f.deny) = 7
         /\ \A i \in 1 .. 7 : f.deny[i] = <<DefaultRaws[i], Table(Absent, TRUE)>>
<1>1. \A i \in 1 .. 7 : i = 1 \/ i = 2 \/ i = 3 \/ i = 4 \/ i = 5 \/ i = 6 \/ i = 7
  OBVIOUS
<1>2. PICK any : any = Table(Absent, TRUE)
  OBVIOUS
<1>3. f.deny = <<<<Table({"sh", "bash", "zsh", "fish"}, Absent), any>>,
                 <<Table({"dd", "mkfs", "fdisk", "parted"}, Absent), any>>,
                 <<Table({"tee", "chmod", "chown"}, Absent), any>>,
                 <<Table({"visudo", "su", "sudo"}, Absent), any>>,
                 <<Bare("env"), any>>,
                 <<Table({"vi", "vim", "nano"}, Absent), any>>,
                 <<Table({"python", "perl"}, Absent), any>>>>
  BY <1>2 DEF DefaultConfig
<1>4. /\ f.deny[1] = <<DefaultRaws[1], any>> /\ f.deny[2] = <<DefaultRaws[2], any>>
      /\ f.deny[3] = <<DefaultRaws[3], any>> /\ f.deny[4] = <<DefaultRaws[4], any>>
      /\ f.deny[5] = <<DefaultRaws[5], any>> /\ f.deny[6] = <<DefaultRaws[6], any>>
      /\ f.deny[7] = <<DefaultRaws[7], any>>
  BY <1>3 DEF DefaultRaws
<1>5. Len(f.deny) = 7
  BY <1>3
<1> QED
  BY <1>1, <1>2, <1>4, <1>5

LEMMA ElementIn ==
  ASSUME NEW S, NEW s \in Seq(S)
  PROVE  DOMAIN s = 1 .. Len(s) /\ Len(s) \in Nat /\ \A i \in 1 .. Len(s) : s[i] \in S
OBVIOUS

LEMMA Pair ==
  ASSUME NEW a, NEW b, NEW s, s = <<a, b>>
  PROVE  s \in Seq({a, b}) /\ Len(s) = 2 /\ s[1] = a /\ s[2] = b
OBVIOUS

\* Its one allow rule admits `id` alone, by whatever path.
LEMMA DefaultAllow ==
  ASSUME NEW raws \in Seq({Bare("id")}), Len(raws) = 1
  PROVE  /\ RuleOk(raws)
         /\ \A T : \A argv \in Seq(T) :
              RefMatch(BuildRule(raws), argv) <=> Len(argv) = 1 /\ Basename[argv[1]] = "id"
<1>1. PICK m : m = ToMatcher(Bare("id"))
  OBVIOUS
<1>2. m # Rest /\ m.accepts = {"id"} /\ RawOk(Bare("id"))
  BY <1>1 DEF ToMatcher, Bare, Literal, Rest, RawOk
<1>3. PICK rule : rule = BuildRule(raws)
  OBVIOUS
<1>4. DOMAIN raws = 1 .. 1 /\ raws[1] = Bare("id")
  <2>1. PICK S : S = {Bare("id")}
    OBVIOUS
  <2>2. raws \in Seq(S)
    BY <2>1
  <2>3. DOMAIN raws = 1 .. Len(raws) /\ \A i \in 1 .. Len(raws) : raws[i] \in S
    BY <2>2, ElementIn, Zenon
  <2>4. 1 \in 1 .. 1
    OBVIOUS
  <2> QED
    BY <2>1, <2>3, <2>4, Zenon
<1>5. Len(rule) = 1 /\ rule[1] = m /\ rule # <<>>
  <2>1. rule = [i \in 1 .. 1 |-> m]
    BY <1>1, <1>3, <1>4 DEF BuildRule
  <2>2. rule \in Seq({m}) /\ Len(rule) = 1
    BY <2>1
  <2> QED
    BY <2>1, <2>2
<1>6. RuleOk(raws)
  BY <1>2, <1>3, <1>4, <1>5 DEF RuleOk, WellFormed
<1>7. ASSUME NEW T, NEW argv \in Seq(T)
      PROVE  RefMatch(rule, argv) <=> Len(argv) = 1 /\ Basename[argv[1]] = "id"
  BY <1>2, <1>5 DEF RefMatch
<1> QED
  BY <1>3, <1>6, <1>7

\* A file that begins with the deny rules of the default one admits no program
\* they name.
LEMMA DefaultDenies ==
  ASSUME NEW file, IsFile(file),
         IsPrefix(DefaultConfig.deny, file.deny),
         NEW p, p = BuildPolicy(file),
         NEW T, NEW argv \in Seq(T), argv # <<>>, Basename[argv[1]] \in Denied
  PROVE  ~ Passes(p, argv)
<1>1. PICK d : d = DefaultConfig.deny
  OBVIOUS
<1>2. Len(d) = 7 /\ \A i \in 1 .. 7 : d[i] = <<DefaultRaws[i], Table(Absent, TRUE)>>
  BY <1>1, DefaultRules
<1>3. PICK i \in 1 .. 7 : Basename[argv[1]] \in ToMatcher(DefaultRaws[i]).accepts
  BY DefaultNames
<1>4. PICK raw : raw = DefaultRaws[i]
  OBVIOUS
<1>5. file.deny[i] = d[i] /\ i \in 1 .. Len(file.deny)
  <2>1. 7 <= Len(file.deny) /\ SubSeq(d, 1, 7) = SubSeq(file.deny, 1, 7)
    BY <1>1, <1>2 DEF IsPrefix
  <2>2. file.deny \in Seq(Seq(RawMatcher)) /\ d \in Seq(Seq(RawMatcher))
    BY <1>1, DefaultTyped DEF IsFile
  <2>3. SubSeq(d, 1, 7)[i] = d[i] /\ SubSeq(file.deny, 1, 7)[i] = file.deny[i]
    BY <1>2, <2>1, <2>2
  <2>4. Len(file.deny) \in Nat
    BY DEF IsFile
  <2>5. file.deny[i] = d[i]
    BY <2>1, <2>3, Zenon
  <2>6. i \in 1 .. Len(file.deny)
    BY <2>1, <2>4
  <2> QED
    BY <2>5, <2>6, Zenon
<1>6. PICK raws : raws = d[i]
  OBVIOUS
<1>7. raws \in Seq({raw, Table(Absent, TRUE)}) /\ Len(raws) = 2 /\ raws[1] = raw
        /\ raws[2] = Table(Absent, TRUE)
  <2>1. raws = <<raw, Table(Absent, TRUE)>>
    BY <1>2, <1>4, <1>6, Zenon
  <2> QED
    BY <2>1, Pair, Zenon
<1>8. RefMatch(BuildRule(raws), argv)
  <2>1. RawOk(raw) /\ ToMatcher(raw) # Rest
    BY <1>4, DefaultNames
  <2>2. Basename[argv[1]] \in ToMatcher(raw).accepts
    BY <1>3, <1>4
  <2> QED
    BY <1>7, <2>1, <2>2, AnyArgsMatches
<1>9. p.deny[i] = BuildRule(raws) /\ i \in DOMAIN p.deny
  <2>1. /\ p.deny \in Seq(Seq(Matchers)) /\ Len(p.deny) = Len(file.deny)
        /\ \A j \in 1 .. Len(file.deny) : p.deny[j] = BuildRule(file.deny[j])
    BY BuildPolicyTyped, Zenon
  <2>2. DOMAIN p.deny = 1 .. Len(p.deny)
    BY <2>1, ElementIn, Zenon
  <2> QED
    BY <1>5, <1>6, <2>1, <2>2, Zenon
<1> QED
  BY <1>8, <1>9 DEF Passes

\* The default file is acceptable, denies no `id` and admits nothing else.
LEMMA DefaultAdmits ==
  ASSUME NEW file, file = DefaultConfig, NEW p, p = BuildPolicy(file)
  PROVE  /\ Acceptable(file) /\ Len(p.allow) = 1
         /\ \A T : \A argv \in Seq(T) :
              /\ RefMatch(p.allow[1], argv) <=> Len(argv) = 1 /\ Basename[argv[1]] = "id"
              /\ argv # <<>> /\ Basename[argv[1]] = "id"
                   => \A i \in DOMAIN p.deny : ~ RefMatch(p.deny[i], argv)
<1>1. IsFile(file)
  BY DefaultTyped DEF IsFile
<1>2. Len(file.deny) = 7 /\ \A i \in 1 .. 7 : file.deny[i] = <<DefaultRaws[i], Table(Absent, TRUE)>>
  BY DefaultRules
<1>3. ASSUME NEW i \in 1 .. 7
      PROVE  /\ RuleOk(file.deny[i])
             /\ \A T : \A argv \in Seq(T) :
                  argv # <<>> /\ Basename[argv[1]] = "id"
                    => ~ RefMatch(BuildRule(file.deny[i]), argv)
  <2>1. PICK raw : raw = DefaultRaws[i]
    OBVIOUS
  <2>2. PICK raws : raws = file.deny[i]
    OBVIOUS
  <2>3. raws \in Seq({raw, Table(Absent, TRUE)}) /\ Len(raws) = 2 /\ raws[1] = raw
          /\ raws[2] = Table(Absent, TRUE)
    <3>1. raws = <<raw, Table(Absent, TRUE)>>
      BY <1>2, <2>1, <2>2, Zenon
    <3> QED
      BY <3>1, Pair, Zenon
  <2>4. RawOk(raw) /\ ToMatcher(raw) # Rest /\ "id" \notin ToMatcher(raw).accepts
    BY <2>1, DefaultNames
  <2>5. RuleOk(raws) /\ \A T : \A argv \in Seq(T) :
          RefMatch(BuildRule(raws), argv)
            <=> argv # <<>> /\ Basename[argv[1]] \in ToMatcher(raw).accepts
    BY <2>3, <2>4, AnyArgsMatches
  <2> QED
    BY <2>2, <2>4, <2>5
<1>4. PICK e : e = AllowEntry(<<Bare("id")>>)
  OBVIOUS
<1>5. file.allow = <<e>>
  BY <1>4 DEF DefaultConfig
<1>6. PICK raws : raws = <<Bare("id")>>
  OBVIOUS
<1>7. e.argv = raws /\ raws \in Seq({Bare("id")}) /\ Len(raws) = 1
  BY <1>4, <1>6 DEF AllowEntry
<1>8. RuleOk(raws) /\ \A T : \A argv \in Seq(T) :
        RefMatch(BuildRule(raws), argv) <=> Len(argv) = 1 /\ Basename[argv[1]] = "id"
  BY <1>7, DefaultAllow
<1>9. Len(file.allow) = 1 /\ file.allow[1].argv = raws
  BY <1>5, <1>7
<1>10. Acceptable(file)
  <2>1. DOMAIN file.deny = 1 .. 7 /\ DOMAIN file.allow = 1 .. 1
    BY <1>1, <1>2, <1>9 DEF IsFile
  <2> QED
    BY <1>3, <1>8, <1>9, <2>1 DEF Acceptable
<1>11. /\ Len(p.allow) = 1 /\ p.allow[1] = BuildRule(raws)
       /\ DOMAIN p.deny = 1 .. 7 /\ \A i \in 1 .. 7 : p.deny[i] = BuildRule(file.deny[i])
  <2>1. /\ p.deny \in Seq(Seq(Matchers)) /\ Len(p.deny) = Len(file.deny)
        /\ Len(p.allow) = Len(file.allow)
        /\ \A i \in 1 .. Len(file.deny) : p.deny[i] = BuildRule(file.deny[i])
        /\ \A i \in 1 .. Len(file.allow) : p.allow[i] = BuildRule(file.allow[i].argv)
    BY <1>1, BuildPolicyTyped, Zenon
  <2>2. 1 \in 1 .. 1
    OBVIOUS
  <2>3. p.allow[1] = BuildRule(raws)
    BY <1>9, <2>1, <2>2, Zenon
  <2>4. DOMAIN p.deny = 1 .. Len(p.deny)
    BY <2>1, ElementIn, Zenon
  <2> QED
    BY <1>2, <1>9, <2>1, <2>3, <2>4, Zenon
<1> QED
  BY <1>3, <1>8, <1>10, <1>11

\* The file `sudixd default-config` prints is valid and admits `id` without
\* arguments and nothing else; whatever is appended to it, it admits none of
\* the programs it denies.
THEOREM ConfigDefaultHolds == Spec => []DefaultHolds
<1>0. /\ Basename["id"] = "id" /\ "id" \notin Control
      /\ \A t \in Small : Basename[t] = "id" => t \in {"id", "/bin/id"} \cup Control
  BY InstanceAssumption, Zenon
<1>1. PICK f, d : f = DefaultConfig /\ d = BuildPolicy(f)
  OBVIOUS
<1>2. IsFile(f) /\ Acceptable(f)
  BY <1>1, DefaultTyped, DefaultAdmits DEF IsFile
<1>3. Validate(f)
  <2>1. f.agent_uids = {1000} /\ f.approver_uids = {1000} /\ f.method = "agent"
    BY <1>1 DEF DefaultConfig
  <2> QED
    BY <1>2, <2>1 DEF Validate, Acceptable
<1>4. WellBuilt(d, Matchers)
  BY <1>1, <1>2, PolicyWellBuilt
<1>5. ASSUME NEW T, NEW argv \in Seq(T)
      PROVE  1 \in Admitting(d, argv) <=> Len(argv) = 1 /\ Basename[argv[1]] = "id"
  BY <1>1, DefaultAdmits DEF Admitting
<1>6. ASSUME NEW argv \in Argvs, Evaluate(d, argv) # Refused
      PROVE  argv \in {<<"id">>, <<"/bin/id">>}
  <2>1. argv \in Seq(Small)
    BY ArgvTyped DEF Argvs
  <2>2. PICK v : v = Evaluate(d, argv)
    OBVIOUS
  <2>3. v \in Admitting(d, argv) /\ Passes(d, argv)
    BY <1>4, <1>6, <2>1, <2>2, Verdicts
  <2>4. v = 1
    BY <1>1, <2>3, DefaultAdmits DEF Admitting
  <2>5. Len(argv) = 1 /\ Basename[argv[1]] = "id"
    BY <1>5, <2>1, <2>3, <2>4
  <2>6. argv[1] \in {"id", "/bin/id"}
    <3>1. argv[1] \in Small
      <4>1. 1 \in 1 .. Len(argv)
        BY <2>5
      <4> QED
        BY <2>1, <4>1, ElementIn, Zenon
    <3>2. argv[1] \notin Control
      <4>1. 1 \in DOMAIN argv
        BY <2>1, <2>5
      <4> QED
        BY <2>3, <4>1 DEF Passes
    <3> QED
      BY <1>0, <2>5, <3>1, <3>2, Zenon
  <2>7. argv = <<argv[1]>>
    BY <2>1, <2>5
  <2> QED
    BY <2>6, <2>7
<1>7. Evaluate(d, <<"id">>) = 1
  <2>1. PICK argv : argv = <<"id">>
    OBVIOUS
  <2>2. argv \in Seq({"id"}) /\ argv # <<>> /\ Len(argv) = 1 /\ argv[1] = "id"
    BY <2>1
  <2>3. \A i \in DOMAIN d.deny : ~ RefMatch(d.deny[i], argv)
    BY <1>0, <1>1, <2>2, DefaultAdmits
  <2>4. Passes(d, argv)
    BY <1>0, <2>2, <2>3 DEF Passes
  <2>5. 1 \in Admitting(d, argv)
    BY <1>0, <1>5, <2>2
  <2>6. PICK v : v = Evaluate(d, argv)
    OBVIOUS
  <2>7. v \in Admitting(d, argv)
    BY <1>4, <2>2, <2>4, <2>5, <2>6, Verdicts
  <2>8. v = 1
    BY <1>1, <2>7, DefaultAdmits DEF Admitting
  <2> QED
    BY <2>1, <2>6, <2>8
<1>8. FileTyped => DefaultHolds
  <2> SUFFICES ASSUME FileTyped, IsPrefix(DefaultConfig.deny, fc.deny) PROVE
               /\ Validate(DefaultConfig)
               /\ Validate(fc) =>
                    LET p == BuildPolicy(fc) IN
                    /\ \A prog \in Tokens : Basename[prog] \in Denied =>
                         \A args \in BoundedSeq(Small, 1) :
                           Evaluate(p, <<prog>> \o args) = Refused
                    /\ fc = DefaultConfig =>
                         /\ Evaluate(p, <<"id">>) = 1
                         /\ \A argv \in Argvs :
                              Evaluate(p, argv) # Refused => argv \in {<<"id">>, <<"/bin/id">>}
    BY Zenon DEF DefaultHolds
  <2>1. PICK p : p = BuildPolicy(fc)
    OBVIOUS
  <2>2. ASSUME Validate(fc), NEW prog \in Tokens, Basename[prog] \in Denied,
               NEW args \in BoundedSeq(Small, 1)
        PROVE  Evaluate(p, <<prog>> \o args) = Refused
    <3>1. WellBuilt(p, Matchers)
      BY <2>1, <2>2, PolicyWellBuilt DEF Validate, FileTyped, Acceptable
    <3>2. PICK argv : argv = <<prog>> \o args
      OBVIOUS
    <3>3. argv \in Seq(Tokens \cup Small) /\ argv # <<>> /\ argv[1] = prog
      <4>1. args \in Seq(Small)
        BY ArgvTyped
      <4> QED
        BY <3>2, <4>1
    <3>4. ~ Passes(p, argv)
      BY <2>1, <2>2, <3>3, DefaultDenies DEF FileTyped
    <3>5. PICK v : v = Evaluate(p, argv)
      OBVIOUS
    <3>6. v = Refused
      BY <3>1, <3>3, <3>4, <3>5, Verdicts
    <3> QED
      BY <3>2, <3>5, <3>6
  <2>3. fc = DefaultConfig => p = d
    BY <1>1, <2>1
  <2> HIDE DEF Argvs
  <2> QED
    BY <1>1, <1>3, <1>6, <1>7, <2>1, <2>2, <2>3, Zenon
<1> QED
  BY <1>8, FileInit, FileStep, PTL DEF Spec

-----------------------------------------------------------------------------
(* The argvs a deny rule is for. *)

\* The elements serde accepts, whatever tokens and patterns they hold.
AnyRaw ==
  {Bare(t) : t \in Token} \cup
  {Table(re, rest) : re \in (SUBSET Token) \cup {Absent, BadPattern},
                     rest \in BOOLEAN \cup {Absent}}

\* A matcher that is not `rest` accepts tokens.
LEMMA RawAccepts ==
  ASSUME NEW raw \in AnyRaw, RawOk(raw)
  PROVE  ToMatcher(raw) = Rest \/ ToMatcher(raw).accepts \subseteq Token
<1>1. ASSUME NEW t \in Token, raw = Bare(t) PROVE ToMatcher(raw).accepts \subseteq Token
  BY <1>1 DEF ToMatcher, Bare, Literal
<1>2. ASSUME NEW re \in (SUBSET Token) \cup {Absent, BadPattern}, NEW rest, raw = Table(re, rest)
      PROVE  ToMatcher(raw) = Rest \/ ToMatcher(raw).accepts \subseteq Token
  <2>1. raw.form = "table" /\ raw.re = re /\ raw.rest = rest
    BY <1>2 DEF Table
  <2>2. CASE re = Absent
    BY <2>1, <2>2 DEF ToMatcher
  <2>3. CASE re # Absent
    <3>1. re # BadPattern
      BY <2>1, <2>3 DEF RawOk
    <3>2. re \in SUBSET Token
      BY <2>3, <3>1
    <3>3. ToMatcher(raw) = Regex(re)
      BY <2>1, <2>3 DEF ToMatcher
    <3> QED
      BY <3>2, <3>3 DEF Regex
  <2> QED
    BY <2>2, <2>3
<1> QED
  BY <1>1, <1>2 DEF AnyRaw

\* What makes a rule void is one of its matchers by itself: if each has a token
\* to accept, those tokens are an argv it matches.
LEMMA MatchersBite ==
  ASSUME NEW M, NEW rule \in Seq(M), WellFormed(rule),
         \A k \in 1 .. Len(rule) : rule[k] = Rest \/ rule[k].accepts \subseteq Token
  PROVE  /\ Bites(rule) => CanBite(rule)
         /\ CanBite(rule) => Bites(rule)
<1>1. PICK n : n = Len(rule)
  OBVIOUS
<1>2. n \in Nat \ {0} /\ DOMAIN rule = 1 .. n /\ \A k \in 1 .. n - 1 : rule[k] # Rest
  BY <1>1 DEF WellFormed
<1>3. \A argv \in [1 .. n -> Token] : argv \in Seq(Token) /\ Len(argv) = n /\ DOMAIN argv = 1 .. n
  BY <1>2
<1>4. \A argv \in [1 .. n -> Token] : IsMatch(rule, argv) <=> RefMatch(rule, argv)
  BY <1>3, MatchIsReference
<1>5. ASSUME NEW argv \in [1 .. n -> Token]
      PROVE  RefMatch(rule, argv) <=>
               \A k \in 1 .. n : rule[k] # Rest =>
                 (IF k = 1 THEN Basename[argv[k]] ELSE argv[k]) \in rule[k].accepts
  BY <1>1, <1>2, <1>3 DEF RefMatch
<1>6. ASSUME Bites(rule) PROVE CanBite(rule)
  <2>1. PICK argv \in [1 .. n -> Token] : ~ HasControlChar(argv) /\ IsMatch(rule, argv)
    BY <1>1, <1>6 DEF Bites
  <2>2. ASSUME NEW k \in 1 .. n, rule[k] # Rest
        PROVE  \E t \in rule[k].accepts \ Control : k = 1 => Basename[t] = t
    <3>1. (IF k = 1 THEN Basename[argv[k]] ELSE argv[k]) \in rule[k].accepts
      BY <1>4, <1>5, <2>1, <2>2
    <3>2. argv[k] \in Token /\ argv[k] \notin Control
      BY <2>1 DEF HasControlChar
    <3>3. Basename[Basename[argv[k]]] = Basename[argv[k]] /\ Basename[argv[k]] \notin Control
      BY <3>2, TokenAssumption
    <3> QED
      BY <3>1, <3>2, <3>3
  <2> QED
    BY <1>2, <2>2 DEF CanBite
<1>7. ASSUME CanBite(rule) PROVE Bites(rule)
  <2> DEFINE Good(k, t) == /\ t \in Token \ Control
                           /\ rule[k] # Rest => t \in rule[k].accepts /\ (k = 1 => Basename[t] = t)
             argv == [k \in 1 .. n |-> CHOOSE t : Good(k, t)]
  <2>1. ASSUME NEW k \in 1 .. n PROVE \E t : Good(k, t)
    <3>1. CASE rule[k] = Rest
      <4>1. "id" \in Token \ Control
        BY InstanceAssumption, Zenon DEF Tokens, Small
      <4> QED
        BY <3>1, <4>1
    <3>2. CASE rule[k] # Rest
      <4>1. PICK t \in rule[k].accepts \ Control : k = 1 => Basename[t] = t
        BY <1>2, <1>7, <3>2 DEF CanBite
      <4>2. t \in Token
        BY <1>1, <3>2, <4>1
      <4> QED
        BY <4>1, <4>2
    <3> QED
      BY <3>1, <3>2
  <2> HIDE DEF Good
  <2>2. \A k \in 1 .. n : Good(k, argv[k])
    BY <2>1
  <2> HIDE DEF argv
  <2> USE DEF Good
  <2>3. argv \in [1 .. n -> Token]
    <3>1. \A k \in 1 .. n : (CHOOSE t : Good(k, t)) \in Token
      BY <2>2 DEF argv
    <3> HIDE DEF Good
    <3> QED
      BY <3>1, Zenon DEF argv
  <2>4. ~ HasControlChar(argv)
    BY <1>3, <2>2, <2>3 DEF HasControlChar
  <2>5. RefMatch(rule, argv)
    <3>1. \A k \in 1 .. n : rule[k] # Rest =>
            (IF k = 1 THEN Basename[argv[k]] ELSE argv[k]) \in rule[k].accepts
      BY <2>2
    <3> QED
      BY <1>5, <2>3, <3>1
  <2> QED
    BY <1>1, <1>4, <2>3, <2>4, <2>5 DEF Bites
<1> QED
  BY <1>6, <1>7

\* Of any list of matchers that validate() lets through for a rule: it matches an
\* argv without control characters exactly if each matcher by itself accepts
\* such a token, the first one such a token without a directory part.
THEOREM ConfigAnyRuleBites ==
  ASSUME NEW raws \in Seq(AnyRaw), RuleOk(raws),
         NEW rule, rule = BuildRule(raws)
  PROVE  /\ Bites(rule) => CanBite(rule)
         /\ CanBite(rule) => Bites(rule)
<1>1. PICK S : S = AnyRaw
  OBVIOUS
<1>2. DOMAIN raws = 1 .. Len(raws) /\ Len(raws) \in Nat /\ \A k \in 1 .. Len(raws) : raws[k] \in S
  BY <1>1, ElementIn, Zenon
<1>3. \A k \in 1 .. Len(raws) :
        ToMatcher(raws[k]) = Rest \/ ToMatcher(raws[k]).accepts \subseteq Token
  <2>1. ASSUME NEW k \in 1 .. Len(raws)
        PROVE  ToMatcher(raws[k]) = Rest \/ ToMatcher(raws[k]).accepts \subseteq Token
    <3>1. raws[k] \in AnyRaw /\ RawOk(raws[k])
      BY <1>1, <1>2, <2>1, Zenon DEF RuleOk
    <3> QED
      BY <3>1, RawAccepts, Zenon
  <2> QED
    BY <2>1
<1>4. PICK M : M = {ToMatcher(raws[k]) : k \in 1 .. Len(raws)}
  OBVIOUS
<1>5. rule = [k \in 1 .. Len(raws) |-> ToMatcher(raws[k])]
  BY <1>2 DEF BuildRule
<1>6. rule \in Seq(M) /\ Len(rule) = Len(raws) /\ \A k \in 1 .. Len(raws) : rule[k] = ToMatcher(raws[k])
  BY <1>2, <1>4, <1>5
<1>7. WellFormed(rule)
  BY DEF RuleOk
<1>8. \A k \in 1 .. Len(rule) : rule[k] = Rest \/ rule[k].accepts \subseteq Token
  BY <1>3, <1>6
<1> QED
  BY <1>6, <1>7, <1>8, MatchersBite

\* The elements in the files of this instance are among them.
LEMMA RawsAreAny == RawMatcher \subseteq AnyRaw
<1>1. /\ Tokens \subseteq Token /\ Denied \subseteq Tokens
      /\ "id" \in Tokens /\ "ls" \in Tokens /\ "/bin/id" \in Tokens
      /\ "new\nline" \in Tokens /\ "env" \in Tokens
  BY InstanceAssumption, Zenon DEF Tokens, Small, Denied
<1>2. ASSUME NEW t \in {"id", "ls", "/bin/id", "env"} PROVE Bare(t) \in AnyRaw
  BY <1>1, <1>2 DEF AnyRaw
<1>3. ASSUME NEW re, re \subseteq Tokens \/ re \in {Absent, BadPattern},
             NEW rest, rest \in BOOLEAN \/ rest = Absent
      PROVE  Table(re, rest) \in AnyRaw
  BY <1>1, <1>3 DEF AnyRaw
<1>4. /\ {"sh", "bash", "zsh", "fish"} \subseteq Tokens
      /\ {"dd", "mkfs", "fdisk", "parted"} \subseteq Tokens
      /\ {"tee", "chmod", "chown"} \subseteq Tokens
      /\ {"visudo", "su", "sudo"} \subseteq Tokens
      /\ {"vi", "vim", "nano"} \subseteq Tokens
      /\ {"python", "perl"} \subseteq Tokens
      /\ {"id", "ls"} \subseteq Tokens /\ {"id"} \subseteq Tokens /\ {"ls"} \subseteq Tokens
      /\ {"new\nline"} \subseteq Tokens /\ {} \subseteq Tokens
  BY <1>1, Zenon DEF Denied
<1>5. TRUE \in BOOLEAN /\ FALSE \in BOOLEAN /\ Absent = Absent
      /\ Absent \in {Absent, BadPattern} /\ BadPattern \in {Absent, BadPattern}
  OBVIOUS
<1>6. /\ Table({"id", "ls"}, Absent) \in AnyRaw /\ Table(Absent, TRUE) \in AnyRaw
      /\ Table(Absent, FALSE) \in AnyRaw /\ Table(BadPattern, Absent) \in AnyRaw
      /\ Table({"id"}, TRUE) \in AnyRaw /\ Table({"ls"}, Absent) \in AnyRaw
      /\ Table({}, Absent) \in AnyRaw /\ Table({"new\nline"}, Absent) \in AnyRaw
  BY <1>3, <1>4, <1>5, Zenon
<1>7. /\ Table({"sh", "bash", "zsh", "fish"}, Absent) \in AnyRaw
      /\ Table({"dd", "mkfs", "fdisk", "parted"}, Absent) \in AnyRaw
      /\ Table({"tee", "chmod", "chown"}, Absent) \in AnyRaw
      /\ Table({"visudo", "su", "sudo"}, Absent) \in AnyRaw
      /\ Table({"vi", "vim", "nano"}, Absent) \in AnyRaw
      /\ Table({"python", "perl"}, Absent) \in AnyRaw
  BY <1>3, <1>4, <1>5, Zenon
<1>8. /\ Bare("id") \in AnyRaw /\ Bare("ls") \in AnyRaw
      /\ Bare("/bin/id") \in AnyRaw /\ Bare("env") \in AnyRaw
  BY <1>2
<1> QED
  BY <1>6, <1>7, <1>8, Zenon DEF RawMatcher, Raws

\* Of the deny rules in a file that validate() lets through, those are void, and
\* only those, that have a matcher with nothing to accept.
THEOREM ConfigRuleBites == Spec => []RuleBites
<1>1. ASSUME FileTyped, RulesOk, NEW i \in DOMAIN fc.deny
      PROVE  LET rule == BuildRule(fc.deny[i]) IN Bites(rule) <=> CanBite(rule)
  <2>1. fc.deny[i] \in Seq(RawMatcher) /\ RuleOk(fc.deny[i])
    BY <1>1 DEF FileTyped, IsFile, RulesOk
  <2>2. PICK S : S = AnyRaw /\ RawMatcher \subseteq S
    BY RawsAreAny
  <2>3. PICK raws \in Seq(RawMatcher) : raws = fc.deny[i]
    BY <2>1
  <2>4. raws \in Seq(S)
    <3> HIDE DEF RawMatcher
    <3> QED
      BY <2>2
  <2>5. PICK rule : rule = BuildRule(raws)
    OBVIOUS
  <2>6. /\ Bites(rule) => CanBite(rule)
        /\ CanBite(rule) => Bites(rule)
    BY <2>1, <2>2, <2>3, <2>4, <2>5, ConfigAnyRuleBites, Zenon
  <2> QED
    BY <2>3, <2>5, <2>6, Zenon
<1>2. FileTyped => RuleBites
  BY <1>1 DEF RuleBites
<1> QED
  BY <1>2, FileInit, FileStep, PTL DEF Spec

-----------------------------------------------------------------------------
(* The line of a client. *)

\* The options of a line whose first k pairs of tokens are options with values.
LineOptions(raw, k) ==
  \A j \in 1 .. k : raw[2 * j - 1] \in Options /\ raw[2 * j] # Separator

\* The pairs at the head of a line are k, what they give is g, and the token
\* behind them makes p of the line.
Pairs(raw, p, k, g) ==
  /\ 2 * k <= Len(raw) /\ LineOptions(raw, k)
  /\ ~ (2 * k + 2 <= Len(raw) /\ raw[2 * k + 1] \in Options /\ raw[2 * k + 2] # Separator)
  /\ DOMAIN g = {raw[2 * j - 1] : j \in 1 .. k}
  /\ \A x \in DOMAIN g : \E j \in 1 .. k :
       /\ raw[2 * j - 1] = x /\ g[x] = raw[2 * j]
       /\ \A l \in j + 1 .. k : raw[2 * l - 1] # x
  /\ p = Ending(raw, 2 * k + 1, g)

\* What parse_args makes of a line, read off the pairs at its head.
LEMMA ParsePairs ==
  ASSUME NEW T, NEW raw \in Seq(T), NEW p, p = ParseArgs(raw)
  PROVE  \E k \in Nat : \E g : Pairs(raw, p, k, g)
<1>0. PICK k \in Nat : \E g :
        /\ 1 + 2 * k <= Len(raw) + 1
        /\ OptionsAt(raw, 1, k)
        /\ ~ (1 + 2 * k <= Len(raw) /\ raw[1 + 2 * k] \in Options /\ FlagValue(raw, 1 + 2 * k))
        /\ GivenAt(raw, 1, k, g)
        /\ p = Ending(raw, 1 + 2 * k, g)
  <2>1. Shape(raw, 1, p)
    BY ParseShape
  <2> QED
    BY <2>1, Zenon DEF Shape
<1>1. PICK g :
        /\ 1 + 2 * k <= Len(raw) + 1
        /\ OptionsAt(raw, 1, k)
        /\ ~ (1 + 2 * k <= Len(raw) /\ raw[1 + 2 * k] \in Options /\ FlagValue(raw, 1 + 2 * k))
        /\ GivenAt(raw, 1, k, g)
        /\ p = Ending(raw, 1 + 2 * k, g)
  BY <1>0, Zenon
<1>2. /\ \A j \in Int : 1 + 2 * j - 2 = 2 * j - 1 /\ 1 + 2 * j - 1 = 2 * j
      /\ 1 + 2 * k = 2 * k + 1 /\ 1 + 2 * k + 1 = 2 * k + 2 /\ Len(raw) \in Nat
  OBVIOUS
<1>3. \A l \in Nat : 1 .. k \subseteq Int /\ l + 1 .. k \subseteq Int
  OBVIOUS
<1>4. LineOptions(raw, k)
  BY <1>1, <1>2, <1>3 DEF LineOptions, OptionsAt
<1>5. DOMAIN g = {raw[2 * j - 1] : j \in 1 .. k}
  <2>1. \A j \in 1 .. k : raw[1 + 2 * j - 2] = raw[2 * j - 1]
    BY <1>2, <1>3
  <2>2. DOMAIN g = {raw[1 + 2 * j - 2] : j \in 1 .. k}
    BY <1>1 DEF GivenAt
  <2> QED
    BY <2>1, <2>2
<1>6. ASSUME NEW x \in DOMAIN g
      PROVE  \E j \in 1 .. k :
               /\ raw[2 * j - 1] = x /\ g[x] = raw[2 * j]
               /\ \A l \in j + 1 .. k : raw[2 * l - 1] # x
  <2>1. PICK j \in 1 .. k :
          /\ raw[1 + 2 * j - 2] = x /\ g[x] = raw[1 + 2 * j - 1]
          /\ \A l \in j + 1 .. k : raw[1 + 2 * l - 2] # x
    BY <1>1 DEF GivenAt
  <2>2. \A l \in j + 1 .. k : raw[2 * l - 1] # x
    BY <1>2, <2>1
  <2> QED
    BY <1>2, <2>1, <2>2
<1>7. 2 * k <= Len(raw)
  BY <1>1, <1>2
<1>8. ~ (2 * k + 2 <= Len(raw) /\ raw[2 * k + 1] \in Options /\ raw[2 * k + 2] # Separator)
  BY <1>1, <1>2 DEF FlagValue
<1>9. p = Ending(raw, 2 * k + 1, g)
  BY <1>1, <1>2
<1>10. Pairs(raw, p, k, g)
  BY <1>4, <1>5, <1>6, <1>7, <1>8, <1>9 DEF Pairs
<1> QED
  BY <1>10, Zenon

\* What the token behind the k pairs of a line makes of it.
Ends(raw, n, p, k, g, from) ==
  /\ p.kind = "command" <=>
       /\ from <= n
       /\ from = 2 * k + 1 => raw[from] \notin HelpFlags \cup UnknownFlags \cup Options
  /\ p.kind = "help" <=> 2 * k < n /\ raw[2 * k + 1] \in HelpFlags
  /\ p.kind = "command" => p.argv = SubSeq(raw, from, n) /\ p.given = g

\* The token behind the pairs decides what the line is, and where its command
\* begins.
LEMMA EndingIs ==
  ASSUME NEW T, NEW raw \in Seq(T), NEW n \in Nat, n = Len(raw), NEW k \in Nat, 2 * k <= n,
         ~ (2 * k + 2 <= n /\ raw[2 * k + 1] \in Options /\ raw[2 * k + 2] # Separator),
         NEW g, NEW p, p = Ending(raw, 2 * k + 1, g),
         NEW from, from = IF 2 * k < n /\ raw[2 * k + 1] = Separator THEN 2 * k + 2 ELSE 2 * k + 1
  PROVE  Ends(raw, n, p, k, g, from)
<1> USE DEF Ends
<1>1. /\ \A argv : /\ Command(argv, g).kind = "command"
                   /\ Command(argv, g).argv = argv /\ Command(argv, g).given = g
      /\ Usage.kind = "usage" /\ Help.kind = "help"
  BY DEF Command, Usage, Help
<1>2. CASE 2 * k + 1 > n
  <2>1. p = Usage /\ ~ (2 * k < n)
    BY <1>2 DEF Ending
  <2> QED
    BY <1>1, <1>2, <2>1
<1>3. CASE 2 * k + 1 <= n
  <2> DEFINE t == raw[2 * k + 1]
  <2>1. 2 * k < n /\ ~ (2 * k + 1 > n)
    BY <1>3
  <2>2. CASE t \in Options
    <3>1. p = Usage /\ t # Separator /\ t \notin HelpFlags
      BY <2>1, <2>2, CommandLineAssumption DEF Ending
    <3> QED
      BY <1>1, <2>1, <2>2, <3>1
  <2>3. CASE t \in HelpFlags
    <3>1. p = Help /\ t # Separator
      BY <2>1, <2>3, CommandLineAssumption DEF Ending
    <3> QED
      BY <1>1, <2>1, <2>3, <3>1
  <2>4. CASE t \in UnknownFlags
    <3>1. p = Usage /\ t # Separator /\ t \notin HelpFlags
      BY <2>1, <2>4, CommandLineAssumption DEF Ending
    <3> QED
      BY <1>1, <2>1, <2>4, <3>1
  <2>5. CASE t = Separator
    <3>1. from = 2 * k + 2 /\ t \notin HelpFlags /\ 2 * k + 1 + 1 = 2 * k + 2
      BY <2>1, <2>5, CommandLineAssumption
    <3>2. p = IF 2 * k + 2 > n THEN Usage ELSE Command(SubSeq(raw, 2 * k + 2, n), g)
      BY <2>1, <2>5, <3>1, CommandLineAssumption DEF Ending
    <3>3. CASE 2 * k + 2 > n
      BY <1>1, <2>1, <3>1, <3>2, <3>3
    <3>4. CASE ~ (2 * k + 2 > n)
      <4>1. p.kind = "command" /\ p.argv = SubSeq(raw, from, n) /\ p.given = g
        BY <1>1, <3>1, <3>2, <3>4
      <4>2. from <= n /\ from # 2 * k + 1
        BY <3>1, <3>4
      <4> QED
        BY <3>1, <4>1, <4>2
    <3> QED
      BY <3>3, <3>4
  <2>6. CASE t \notin HelpFlags \cup UnknownFlags \cup Options \cup {Separator}
    <3>1. p = Command(SubSeq(raw, 2 * k + 1, n), g)
      BY <2>1, <2>6 DEF Ending
    <3>2. from = 2 * k + 1 /\ from <= n
      BY <2>1, <2>6
    <3>3. p.kind = "command" /\ p.argv = SubSeq(raw, from, n) /\ p.given = g
      BY <1>1, <3>1, <3>2
    <3> QED
      BY <2>6, <3>2, <3>3
  <2> QED
    BY <2>2, <2>3, <2>4, <2>5, <2>6
<1> QED
  BY <1>2, <1>3

\* What LineIsReference says of a line whose first k pairs are its options.
Reads(raw, n, p, k) ==
  LET from  == IF 2 * k < n /\ raw[2 * k + 1] = Separator THEN 2 * k + 2 ELSE 2 * k + 1
      given == {raw[2 * j - 1] : j \in 1 .. k}
  IN  /\ p.kind = "command" <=>
           /\ from <= n
           /\ from = 2 * k + 1 => raw[from] \notin HelpFlags \cup UnknownFlags \cup Options
      /\ p.kind = "help" <=> 2 * k < n /\ raw[2 * k + 1] \in HelpFlags
      /\ p.kind = "command" =>
           /\ p.argv = SubSeq(raw, from, n)
           /\ DOMAIN p.given = given
           /\ \A f \in given : \E j \in 1 .. k :
                /\ raw[2 * j - 1] = f /\ p.given[f] = raw[2 * j]
                /\ \A i \in j + 1 .. k : raw[2 * i - 1] # f

\* The pairs parse_args takes are as many as there are.
LEMMA LineReads ==
  ASSUME NEW T, NEW raw \in Seq(T), NEW n \in Nat, n = Len(raw), NEW p, p = ParseArgs(raw)
  PROVE  \E k \in 0 .. n \div 2 :
           /\ LineOptions(raw, k) /\ Reads(raw, n, p, k)
           /\ \A j \in 0 .. n \div 2 : LineOptions(raw, j) => j <= k
<1>1. PICK k \in Nat : \E g : Pairs(raw, p, k, g)
  BY ParsePairs, Zenon
<1>2. PICK g :
        /\ 2 * k <= n /\ LineOptions(raw, k)
        /\ ~ (2 * k + 2 <= n /\ raw[2 * k + 1] \in Options /\ raw[2 * k + 2] # Separator)
        /\ DOMAIN g = {raw[2 * j - 1] : j \in 1 .. k}
        /\ \A x \in DOMAIN g : \E j \in 1 .. k :
             /\ raw[2 * j - 1] = x /\ g[x] = raw[2 * j]
             /\ \A l \in j + 1 .. k : raw[2 * l - 1] # x
        /\ p = Ending(raw, 2 * k + 1, g)
  BY <1>1 DEF Pairs
<1>3. k \in 0 .. n \div 2
  BY <1>2
<1>4. ASSUME NEW j \in 0 .. n \div 2, LineOptions(raw, j), j > k PROVE FALSE
  <2>1. k + 1 \in 1 .. j /\ 2 * (k + 1) - 1 = 2 * k + 1 /\ 2 * (k + 1) = 2 * k + 2
    BY <1>4
  <2>2. 2 * k + 2 <= n
    BY <1>4
  <2>3. raw[2 * (k + 1) - 1] \in Options /\ raw[2 * (k + 1)] # Separator
    BY <1>4, <2>1 DEF LineOptions
  <2> QED
    BY <1>2, <2>1, <2>2, <2>3
<1>5. PICK from : from = IF 2 * k < n /\ raw[2 * k + 1] = Separator THEN 2 * k + 2 ELSE 2 * k + 1
  OBVIOUS
<1>6. Ends(raw, n, p, k, g, from)
  <2> DEFINE full == 2 * k + 2 <= n /\ raw[2 * k + 1] \in Options /\ raw[2 * k + 2] # Separator
  <2>1. 2 * k <= n
    BY <1>2
  <2>2. ~ full
    BY <1>2
  <2>3. p = Ending(raw, 2 * k + 1, g)
    BY <1>2
  <2> QED
    BY <1>5, <2>1, <2>2, <2>3, EndingIs
<1>7. p.kind = "command" =>
        /\ DOMAIN p.given = {raw[2 * j - 1] : j \in 1 .. k}
        /\ \A f \in {raw[2 * j - 1] : j \in 1 .. k} : \E j \in 1 .. k :
             /\ raw[2 * j - 1] = f /\ p.given[f] = raw[2 * j]
             /\ \A i \in j + 1 .. k : raw[2 * i - 1] # f
  <2> SUFFICES ASSUME p.kind = "command" PROVE
        /\ DOMAIN p.given = {raw[2 * j - 1] : j \in 1 .. k}
        /\ \A f \in {raw[2 * j - 1] : j \in 1 .. k} : \E j \in 1 .. k :
             /\ raw[2 * j - 1] = f /\ p.given[f] = raw[2 * j]
             /\ \A i \in j + 1 .. k : raw[2 * i - 1] # f
    OBVIOUS
  <2>1. p.given = g
    BY <1>6 DEF Ends
  <2>2. \A f \in DOMAIN g : \E j \in 1 .. k :
             /\ raw[2 * j - 1] = f /\ p.given[f] = raw[2 * j]
             /\ \A i \in j + 1 .. k : raw[2 * i - 1] # f
    BY <1>2, <2>1
  <2> QED
    BY <1>2, <2>1, <2>2
<1>8. Reads(raw, n, p, k)
  BY <1>5, <1>6, <1>7 DEF Reads, Ends
<1>9. \A j \in 0 .. n \div 2 : LineOptions(raw, j) => j <= k
  BY <1>4
<1>10. LineOptions(raw, k)
  BY <1>2
<1> QED
  BY <1>3, <1>8, <1>9, <1>10, Zenon

LineTyped == line \in Seq(LineTokens)

\* However a line is typed, parse_args makes of it what its shape says: the
\* options and their values at its head, the last of each counting, and then
\* the command, verbatim.
THEOREM ConfigLineIsReference == Spec => []LineIsReference
<1>1. ASSUME LineTyped PROVE LineIsReference
  <2> DEFINE n   == Len(line)
             p   == ParseArgs(line)
             ks  == {i \in 0 .. n \div 2 : LineOptions(line, i)}
             top == CHOOSE i \in ks : \A j \in ks : j <= i
  <2>1. n \in Nat /\ line \in Seq(LineTokens)
    BY <1>1 DEF LineTyped
  <2>2. PICK k \in 0 .. n \div 2 :
          /\ LineOptions(line, k) /\ Reads(line, n, p, k)
          /\ \A j \in 0 .. n \div 2 : LineOptions(line, j) => j <= k
    BY <2>1, LineReads, Zenon
  <2>3. k \in ks /\ \A j \in ks : j <= k
    BY <2>2
  <2>4. ks \subseteq Int
    OBVIOUS
  <2>5. top = k
    <3> HIDE DEF ks
    <3>1. top \in ks /\ \A j \in ks : j <= top
      BY <2>3, Zenon
    <3> HIDE DEF top
    <3>2. top <= k /\ k <= top /\ top \in Int /\ k \in Int
      BY <2>3, <2>4, <3>1
    <3> QED
      BY <3>2
  <2>6. ASSUME NEW i, i = k PROVE Reads(line, n, p, i)
    BY <2>2, <2>6
  <2>7. Reads(line, n, p, top)
    <3> HIDE DEF top
    <3> QED
      BY <2>5, <2>6, Zenon
  <2> QED
    BY <2>7, Zenon DEF Reads, LineIsReference, LineOptions
<1>2. Init => LineTyped
  BY DEF Init, LineTyped
<1>3. LineTyped /\ [Next]_<<fc, line>> => LineTyped'
  <2> SUFFICES ASSUME LineTyped, Next PROVE LineTyped'
    BY DEF LineTyped
  <2>1. CASE line' = line
    BY <2>1 DEF LineTyped
  <2>2. ASSUME NEW t \in LineTokens, Type(t) PROVE LineTyped'
    BY <2>2, AppendTyped DEF LineTyped, Type
  <2> QED
    BY <2>1, <2>2 DEF Next, AddDeny, AddAllow, Finish
<1> QED
  BY <1>1, <1>2, <1>3, PTL DEF Spec

=============================================================================
