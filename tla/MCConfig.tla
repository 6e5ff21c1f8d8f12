------------------------------ MODULE MCConfig ------------------------------
(***************************************************************************)
(* TLC instance of Config and CommandLine: what reaches the broker from    *)
(* outside.  An administrator writes a configuration file rule by rule and *)
(* knob by knob, from nothing or from the default file; a caller types a   *)
(* command line token by token.  Every file and line so written, valid or  *)
(* not, is a state, and the properties of the files quantify over all the  *)
(* argvs of at most MaxArgv tokens.                                        *)
(***************************************************************************)
EXTENDS Config, CommandLine, FiniteSets

CONSTANTS MaxArgv, MaxDeny, MaxAllow, MaxLine

VARIABLES
  fc,     \* the file, as parsed (FileConfig)
  line    \* the command line of a client

\* Constants given in the .cfg: two programs, two paths to one of them, the
\* second with a newline in its directory, a name with a newline in it, the
\* programs the default file denies and paths to some of them.
Small      == {"id", "/bin/id", "/new\nline/id", "ls", "new\nline"}
Controls   == {"new\nline", "/new\nline/id"}
Denied     == {"sh", "bash", "zsh", "fish", "dd", "mkfs", "fdisk", "parted", "tee",
               "chmod", "chown", "visudo", "su", "sudo", "env", "vi", "vim", "nano",
               "python", "perl"}
Paths      == ("/bin/id" :> "id") @@ ("/new\nline/id" :> "id") @@ ("./sh" :> "sh") @@
              ("/sbin/mkfs" :> "mkfs") @@ ("/usr/bin/env" :> "env")
Tokens     == Small \cup Denied \cup DOMAIN Paths
Basenames  == Paths @@ [t \in Tokens |-> t]

Raws == {Bare("id"), Bare("ls"), Table({"id", "ls"}, Absent),
         Table(Absent, TRUE), Table(Absent, FALSE), Table(BadPattern, Absent),
         Table({"id"}, TRUE)}
DenyRaws  == {<<Bare("id"), Table(Absent, TRUE)>>, <<Bare("ls")>>,
              <<Table({"ls"}, Absent), Bare("/bin/id")>>, <<Bare("/bin/id")>>, <<>>,
              <<Table(Absent, TRUE)>>, <<Bare("ls"), Table({}, Absent)>>,
              <<Bare("ls"), Table({"new\nline"}, Absent)>>}
AllowRaws == BoundedSeq(Raws, 2)
Argvs     == BoundedSeq(Small, MaxArgv)

\* Tokens the properties speak of: `id` is reached by its name and by /bin/id,
\* and by nothing else without a control character.  An absent key and a pattern
\* that does not compile are no patterns.
ASSUME InstanceAssumption ==
  /\ Tokens \subseteq Token
  /\ Basename["id"] = "id" /\ "id" \notin Control
  /\ \A t \in Small : Basename[t] = "id" => t \in {"id", "/bin/id"} \cup Control
  /\ Absent # TRUE /\ \A pattern \in SUBSET Denied : pattern \notin {Absent, BadPattern}
  /\ \A pattern \in SUBSET {"ls", "new\nline"} : pattern \notin {Absent, BadPattern}

LineTokens == HelpFlags \cup UnknownFlags \cup Options \cup {Separator, "id"}

Blank == [deny |-> <<>>, allow |-> <<>>, agent_uids |-> {},
          approver_uids |-> {}, method |-> "agent", secret_path |-> FALSE]

Init == fc \in {Blank, DefaultConfig} /\ line = <<>>

AddDeny(raws) ==
  /\ Len(fc.deny) < MaxDeny /\ line = <<>>
  /\ fc' = [fc EXCEPT !.deny = Append(@, raws)]
  /\ UNCHANGED line

\* The knobs tell the rules apart: the i-th one caches for i seconds.
AddAllow(raws) ==
  /\ Len(fc.allow) < MaxAllow /\ line = <<>>
  /\ fc' = [fc EXCEPT !.allow =
              Append(@, [argv |-> raws, ttl |-> Len(@) + 1, rate |-> Len(@)])]
  /\ UNCHANGED line

Finish(method, secret) ==
  /\ fc.agent_uids = {}
  /\ Len(fc.deny) + Len(fc.allow) = MaxDeny + MaxAllow
  /\ fc' = [fc EXCEPT !.agent_uids = {1000}, !.approver_uids = {1000},
                      !.method = method, !.secret_path = secret]
  /\ UNCHANGED line

Type(t) ==
  /\ fc = Blank /\ Len(line) < MaxLine
  /\ line' = Append(line, t)
  /\ UNCHANGED fc

Next == \/ \E raws \in DenyRaws : AddDeny(raws)
        \/ \E raws \in AllowRaws : AddAllow(raws)
        \/ \E m \in {"agent", "totp"}, s \in BOOLEAN : Finish(m, s)
        \/ \E t \in LineTokens : Type(t)

Spec == Init /\ [][Next]_<<fc, line>>

-----------------------------------------------------------------------------
(***************************************************************************)
(* Reference definitions, written from the shape of a rule instead of from *)
(* the matching loop.                                                      *)
(***************************************************************************)
RefMatch(rule, argv) ==
  LET open  == rule[Len(rule)] = Rest
      fixed == IF open THEN Len(rule) - 1 ELSE Len(rule)
  IN  /\ IF open THEN Len(argv) >= fixed ELSE Len(argv) = fixed
      /\ \A i \in 1 .. fixed :
           (IF i = 1 THEN Basename[argv[i]] ELSE argv[i]) \in rule[i].accepts

RefEvaluate(policy, argv) ==
  LET admits == {i \in DOMAIN policy.allow : RefMatch(policy.allow[i], argv)}
  IN  IF /\ argv # <<>>
         /\ \A i \in DOMAIN argv : argv[i] \notin Control
         /\ \A i \in DOMAIN policy.deny : ~RefMatch(policy.deny[i], argv)
         /\ admits # {}
      THEN CHOOSE i \in admits : \A j \in admits : i <= j
      ELSE Refused

\* The rules the policy is built from, when they are all acceptable.
RulesOk == /\ \A i \in DOMAIN fc.deny : RuleOk(fc.deny[i])
           /\ \A i \in DOMAIN fc.allow : RuleOk(fc.allow[i].argv)

\* Every rule that validate() lets through evaluates as its shape says: the
\* loop of Rule::is_match, its early return on `rest`, the deny rules first
\* and the first allow rule in order (policy.rs:119-215).
EvaluateIsReference ==
  RulesOk => LET p == BuildPolicy(fc)
             IN  \A argv \in Argvs : Evaluate(p, argv) = RefEvaluate(p, argv)

\* A file that validate() accepts builds a bundle whose scopes line up with
\* its rules: a rule index found by evaluate() selects the knobs of the very
\* entry that admitted the argv, and every rule in the bundle has at least
\* one matcher and no `rest` before its last one (config.rs:159-215).
BundleAligned ==
  Validate(fc) =>
    LET b == BundleFromFileCfg(fc)
    IN  /\ \A i \in DOMAIN b.policy.allow :
             /\ b.policy.allow[i] # <<>>
             /\ \A k \in DOMAIN b.policy.allow[i] :
                  b.policy.allow[i][k] = Rest => k = Len(b.policy.allow[i])
        /\ \A argv \in Argvs :
             LET r == Evaluate(b.policy, argv)
             IN  r # Refused => /\ r \in DOMAIN b.scopes
                               /\ b.scopes[r].ttl = fc.allow[r].ttl
                               /\ b.scopes[r].rate = fc.allow[r].rate
                               /\ RefMatch(b.policy.allow[r], argv)
        /\ b.agent_uids # {}
        /\ fc.method = "totp" => fc.secret_path

\* The directory part of argv[0] changes no verdict ("path-spoofing resistance",
\* policy.rs:10-11), since deny rules and allow rules see its basename, with one
\* exception: a control character in it, as anywhere in the argv, is refused
\* before any rule is looked at, when the bare name may well be admitted
\* (policy.rs:198, 224-228).
PathIndifferent ==
  RulesOk => LET p == BuildPolicy(fc)
             IN  \A argv \in Argvs : argv # <<>> =>
                   LET bare == [argv EXCEPT ![1] = Basename[argv[1]]]
                   IN  Evaluate(p, argv) = IF HasControlChar(argv) THEN Refused
                                           ELSE Evaluate(p, bare)

\* Appending a rule to a file moves nothing: a further deny rule only ever
\* refuses more, a further allow rule leaves the rule index - hence the cache
\* key and the rate window - of every argv admitted before (policy.rs:203-208).
AppendStable ==
  [][(RulesOk /\ RulesOk') =>
       \A argv \in Argvs :
         LET old == Evaluate(BuildPolicy(fc), argv)
             new == Evaluate(BuildPolicy(fc'), argv)
         IN  IF fc'.deny # fc.deny THEN new \in {old, Refused}
             ELSE old # Refused => new = old]_<<fc, line>>

\* A rule matches an argv that gets as far as the rules: one as long as the rule,
\* for a `rest` takes one token as well as none or several.
Bites(rule) == \E argv \in [1 .. Len(rule) -> Token] :
                 ~ HasControlChar(argv) /\ IsMatch(rule, argv)

\* Each of its matchers has something to accept, by itself.
CanBite(rule) ==
  \A k \in DOMAIN rule :
    \/ rule[k] = Rest
    \/ \E t \in rule[k].accepts \ Control : k = 1 => Basename[t] = t

\* Of the deny rules that validate() lets through those are void, and only
\* those, that have a matcher with nothing to accept: no token at all, none
\* without a control character, or, in the first place, none without a
\* directory part, as a literal that is a path (policy.rs:121-144, 198,
\* config.rs:224-237).
RuleBites ==
  RulesOk => \A i \in DOMAIN fc.deny :
    LET rule == BuildRule(fc.deny[i]) IN Bites(rule) <=> CanBite(rule)

\* The default file is valid, admits `id` without arguments and nothing else,
\* and whatever allow rules are added to it, no program it denies is ever
\* admitted, by whatever path and with whatever argument ("deny is checked
\* first and OVERRIDES allow", config.rs:289).
DefaultHolds ==
  IsPrefix(DefaultConfig.deny, fc.deny) =>
    /\ Validate(DefaultConfig)
    /\ Validate(fc) =>
        LET p == BuildPolicy(fc) IN
        /\ \A prog \in Tokens : Basename[prog] \in Denied =>
             \A args \in BoundedSeq(Small, 1) : Evaluate(p, <<prog>> \o args) = Refused
        /\ fc = DefaultConfig =>
             /\ Evaluate(p, <<"id">>) = 1
             /\ \A argv \in Argvs :
                  Evaluate(p, argv) # Refused => argv \in {<<"id">>, <<"/bin/id">>}

\* The lines the client submits are those of the shape its help gives: options
\* with their values, perhaps `--`, and a command that begins with no option
\* unless `--` was typed.  The command is the rest of the line, verbatim; of an
\* option given twice the last value counts (sudix.rs:29, 48-93).
LineIsReference ==
  LET n      == Len(line)
      p      == ParseArgs(line)
      Opts(k) == \A j \in 1 .. k : /\ line[2 * j - 1] \in Options
                                   /\ line[2 * j] # Separator
      ks     == {k \in 0 .. n \div 2 : Opts(k)}
      k      == CHOOSE i \in ks : \A j \in ks : j <= i
      from   == IF 2 * k < n /\ line[2 * k + 1] = Separator THEN 2 * k + 2 ELSE 2 * k + 1
      given  == {line[2 * j - 1] : j \in 1 .. k}
  IN  /\ p.kind = "command" <=>
           /\ from <= n
           /\ from = 2 * k + 1 =>
                line[from] \notin HelpFlags \cup UnknownFlags \cup Options
      /\ p.kind = "help" <=> 2 * k < n /\ line[2 * k + 1] \in HelpFlags
      /\ p.kind = "command" =>
           /\ p.argv = SubSeq(line, from, n)
           /\ DOMAIN p.given = given
           /\ \A f \in given : \E j \in 1 .. k :
                /\ line[2 * j - 1] = f /\ p.given[f] = line[2 * j]
                /\ \A i \in j + 1 .. k : line[2 * i - 1] # f

=============================================================================
