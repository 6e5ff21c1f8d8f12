------------------------------- MODULE Policy -------------------------------
(***************************************************************************)
(* The deny-by-default policy of sudixd (policy.rs): token matchers, rules *)
(* and the evaluation of a requested argv.                                 *)
(*                                                                         *)
(* A shell token is an opaque value.  What the code looks at inside one is *)
(* given by two parameters: which tokens hold a control character, and the *)
(* basename of a token.  A rule index is 1-based here (0-based in the      *)
(* code), and Refused is the value of a verdict that denies.                *)
(***************************************************************************)
EXTENDS Naturals, Sequences, SequencesExt

CONSTANTS Token,      \* the tokens an argv or a literal matcher may hold
          Control,    \* the tokens holding a byte < 0x20 or = 0x7f
          Basename    \* policy.rs:basename, the last path component of a token

ASSUME TokenAssumption ==
  /\ Control \subseteq Token
  /\ Basename \in [Token -> Token]
  /\ \A t \in Token : Basename[Basename[t]] = Basename[t]
  /\ \A t \in Token \ Control : Basename[t] \notin Control

Refused == 0

(***************************************************************************)
(* A matcher is a literal, an anchored regular expression - both accept    *)
(* one token out of a set - or "rest", which accepts what is left.         *)
(***************************************************************************)
Rest       == [kind |-> "rest", accepts |-> Token]
Literal(t) == [kind |-> "literal", accepts |-> {t}]
Regex(S)   == [kind |-> "regex", accepts |-> S]

Matcher == {Rest} \cup {Literal(t) : t \in Token}
                  \cup {Regex(S) : S \in SUBSET Token}

\* Mutant of WellFormed: the position of `rest` is not looked at.
WellFormed_RestAnywhere(ms) == ms # <<>>

\* The lists of matchers Rule::new accepts.
WellFormed(ms) ==
  /\ ms # <<>>
  /\ \A i \in 1 .. Len(ms) - 1 : ms[i] # Rest

\* Mutant of Effective: every position verbatim.
Effective_Verbatim(argv, i) == argv[i]

\* The token a matcher looks at: argv[0] by its basename, the others verbatim.
Effective(argv, i) == IF i = 1 THEN Basename[argv[1]] ELSE argv[i]

\* Mutant of IsMatch: a `rest` that needs a token to match.
IsMatch_RestNeedsToken(rule, argv) ==
  LET scan[i \in 1 .. Len(rule) + 1] ==
        IF i > Len(rule) THEN i = Len(argv) + 1
        ELSE /\ i <= Len(argv)
             /\ \/ rule[i] = Rest
                \/ Effective(argv, i) \in rule[i].accepts /\ scan[i + 1]
  IN  scan[1]

\* Rule::is_match: scan[i] is the answer of the loop when it has matched the
\* matchers before i against the tokens before i.
IsMatch(rule, argv) ==
  LET scan[i \in 1 .. Len(rule) + 1] ==
        IF i > Len(rule) THEN i = Len(argv) + 1
        ELSE IF rule[i] = Rest THEN TRUE
        ELSE /\ i <= Len(argv)
             /\ Effective(argv, i) \in rule[i].accepts
             /\ scan[i + 1]
  IN  scan[1]

HasControlChar(argv) == \E i \in DOMAIN argv : argv[i] \in Control

(***************************************************************************)
(* Policy::evaluate: the index of the allow rule that admits argv, or      *)
(* Refused when argv is empty, holds a control character, matches a deny    *)
(* rule or matches no allow rule.                                          *)
(***************************************************************************)

\* Mutant of FirstMatch: the last rule that matches.
FirstMatch_Last(rules, argv) ==
  SelectLastInSeq(rules, LAMBDA r : IsMatch(r, argv))

FirstMatch(rules, argv) == SelectInSeq(rules, LAMBDA r : IsMatch(r, argv))

Evaluate(policy, argv) ==
  IF \/ argv = <<>>
     \/ HasControlChar(argv)
     \/ \E i \in DOMAIN policy.deny : IsMatch(policy.deny[i], argv)
  THEN Refused
  ELSE FirstMatch(policy.allow, argv)

=============================================================================
