---------------------------- MODULE CommandLine ----------------------------
(***************************************************************************)
(* What the client makes of the line it was started with                   *)
(* (sudix.rs:parse_args): options first, then the command.                  *)
(***************************************************************************)
EXTENDS Naturals, Sequences

CONSTANTS
  HelpFlags,     \* -h, --help
  ReasonFlag,    \* --reason
  OtpFlag,       \* --otp
  Separator,     \* --
  UnknownFlags   \* every other token that begins with a dash

Options == {ReasonFlag, OtpFlag}

ASSUME CommandLineAssumption ==
  /\ ReasonFlag # OtpFlag
  /\ Options \cap HelpFlags = {} /\ UnknownFlags \cap (HelpFlags \cup Options) = {}
  /\ Separator \notin HelpFlags \cup UnknownFlags \cup Options

(***************************************************************************)
(* The outcome of parse_args: help, an error, or a command with the values *)
(* of the options that were given.                                         *)
(***************************************************************************)
Help  == [kind |-> "help"]
Usage == [kind |-> "usage"]
Command(argv, given) == [kind |-> "command", argv |-> argv, given |-> given]

\* Mutant of FlagValue: whatever follows is the value.
FlagValue_AnyToken(raw, i) == i < Len(raw)

\* flag_value: the option at i is followed by a value, and that is not `--`.
FlagValue(raw, i) == i < Len(raw) /\ raw[i + 1] # Separator

\* The option at the head of a line has value v, unless a later one overrides it.
WithOption(parsed, flag, v) ==
  IF parsed.kind = "command"
  THEN [parsed EXCEPT !.given =
          [f \in {flag} \cup DOMAIN @ |-> IF f \in DOMAIN @ THEN @[f] ELSE v]]
  ELSE parsed

\* What is left after the options is the command, if anything is.
Remainder(raw, i) ==
  IF i > Len(raw) THEN Usage ELSE Command(SubSeq(raw, i, Len(raw)), << >>)

\* parse_args: scan[i] is what it returns for the line from token i on.
ParseArgs(raw) ==
  LET scan[i \in 1 .. Len(raw) + 1] ==
        IF i > Len(raw) THEN Usage
        ELSE CASE raw[i] \in Options      -> IF FlagValue(raw, i)
                                             THEN WithOption(scan[i + 2], raw[i], raw[i + 1])
                                             ELSE Usage
               [] raw[i] \in HelpFlags    -> Help
               [] raw[i] \in UnknownFlags -> Usage
               [] raw[i] = Separator      -> Remainder(raw, i + 1)
               [] OTHER                   -> Remainder(raw, i)
  IN  scan[1]

=============================================================================
