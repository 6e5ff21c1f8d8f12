------------------------------- MODULE Config -------------------------------
(***************************************************************************)
(* From the configuration file to the bundle the daemon enforces           *)
(* (config.rs, server.rs:bundle_from_file_cfg).                            *)
(*                                                                         *)
(* A raw matcher is what serde accepts for one TOML element: a bare string *)
(* or a table with the optional keys `re` and `rest`.  A pattern is the    *)
(* set of tokens it accepts, or BadPattern when it does not compile.       *)
(***************************************************************************)
EXTENDS Policy

CONSTANTS Absent,      \* a key the TOML table does not have
          BadPattern   \* a pattern the regex compiler rejects

Bare(t)         == [form |-> "bare", text |-> t]
Table(re, rest) == [form |-> "table", re |-> re, rest |-> rest]

\* raw_to_token: a table needs exactly one of the keys, `rest` must be true.
RawOk(raw) ==
  \/ raw.form = "bare"
  \/ /\ raw.form = "table"
     /\ \/ raw.re \notin {Absent, BadPattern} /\ raw.rest = Absent
        \/ raw.re = Absent /\ raw.rest = TRUE

ToMatcher(raw) ==
  IF raw.form = "bare" THEN Literal(raw.text)
  ELSE IF raw.re = Absent THEN Rest
  ELSE Regex(raw.re)

BuildRule(raws) == [i \in DOMAIN raws |-> ToMatcher(raws[i])]

RuleOk(raws) ==
  /\ \A i \in DOMAIN raws : RawOk(raws[i])
  /\ WellFormed(BuildRule(raws))

\* FileConfig::validate.  `allow` entries carry their scoping knobs.
Validate(fc) ==
  /\ \A i \in DOMAIN fc.deny : RuleOk(fc.deny[i])
  /\ \A i \in DOMAIN fc.allow : RuleOk(fc.allow[i].argv)
  /\ fc.agent_uids # {}
  /\ fc.approver_uids # {}
  /\ fc.method = "totp" => fc.secret_path

\* An allow entry without its knobs: every request prompts, none is limited.
AllowEntry(raws) == [argv |-> raws, ttl |-> 0, rate |-> 0]

BuildPolicy(fc) ==
  [deny  |-> [i \in DOMAIN fc.deny |-> BuildRule(fc.deny[i])],
   allow |-> [i \in DOMAIN fc.allow |-> BuildRule(fc.allow[i].argv)]]

RuleScoping(fc) ==
  [i \in DOMAIN fc.allow |-> [ttl |-> fc.allow[i].ttl, rate |-> fc.allow[i].rate]]

BundleFromFileCfg(fc) ==
  [policy |-> BuildPolicy(fc), scopes |-> RuleScoping(fc),
   agent_uids |-> fc.agent_uids]

\* Mutant of DefaultConfig: the interpreters are denied without arguments only.
DefaultConfig_NoRest ==
  [deny |-> <<<<Table({"sh", "bash", "zsh", "fish"}, Absent)>>>>,
   allow |-> <<AllowEntry(<<Bare("id")>>)>>,
   agent_uids |-> {1000}, approver_uids |-> {1000},
   method |-> "agent", secret_path |-> FALSE]

\* default_config_toml: the file `sudixd default-config` prints.
DefaultConfig ==
  LET AnyArgs(raw) == <<raw, Table(Absent, TRUE)>> IN
  [deny |-> <<AnyArgs(Table({"sh", "bash", "zsh", "fish"}, Absent)),
              AnyArgs(Table({"dd", "mkfs", "fdisk", "parted"}, Absent)),
              AnyArgs(Table({"tee", "chmod", "chown"}, Absent)),
              AnyArgs(Table({"visudo", "su", "sudo"}, Absent)),
              AnyArgs(Bare("env")),
              AnyArgs(Table({"vi", "vim", "nano"}, Absent)),
              AnyArgs(Table({"python", "perl"}, Absent))>>,
   allow |-> <<AllowEntry(<<Bare("id")>>)>>,
   agent_uids |-> {1000}, approver_uids |-> {1000},
   method |-> "agent", secret_path |-> FALSE]

=============================================================================
