------------------------------- MODULE Settings -------------------------------
(***************************************************************************)
(* AppConfig::load_default of src/core/config.rs: from the file and the    *)
(* environment to the settings of the process, and from these to the       *)
(* limits that the scheduler uses.                                         *)
(*                                                                         *)
(* Four settings stand for all: two of one section, where an aggregate     *)
(* variable sets both; one that no check restricts; and a secret.  A value *)
(* is a number, or one of the named negative ones.                         *)
(***************************************************************************)
EXTENDS JobState, Integers, Sequences

CONSTANTS
  Sources,    \* the places of the configuration that a run considers
  Layers,     \* the contents of file and environment that a run considers
  Machines    \* the machines, with the settings of their budget

Absent == -1   \* there is no value
Text   == -2   \* a string that is no number
Ref    == -3   \* ${env:NAME}
Scalar == -4   \* the whole section is a string
Secret == -5   \* the content of the variable that Ref names, a string

Section == {"media_encode", "audio_encode"}
Fields == Section \cup {"attempts", "password"}

TreeValues == Nat \cup {Absent, Text, Ref, Scalar, Secret}

(* What file and environment can hold: an override replaces some settings,  *)
(* and the name of one may be malformed; a variable with a name of its own  *)
(* is a number or some other text.                                          *)
Possible(l) ==
  /\ l.file \in [Fields -> TreeValues] /\ Len(l.overrides) \in Nat
  /\ \A i \in 1..Len(l.overrides) : \A f \in DOMAIN l.overrides[i] :
       f \in Fields /\ l.overrides[i][f] \in TreeValues
  /\ {l.media, l.audio} \subseteq Nat \cup {Absent, Text} /\ l.malformed \in Nat

ASSUME LayersAssumption == \A l \in Layers : Possible(l)

(* Counts, and a percentage, are unsigned. *)
ASSUME MachinesAssumption ==
  Machines \subseteq [cpus : Nat, budget_auto : BOOLEAN, ratio : Nat, reserved : Nat,
                      auto_tune : BOOLEAN, download : Nat, post_process : Nat, video : Nat,
                      processes : Nat, throttle : BOOLEAN]

Default == [media_encode |-> 12, audio_encode |-> 12, attempts |-> 4, password |-> Absent]

VARIABLES
  stage,     \* where loading is
  layers,    \* file, overrides, dedicated variables
  value,     \* the YAML tree, then the typed settings: Fields -> Int
  done,      \* how many overrides are applied
  reason,    \* why loading failed
  limits     \* what the scheduler uses

settingVars == <<stage, layers, value, done, reason, limits>>

Nothing == [f \in Fields |-> Absent]
NoLayers == [file |-> Nothing, overrides |-> <<>>, malformed |-> 0, variable |-> FALSE,
             media |-> Absent, audio |-> Absent, sound |-> TRUE]
NoLimits == [download |-> 0, post_process |-> 0, audio_encode |-> 0, processes |-> 0]

SettingsInit ==
  /\ stage = "locate" /\ layers \in Layers /\ value = Nothing /\ done = 0
  /\ reason = "none" /\ limits = NoLimits /\ attempts = 0

LoadFails(why) ==
  /\ stage' = "failed" /\ reason' = why
  /\ UNCHANGED <<layers, value, done, limits, attempts>>

LoadsTo(next) ==
  /\ stage' = next /\ NoFault
  /\ UNCHANGED <<layers, reason, limits, attempts>>
--------------------------------------------------------------------------------
(* load_default: a configured URI is the only place; otherwise the first    *)
(* candidate that exists.  Neither falls back when that cannot be read.     *)
Locate ==
  /\ stage = "locate"
  /\ \E source \in Sources :
       \/ /\ source.uri \/ source.candidates > 0
          /\ \/ /\ value' = layers.file /\ UNCHANGED done
                /\ LoadsTo("expand")
             \/ Fault("config") /\ LoadFails("unreadable")
       \/ /\ ~source.uri /\ source.candidates = 0
          /\ NoFault /\ LoadFails("missing")

(* expand_env_references: every reference of the file, those included that  *)
(* an override will replace.  What it leaves is a string.                   *)
ExpandedTo(f) ==
  IF value[f] # Ref THEN value[f] ELSE IF f = "password" THEN Secret ELSE Text

Expand ==
  /\ stage = "expand"
  /\ IF (\E f \in Fields : value[f] = Ref) /\ ~layers.variable
     THEN NoFault /\ LoadFails("variable")
     ELSE /\ value' = [f \in Fields |-> ExpandedTo(f)] /\ UNCHANGED done
          /\ LoadsTo("override")

(* apply_env_override: an override is a function from the settings it       *)
(* replaces.  That of a section replaces all of it; that of one setting     *)
(* makes a section of what was none.                                        *)
Merged(o, v) ==   \* mutant: what is there stays
  [f \in Fields |-> IF f \in DOMAIN o /\ v[f] = Absent THEN o[f] ELSE v[f]]
Applied(o, v) ==
  [f \in Fields |->
     IF f \in DOMAIN o THEN o[f]
     ELSE IF v[f] = Scalar /\ DOMAIN o \cap Section # {} THEN Absent ELSE v[f]]

(* parse_env_override_path: a path that is empty or has an empty segment. *)
Malformed(i) == i = layers.malformed

(* apply_env_overrides: in the byte order of the variables' names, that of  *)
(* a section before those of its settings unless it is in lower case.  A    *)
(* malformed name ends the loading when its turn comes.                     *)
Override ==
  /\ stage = "override"
  /\ IF done < Len(layers.overrides) /\ Malformed(done + 1)
     THEN NoFault /\ LoadFails("name")
     ELSE IF done < Len(layers.overrides)
     THEN /\ value' = Applied(layers.overrides[done + 1], value) /\ done' = done + 1
          /\ LoadsTo("override")
     ELSE UNCHANGED <<value, done>> /\ LoadsTo("deserialize")

(* An override is parsed as YAML, so that a secret of digits is a number    *)
(* there, as it is in the file; what a reference expands to is a string.    *)
Typed(f) ==
  value[f] \in {Absent} \cup IF f = "password" THEN {Text, Ref, Secret} ELSE Nat

Deserialize ==
  /\ stage = "deserialize"
  /\ IF \E f \in Fields : ~Typed(f)
     THEN NoFault /\ LoadFails("type")
     ELSE /\ value' = [f \in Fields |-> IF value[f] = Absent THEN Default[f] ELSE value[f]]
          /\ UNCHANGED done /\ LoadsTo("dedicated")

(* resolve_env_overrides: the variables with names of their own, the        *)
(* aggregate one before those it stands for; then the secrets.              *)
Dedicated(v) ==
  LET all == IF layers.media = Absent THEN v
             ELSE [v EXCEPT !.media_encode = layers.media, !.audio_encode = layers.media]
      one == IF layers.audio = Absent THEN all
             ELSE [all EXCEPT !.audio_encode = layers.audio]
  IN IF one.password = Ref THEN [one EXCEPT !.password = Secret] ELSE one

ResolveEnv ==
  /\ stage = "dedicated"
  /\ IF layers.media \in {Text, 0} \/ layers.audio \in {Text, 0}
     THEN NoFault /\ LoadFails("dedicated")
     ELSE IF value.password = Ref /\ ~layers.variable
     THEN NoFault /\ LoadFails("variable")
     ELSE value' = Dedicated(value) /\ UNCHANGED done /\ LoadsTo("validate")

(* validate: a limit of the encoders is positive; layers.sound stands for   *)
(* all the checks on settings that are not followed here.                   *)
Sound == layers.sound

Validate ==
  /\ stage = "validate"
  /\ IF ~Sound \/ \E f \in Section : value[f] = 0
     THEN NoFault /\ LoadFails("invalid")
     ELSE UNCHANGED <<value, done>> /\ LoadsTo("ready")
--------------------------------------------------------------------------------
LeastOf(a, b) == IF a < b THEN a ELSE b
MostOf(a, b) == IF a > b THEN a ELSE b
Positive(n) == MostOf(n, 1)

(* CpuResourceConfig::effective_budget_for_cpus *)
Budget(m) ==
  IF ~m.budget_auto THEN Positive(m.cpus)
  ELSE Positive(MostOf((Positive(m.cpus) * m.ratio) \div 100 - m.reserved, 0))

(* ConcurrencyConfig::effective_for_cpus_with_budget *)
Tuned(m, configured, cap) ==
  IF m.auto_tune THEN Positive(LeastOf(configured, cap)) ELSE configured

(* execute_with_filter and the worker pool: what bounds the downloads, the  *)
(* post-processing, where 0 stands for the encoders' limit, and the pool.   *)
Limits(m, v) ==
  LET cpus   == Positive(m.cpus)
      media  == Tuned(m, v.media_encode, 2 * Budget(m))
      audio  == Tuned(m, v.audio_encode, 2 * Budget(m))
      video  == Tuned(m, m.video, MostOf((cpus + 3) \div 4, 1))
      post   == IF m.post_process = 0 THEN 0
                ELSE Tuned(m, m.post_process, MostOf(2 * cpus, 2))
  IN [download |-> Positive(Tuned(m, m.download, MostOf(4 * cpus, 4))),
      post_process |->
        IF post = 0 THEN Positive(MostOf(audio, MostOf(video, media))) ELSE post,
      audio_encode |-> audio,
      processes |->
        IF m.processes > 0 THEN m.processes
        ELSE IF m.throttle THEN Positive(LeastOf(cpus, 2 * Budget(m))) ELSE Budget(m)]

Tune ==
  /\ stage = "ready" /\ \E m \in Machines : limits' = Limits(m, value)
  /\ stage' = "tuned" /\ NoFault
  /\ UNCHANGED <<layers, value, done, reason, attempts>>

(* The process starts and never looks at file or environment again.         *)
Start ==
  /\ stage = "tuned" /\ stage' = "running"
  /\ attempts' = value.attempts
  /\ layers' = NoLayers /\ value' = Nothing /\ done' = 0
  /\ limits' = NoLimits /\ NoFault /\ UNCHANGED reason

SettingsNext ==
  Locate \/ Expand \/ Override \/ Deserialize \/ ResolveEnv \/ Validate \/ Tune
--------------------------------------------------------------------------------
(* The reference: what the file and the first n overrides say of a setting. *)
(* Of the overrides that concern it the last one counts; a section that was *)
(* a string is empty once any of its settings is overridden.                *)
Concern(f, n) == {i \in 1..n : f \in DOMAIN layers.overrides[i]}
IsLast(i, f, n) == i \in Concern(f, n) \cup {0} /\ \A j \in Concern(f, n) : j <= i
InSection(i) == DOMAIN layers.overrides[i] \cap Section # {}
Said(f, i) ==
  IF i > 0 THEN layers.overrides[i][f]
  ELSE IF layers.file[f] # Ref THEN layers.file[f]
  ELSE IF f = "password" THEN Secret ELSE Text
WrittenBy(f, n) ==
  LET last == CHOOSE i \in 0..n : IsLast(i, f, n)
  IN IF Said(f, last) = Scalar /\ \E i \in (last + 1)..n : InSection(i)
     THEN Absent ELSE Said(f, last)
Written(f) == WrittenBy(f, Len(layers.overrides))

(* ... and what counts in the end: a dedicated variable before both, the    *)
(* aggregate one after the setting's own.                                   *)
Resolved(f) ==
  IF f = "audio_encode" /\ layers.audio # Absent THEN layers.audio
  ELSE IF f \in Section /\ layers.media # Absent THEN layers.media
  ELSE IF Written(f) = Ref THEN Secret
  ELSE IF Written(f) = Absent THEN Default[f] ELSE Written(f)

Explained(why) ==
  CASE why = "type" -> \/ \E f \in Fields \ {"password"} : Written(f) \notin Nat \cup {Absent}
                       \/ Written("password") \in Nat \cup {Scalar}
    [] why = "name" -> layers.malformed \in 1..Len(layers.overrides)
    [] why = "variable" -> /\ ~layers.variable
                           /\ (\E f \in Fields : layers.file[f] = Ref) \/ Written("password") = Ref
    [] why = "dedicated" -> {layers.media, layers.audio} \cap {Text, 0} # {}
    [] why = "invalid" -> ~layers.sound \/ \E f \in Section : Resolved(f) = 0
    [] OTHER -> why \in {"unreadable", "missing"}

(* Whatever the file and the environment hold, loading either ends in the   *)
(* settings that the precedence of the layers gives, secrets resolved and   *)
(* limits that no scheduler can starve on, or refuses with a reason that    *)
(* the layers do give it: a limit of zero, a value of the wrong type, such  *)
(* as a secret of digits, a malformed name, a reference to a variable that  *)
(* is not set.  An override of one setting counts only if its name sorts    *)
(* after that of an override of its section.                                *)
SettingsResolved ==
  /\ stage \in {"locate", "expand", "override", "deserialize", "dedicated", "validate",
                "ready", "tuned", "running", "failed"}
  /\ stage = "ready" => \A f \in Fields : value[f] = Resolved(f)
  /\ stage \in {"ready", "tuned"} => value.media_encode > 0 /\ value.audio_encode > 0
  /\ stage = "tuned" => /\ \A l \in DOMAIN limits : limits[l] > 0
                        /\ limits.audio_encode <= value.audio_encode
  /\ stage = "failed" => Explained(reason)
===============================================================================
