------------------------------ MODULE Settings ------------------------------
(* How three programs build their configuration: lesson 41, the capstone    *)
(* (lesson 47) and the rate limiter.  Defaults, then the environment, then  *)
(* flags, then validation; each layer refuses to start with the errors it   *)
(* collected.  The operator corrects what a refusal named and starts again. *)
(* Settings are grouped by how they can be wrong.                           *)
EXTENDS Naturals, FiniteSets

CONSTANT MaxStarts      \* bound: starts after which the operator gives up
\* What the constant has to be.
SettingsAssumption == MaxStarts \in Nat \ {0}

VARIABLES
    loader,     \* whose Load it is
    env, flags, \* what the operator has set; "default" is unset or empty
    cfg,        \* the configuration being built
    stage,
    errs,       \* the settings the last refusal named
    starts

vars == <<loader, env, flags, cfg, stage, errs, starts>>

Loaders == {"lesson41", "capstone", "limiter"}
Keys == {"env", "level", "number", "window", "secret", "host"}

\* The settings a program has.  A "junk" value does not parse, a "low" one is
\* out of range; an unknown environment or level is "odd".
KeysOf(l) ==
    CASE l = "lesson41" -> {"env", "level", "number", "secret", "host"}
      [] l = "capstone" -> {"env", "level", "number", "secret"}
      [] OTHER -> {"number", "window", "secret"}

FlagsOf(l) ==
    CASE l = "lesson41" -> {"env", "level", "number"}
      [] l = "capstone" -> {"env", "level"}
      [] OTHER -> {}

Choices(k) ==
    {"default"} \cup
    CASE k = "env" -> {"prod", "odd"}
      [] k = "level" -> {"odd"}
      [] k \in {"number", "window"} -> {"ok", "low", "junk"}
      [] OTHER -> {"ok"}

\* A layer that sets some of the settings.
Layers(settings) ==
    LET of(k) == IF k \in settings THEN Choices(k) ELSE {"default"} IN
    [env : of("env"), level : of("level"), number : of("number"),
     window : of("window"), secret : of("secret"), host : of("host")]

Init ==
    /\ loader \in Loaders
    /\ env \in Layers(KeysOf(loader)) /\ flags \in Layers(FlagsOf(loader))
    /\ cfg = [k \in Keys |-> "default"]
    /\ stage = "env" /\ errs = {} /\ starts = 1

Over(base, layer) == [k \in Keys |-> IF layer[k] = "default" THEN base[k] ELSE layer[k]]
Junk(layer) == {k \in Keys : layer[k] = "junk"}

\* The environment, with every value that does not parse; the limiter returns
\* at once when it is the window.
EnvErrors ==
    IF loader = "limiter" /\ env["window"] = "junk" THEN {"window"} ELSE Junk(env)

ReadEnv ==
    /\ stage = "env" /\ errs' = EnvErrors
    /\ IF errs' = {} THEN stage' = "flags" /\ cfg' = Over(cfg, env)
       ELSE stage' = "refused" /\ UNCHANGED cfg
    /\ UNCHANGED <<loader, env, flags, starts>>

\* Mutant: a flag counts only where the environment says nothing.
ParseFlagsUnderEnv ==
    /\ stage = "flags" /\ errs' = Junk(flags)
    /\ IF errs' = {} THEN stage' = "validate" /\ cfg' = Over(flags, cfg)
       ELSE stage' = "refused" /\ UNCHANGED cfg
    /\ UNCHANGED <<loader, env, flags, starts>>

\* fs.Parse stops at the first flag that does not parse.
ParseFlags ==
    /\ stage = "flags" /\ errs' = Junk(flags)
    /\ IF errs' = {} THEN stage' = "validate" /\ cfg' = Over(cfg, flags)
       ELSE stage' = "refused" /\ UNCHANGED cfg
    /\ UNCHANGED <<loader, env, flags, starts>>

\* Validate: lesson 41 wants a DSN and a public host in prod, the capstone a
\* key that is not the default, the limiter its database URL always.
Problems(c) ==
    {k \in KeysOf(loader) :
        \/ c[k] \in {"odd", "low"}
        \/ k \in {"secret", "host"} /\ c[k] = "default" /\ (c["env"] = "prod" \/ loader = "limiter")}

Validate ==
    /\ stage = "validate" /\ errs' = Problems(cfg)
    /\ stage' = IF errs' = {} THEN "running" ELSE "refused"
    /\ UNCHANGED <<loader, env, flags, cfg, starts>>

\* The operator gives each named setting a good value where it was set, an
\* unknown environment either of the known ones.
Good(k) == IF k = "env" THEN {"dev", "prod"} ELSE {"ok"}

Correct ==
    /\ stage = "refused" /\ starts < MaxStarts
    /\ LET byFlag == {k \in errs : flags[k] # "default" /\ env[k] # "junk"} IN
       \E e \in Good("env") :
         LET fixed(k) == IF k = "env" THEN e ELSE CHOOSE v \in Good(k) : TRUE IN
         /\ flags' = [k \in Keys |-> IF k \in byFlag THEN fixed(k) ELSE flags[k]]
         /\ env' = [k \in Keys |-> IF k \in errs \ byFlag THEN fixed(k) ELSE env[k]]
    /\ cfg' = [k \in Keys |-> "default"]
    /\ stage' = "env" /\ starts' = starts + 1
    /\ UNCHANGED <<loader, errs>>

Next == ReadEnv \/ ParseFlags \/ Validate \/ Correct

Spec == Init /\ [][Next]_vars /\ WF_vars(Next)

-----------------------------------------------------------------------------
(* Properties *)

SettingsTypeOK ==
    /\ loader \in Loaders /\ errs \subseteq Keys /\ starts \in 1..MaxStarts
    /\ stage \in {"env", "flags", "validate", "refused", "running"}

(***************************************************************************)
(* A program that starts has what the highest layer said, and nothing of   *)
(* what its checks are there to keep out of production.                    *)
(***************************************************************************)
StartedIsSound ==
    stage = "running" =>
        /\ cfg = Over(Over([k \in Keys |-> "default"], env), flags)
        /\ \A k \in Keys : cfg[k] \notin {"junk", "odd", "low"}
        /\ cfg["env"] = "prod" => cfg["secret"] # "default"

(***************************************************************************)
(* Errors are collected (41 main.go:108, "one message listing everything   *)
(* wrong"): correcting what a refusal names gets the program running, after*)
(* at most one refusal by the environment (the limiter: two), one by the   *)
(* flags, one by the checks, and one more by those that prod adds.         *)
(***************************************************************************)
RunsInTheEnd == <>(stage = "running" /\ starts <= 5)
=============================================================================
