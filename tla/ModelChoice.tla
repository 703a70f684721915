------------------------------ MODULE ModelChoice ------------------------------
(***************************************************************************)
(* Which model, reasoning effort and service tier a request goes out with  *)
(* (request-transformer.ts, fetch-helpers.ts, helpers/model-map.ts,        *)
(* helpers/codex-catalog.ts, helpers/responses-lite.ts), when it is built  *)
(* and after each fallback to another model.                               *)
(*                                                                         *)
(* A model id is the sequence of its parts, <<"gpt", "6", "sol">>.         *)
(* Effort suffixes, dates and provider prefixes are taken off a name       *)
(* before it gets here; \b of the patterns is the end of a part, and "6.1" *)
(* is a part that \b lets pass for "6".                                    *)
(***************************************************************************)
EXTENDS Integers, Sequences, FiniteSets, SequencesExt

CONSTANTS
  Names,        \* the model names a host may ask for
  Requested,    \* the efforts it may ask for, "unset" for none
  Tiers,        \* the service tiers it may ask for, "unset" for none
  Policies,     \* [fallback, optOut]: the configuration and the environment
  MaxSwitches   \* MAX_QUOTA_FALLBACK_SWITCHES

VARIABLES
  policy,     \* the configuration of the process
  name,       \* the model the host asked for
  asked,      \* [effort, tier] it asked for
  wire,       \* [model, effort, tier, lite] of the request
  attempted,  \* attemptedUnsupportedFallbackModels
  switches,   \* quotaFallbackSwitches
  state       \* "sent", "served" or "failed"

vars == <<policy, name, asked, wire, attempted, switches, state>>

Astra == <<"gpt", "6", "astra">>
Sol61 == <<"gpt", "6.1", "sol">>
Terra61 == <<"gpt", "6.1", "terra">>
Sol6 == <<"gpt", "6", "sol">>
Luna6 == <<"gpt", "6", "luna">>
Sol56 == <<"gpt", "5.6", "sol">>
Terra56 == <<"gpt", "5.6", "terra">>
Luna56 == <<"gpt", "5.6", "luna">>
Cyber == <<"gpt", "5.6", "cyber">>
Gpt55 == <<"gpt", "5.5">>
Blue == <<"gpt", "daybreak", "blue", "latest">>
Red == <<"gpt", "daybreak", "red", "latest">>
Gpt54 == <<"gpt", "5.4">>
Pro54 == <<"gpt", "5.4", "pro">>
Mini54 == <<"gpt", "5.4", "mini">>
Nano54 == <<"gpt", "5.4", "nano">>
Gpt52 == <<"gpt", "5.2">>
Gpt51 == <<"gpt", "5.1">>
Codex5 == <<"gpt", "5", "codex">>
Codex52 == <<"gpt", "5.2", "codex">>
Codex53 == <<"gpt", "5.3", "codex">>
Spark == <<"gpt", "5.3", "codex", "spark">>
CodexMax == <<"gpt", "5.1", "codex", "max">>
CodexMini == <<"gpt", "5.1", "codex", "mini">>

Daybreak == {Blue, Red, Cyber}

LowToUltra == {Astra, Sol61, Terra61, Sol6, Sol56, Terra56} \cup Daybreak

FullEffort == LowToUltra \cup {Luna6, Luna56}

Models ==
  FullEffort \cup {Gpt55, Gpt54, Pro54, Mini54, Nano54, Gpt52, Gpt51}
    \cup {Codex5, Codex52, Codex53, Spark, CodexMax, CodexMini}

(***************************************************************************)
(* normalizeModel: the map of known names, then the first pattern, from    *)
(* the most specific, that the name contains.                              *)
(***************************************************************************)
Aliases ==
  {<<<<"gpt", "6">>, Astra>>, <<<<"gpt", "6", "astra", "pro">>, Astra>>,
   <<<<"gpt", "6.1">>, Sol61>>, <<<<"gpt", "5.6">>, Sol56>>,
   <<<<"gpt", "5">>, Sol6>>, <<<<"gpt", "5", "mini">>, Luna6>>,
   <<<<"gpt", "5", "nano">>, Nano54>>, <<<<"gpt", "5.1", "codex">>, Codex5>>,
   <<<<"codex", "mini", "latest">>, CodexMini>>,
   <<<<"gpt", "5", "codex", "mini">>, CodexMini>>,
   <<<<"gpt", "daybreak", "blue">>, Blue>>, <<<<"gpt", "daybreak", "red">>, Red>>}

Known == Aliases \cup {<<m, m>> : m \in Models}

Patterns ==
  << <<<<"daybreak", "blue">>, Blue>>, <<<<"daybreak", "red">>, Red>>,
     <<Cyber, Cyber>>, <<Terra61, Terra61>>, <<<<"gpt", "6.1">>, Sol61>>,
     <<Sol6, Sol6>>, <<Luna6, Luna6>>, <<<<"gpt", "6">>, Astra>>,
     <<Spark, Spark>>, <<Codex53, Codex53>>, <<Codex52, Codex52>>,
     <<Terra56, Terra56>>, <<Luna56, Luna56>>, <<<<"gpt", "5.6">>, Sol56>>,
     <<Gpt55, Gpt55>>, <<Pro54, Pro54>>, <<Mini54, Mini54>>, <<Nano54, Nano54>>,
     <<Gpt54, Gpt54>>, <<Gpt52, Gpt52>>, <<CodexMax, CodexMax>>,
     <<CodexMini, CodexMini>>, <<<<"codex", "mini", "latest">>, CodexMini>>,
     <<<<"gpt", "5", "codex", "mini">>, CodexMini>>, <<Codex5, Codex5>>,
     <<<<"gpt", "5.1", "codex">>, Codex5>>, <<Gpt51, Gpt51>>, <<<<"codex">>, Codex5>> >>

PartMatches(part, pattern) == part = pattern \/ (part = "6.1" /\ pattern = "6")

Spells(n, pattern) ==
  \E k \in 0 .. Len(n) - Len(pattern) :
    \A i \in DOMAIN pattern : PartMatches(n[k + i], pattern[i])

NormalizeModel(n) ==
  IF \E k \in Known : k[1] = n THEN (CHOOSE k \in Known : k[1] = n)[2]
  ELSE LET row == SelectInSeq(Patterns, LAMBDA p : Spells(n, p[1])) IN
       IF row = 0 THEN Sol6 ELSE Patterns[row][2]

(***************************************************************************)
(* getReasoningConfig: the effort of name n at canonical model m.          *)
(***************************************************************************)
IsCodexMini(m) == m = CodexMini

IsCodex(n, m) == Spells(n, <<"codex">>) /\ ~IsCodexMini(m)

SupportsXhigh(n, m) ==
  \/ m \in FullEffort \cup {Gpt55, Gpt54, Mini54, Nano54, Pro54, Gpt52}
  \/ \E p \in {Gpt54, Pro54, Gpt52, Codex53, Codex52, <<"codex", "max">>} : Spells(n, p)

SupportsNone(n, m) ==
  /\ m \notin FullEffort
  /\ \/ m \in {Gpt55, Mini54, Nano54}
     \/ Spells(n, Gpt54) /\ ~Spells(n, Pro54)
     \/ Spells(n, Gpt52) /\ ~Spells(n, Codex52)
     \/ Spells(n, Gpt51) /\ ~IsCodex(n, m) /\ ~IsCodexMini(m)

DefaultEffort(n, m) ==
  IF IsCodexMini(m) THEN "medium"
  ELSE IF Spells(n, Codex5) THEN "high"
  ELSE IF Spells(n, Codex53) \/ Spells(n, Codex52) THEN "xhigh"
  ELSE IF SupportsXhigh(n, m) THEN "high" ELSE "medium"

UltraEffort(m) == IF m \in {Astra, Sol61, Terra61} THEN "xhigh" ELSE "max"

Known8 == {"none", "minimal", "low", "medium", "high", "xhigh", "max", "ultra"}

\* One clamp: e becomes to when the condition holds.
Step(e, from, condition, to) == IF e \in from /\ condition THEN to ELSE e

ReasoningEffort(n, requested) ==
  LET m == NormalizeModel(n)
      e0 == IF requested = "unset" THEN DefaultEffort(n, m) ELSE requested
      e1 == IF ~IsCodexMini(m) THEN e0 ELSE IF e0 \in {"high", "xhigh"} THEN "high" ELSE "medium"
      e2 == Step(e1, {"ultra"}, TRUE, UltraEffort(m))
      e3 == Step(e2, {"max"}, m \notin FullEffort, "xhigh")
      e4 == Step(e3, {"xhigh"}, ~SupportsXhigh(n, m), "high")
      e5 == Step(e4, {"none"}, ~SupportsNone(n, m), "low")
      e6 == Step(e5, {"minimal"}, m \in FullEffort, "low")
      e7 == Step(e6, {"low", "minimal"}, Spells(n, Pro54), "medium")
      e8 == Step(e7, {"minimal"}, IsCodex(n, m), "low")
  IN IF e8 \in Known8 THEN e8 ELSE DefaultEffort(n, m)

(***************************************************************************)
(* The catalog's service tiers, the responses-lite shape, and the request  *)
(* they make.                                                              *)
(***************************************************************************)
Catalog == (FullEffort \ {Cyber}) \cup {Gpt55}

Fast(m) == m \in Catalog \ Daybreak

\* Mutant: the tier asked for is kept whatever the model offers.
TierAsAsked(m, tier) == IF tier = "priority" THEN tier ELSE "none"

ResolveServiceTier(m, tier) ==
  IF tier = "unset" THEN IF m \in {Sol6, Luna6} THEN "priority" ELSE "none"
  ELSE IF tier \in {"default", "auto"} THEN "none"
  ELSE IF tier = "flex" \/ (tier = "priority" /\ Fast(m)) THEN tier ELSE "none"

UsesResponsesLite(m) == m \in FullEffort

Wire(m, effort, tier) ==
  [model |-> m, effort |-> effort, tier |-> ResolveServiceTier(m, tier),
   lite |-> UsesResponsesLite(m)]

(***************************************************************************)
(* DEFAULT_UNSUPPORTED_CODEX_FALLBACK_CHAIN and the policy that walks it.  *)
(***************************************************************************)
Chain ==
  { <<Astra, <<Sol61, Sol6, Sol56, Terra56, Gpt55, Luna6, Luna56>>>>,
    <<Sol61, <<Sol6, Sol56, Terra56, Gpt55, Luna6, Luna56>>>>,
    <<Sol6, <<Sol56, Terra56, Gpt55, Luna6, Luna56>>>>,
    <<Sol56, <<Terra56, Gpt55, Luna6, Luna56>>>>,
    <<Terra56, <<Gpt55, Luna6, Luna56>>>>,
    <<Gpt55, <<Sol6, Sol61, Sol56, Terra56, Luna6, Luna56>>>>,
    <<Luna6, <<Luna56, Sol61, Sol6, Sol56, Terra56, Gpt55>>>>,
    <<Luna56, <<Luna6, Sol61, Sol6, Sol56, Terra56, Gpt55>>>>,
    <<Gpt54, <<Sol6, Terra56, Luna56>>>>, <<Mini54, <<Luna6, Luna56>>>>,
    <<Nano54, <<Luna6, Luna56>>>>, <<Pro54, <<Sol6, Terra56, Luna56>>>>,
    <<Codex5, <<Terra56, Luna56>>>>, <<CodexMax, <<Sol56, Terra56, Luna56>>>>,
    <<CodexMini, <<Terra56, Luna56>>>>, <<Spark, <<Codex5, Codex53, Codex52>>>>,
    <<Codex53, <<Codex5, Codex52>>>>, <<Codex52, <<Codex5>>>> }

\* The switch that turns automatic fallback from an entry model off.
Switch(m) ==
  IF m \in {Astra, Sol6, Luna6, Sol61} THEN "gpt6"
  ELSE IF m \in {Sol56, Terra56, Luna56} THEN "gpt56"
  ELSE IF m = Gpt55 THEN "gpt55" ELSE IF m = Codex5 THEN "codex" ELSE "none"

\* The entry model an automatic fallback is accounted to; a model of the
\* continuation set counts for the entry model the walk came from.
EntryModels(m) ==
  IF Switch(m) # "none" THEN {m}
  ELSE IF m \in {Gpt54, Mini54} THEN {a \in attempted : Switch(a) # "none"} ELSE {}

MayFallBackByDefault(m) == \E e \in EntryModels(m) : Switch(e) \notin policy.optOut

Targets(m) ==
  LET rows == {row \in Chain : row[1] = m} IN
  IF rows = {} THEN <<>>
  ELSE SelectSeq((CHOOSE row \in rows : TRUE)[2],
         LAMBDA t : t \notin attempted /\ t # m /\ ~(m = Codex53 /\ t = Codex52))

(***************************************************************************)
(* A request: built once, rejected as unsupported or blocked on quota any  *)
(* number of times, served.                                                *)
(***************************************************************************)
Init ==
  /\ policy \in Policies
  /\ name = <<>>
  /\ asked = [effort |-> "unset", tier |-> "unset"]
  /\ wire = [model |-> <<>>, effort |-> "unset", tier |-> "none", lite |-> FALSE]
  /\ attempted = {}
  /\ switches = 0
  /\ state = "idle"

Transform(n, effort, tier) ==
  /\ state = "idle"
  /\ name' = n
  /\ asked' = [effort |-> effort, tier |-> tier]
  /\ wire' = Wire(NormalizeModel(n), ReasoningEffort(n, effort), tier)
  /\ attempted' = {NormalizeModel(n)}
  /\ state' = "sent"
  /\ UNCHANGED <<policy, switches>>

ApplyModelFallback(target) ==
  /\ wire' = Wire(target, ReasoningEffort(target, wire.effort), asked.tier)
  /\ attempted' = attempted \cup {wire.model, target}

\* The last account refuses the model.
Unsupported ==
  /\ state = "sent"
  /\ IF (policy.fallback \/ MayFallBackByDefault(wire.model)) /\ Targets(wire.model) # <<>>
     THEN ApplyModelFallback(Head(Targets(wire.model))) /\ UNCHANGED state
     ELSE state' = "failed" /\ UNCHANGED <<wire, attempted>>
  /\ UNCHANGED <<policy, name, asked, switches>>

\* Every account is blocked for the model, and target is the first of its
\* targets that some account can serve.
QuotaBlocked ==
  /\ state = "sent"
  /\ switches < MaxSwitches
  /\ MayFallBackByDefault(wire.model)
  /\ \E target \in ToSet(Targets(wire.model)) : ApplyModelFallback(target)
  /\ switches' = switches + 1
  /\ UNCHANGED <<policy, name, asked, state>>

Serve ==
  /\ state = "sent"
  /\ state' = "served"
  /\ UNCHANGED <<policy, name, asked, wire, attempted, switches>>

Next ==
  \/ \E n \in Names, effort \in Requested, tier \in Tiers : Transform(n, effort, tier)
  \/ Unsupported
  \/ QuotaBlocked
  \/ Serve

Spec == Init /\ [][Next]_vars

--------------------------------------------------------------------------------
Wires ==
  [model : Models \cup {<<>>}, effort : Known8 \cup {"unset"},
   tier : {"none", "priority", "flex"}, lite : BOOLEAN]

\* The request and the walk are what the code passes around.
TypeOK ==
  /\ policy \in Policies
  /\ name \in Names \cup {<<>>}
  /\ asked \in [effort : Requested \cup {"unset"}, tier : Tiers \cup {"unset"}]
  /\ wire \in Wires
  /\ attempted \subseteq Models
  /\ switches \in 0 .. MaxSwitches
  /\ state \in {"idle", "sent", "served", "failed"}

\* docs/configuration.md:66-88 and :100, without the client-side ultra.
Documented(m) ==
  IF m \in FullEffort THEN {"low", "medium", "high", "xhigh", "max"}
  ELSE IF m \in {Gpt55, Gpt54, Mini54, Nano54, Gpt52}
    THEN {"none", "minimal", "low", "medium", "high", "xhigh"}
  ELSE IF m = Gpt51 THEN {"none", "minimal", "low", "medium", "high"}
  ELSE IF m = Pro54 THEN {"medium", "high", "xhigh"}
  ELSE IF m = Codex5 THEN {"low", "medium", "high"}
  ELSE IF m = CodexMini THEN {"medium", "high"}
  ELSE {"low", "medium", "high", "xhigh"}

\* However often the request changed models, what it carries is what the model
\* it now goes to is documented to take: the effort, the tier, the shape.
WireAccepted ==
  state # "idle" =>
    /\ wire.effort \in Documented(wire.model)
    /\ wire.tier = "priority" => wire.model \in Catalog /\ wire.model \notin Daybreak
    /\ wire.lite = (wire.model \in FullEffort)

\* A name that only adds words to a model's id means that model, whatever other
\* patterns it contains.
NameKept ==
  state # "idle" =>
    \A m \in Models : Len(name) = Len(m) + 1 /\ SubSeq(name, 1, Len(m)) = m
      /\ (\A k \in Known : k[1] # name)
      /\ ~(\E o \in Models : Len(o) > Len(m) /\ Spells(name, o))
      => m \in attempted

LiveGeneral == {Sol61, Sol6, Sol56, Terra56, Gpt55, Luna6, Luna56}

Walkable == Models \ (Daybreak \cup {Terra61, Spark, Codex53, Codex52, Gpt52, Gpt51})

WalkedAll ==
  /\ state = "failed"
  /\ attempted \subseteq Walkable
  /\ policy.fallback \/ EntryModels(wire.model) # {}
  /\ policy.optOut = {}
  => LiveGeneral \subseteq attempted

\* "Every walk ends on the terminal [...] so every entry point reaches every
\* live general model" (fetch-helpers.ts:134): a request that may fall back
\* fails only after all of them refused it, unless a quota made it skip some;
\* and Astra and the cyber tiers are
\* never what another model degrades into.
WalkReachesAll ==
  /\ switches = 0 => WalkedAll
  /\ state # "idle" /\ attempted # {wire.model} => wire.model \notin Daybreak \cup {Astra}

ChoiceSafe == WireAccepted /\ NameKept /\ WalkReachesAll
================================================================================
