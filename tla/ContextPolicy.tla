------------------------------ MODULE ContextPolicy ------------------------------
(***************************************************************************)
(* The per-model context policy: the capacity profile an operator's         *)
(* calibration saves and the server reads through a cache keyed by the      *)
(* file's time stamp (capacity_profile.py, CapacityController._get_profile), *)
(* whose profile applies to which model and host, the estimated cost of a   *)
(* request and the budgets it is held to (capacity_context.py).             *)
(*                                                                          *)
(* A request is [route, model, text, structured, media, maxTokens,          *)
(* maxCompletion]: characters of message text and of structured prompt      *)
(* fields, media parts, and the limits it declares.  A profile is           *)
(* [model, runtime, machine, memory, budgets].                              *)
(***************************************************************************)
EXTENDS Integers, FiniteSets, FiniteSetsExt

CONSTANTS
    Asks,           \* requests
    Profiles,       \* profiles a calibration may save
    Identity,       \* per model name, [repo, name] of _canonical_model_identity
    Host,           \* this process: [runtime, machine, memory]
    CharsPerToken,  \* CHARS_PER_TOKEN_FALLBACK
    DefaultOutput,  \* get_default_max_tokens()
    MaxClock        \* bound: ticks of the file system's clock

Off == -1           \* a budget, limit or memory size that is not given
Unnamed == "none"   \* no repository, or an empty name

\* A budget or a declared limit is absent or, as the request and profile schemas
\* demand, not negative.
Limit == Nat \cup {Off}

\* A repository id ends in the model's name: names of one repository are one model.
ASSUME ContextAssumption ==
    /\ CharsPerToken \in Nat \ {0} /\ DefaultOutput \in Nat
    /\ \A p \in Profiles :
         /\ p.model \in DOMAIN Identity
         /\ p.budgets \in [hard : Limit, recommended : Limit, interactive : Limit,
                           maxIn : Limit, maxOut : Limit, media : Limit]
    /\ \A ask \in Asks :
         /\ ask.model \in DOMAIN Identity
         /\ {ask.text, ask.structured, ask.media} \subseteq Nat
         /\ ask.maxTokens \in Limit /\ ask.maxCompletion \in Limit
    /\ \A m \in DOMAIN Identity : Identity[m] \in [repo : STRING, name : STRING]
    /\ \A m, n \in DOMAIN Identity :
         Identity[m].repo = Identity[n].repo /\ Identity[m].repo # Unnamed
            => Identity[m].name = Identity[n].name

VARIABLES
    disk,       \* the profile file: [state, profile, mtime]
    clock,      \* what a write stamps the file with
    cached,     \* the cache: [sig, profile]; sig Off when empty
    collided,   \* ghost: the file was written in the tick of the cached signature
    verdict     \* the last request judged, and what it was judged by

ctxVars == <<disk, clock, cached, collided, verdict>>

------------------------------------------------------------------------------
(* Identity of models and hosts.                                            *)

\* A name with a repository matches only that repository, one without only a bare
\* name.
ModelIdentityMatches(a, b) ==
    LET left == Identity[a] right == Identity[b]
    IN  /\ left.name # Unnamed /\ right.name # Unnamed
        /\ \/ left.repo # Unnamed /\ left.repo = right.repo
           \/ left.repo = Unnamed /\ right.repo = Unnamed /\ left.name = right.name

HostStatus(p) ==
    /\ Host.runtime # Unnamed /\ Host.machine # Unnamed
    /\ p.runtime = Host.runtime /\ p.machine = Host.machine
    /\ p.memory = Off \/ p.memory = Host.memory

------------------------------------------------------------------------------
(* Cost and budgets.                                                        *)

CountTokens(chars) == (chars + CharsPerToken - 1) \div CharsPerToken

\* The larger of the two declared limits; the default when neither is declared.
EffectiveOutputLimit(ask) ==
    IF ask.maxTokens = Off /\ ask.maxCompletion = Off THEN DefaultOutput
    ELSE Max({ask.maxTokens, ask.maxCompletion, 0})

\* estimate_request_cost, and for /v1/generate estimate_prompt_cost, which knows
\* neither structured fields nor media nor a second limit.
EstimateRequestCost(ask, estimate) ==
    [input  |-> CountTokens(ask.text) + CountTokens(ask.structured),
     output |-> EffectiveOutputLimit(ask),
     media  |-> IF estimate = Off THEN 0 ELSE ask.media * estimate,
     unknown |-> ask.media > 0 /\ estimate \in {Off, 0}]

EstimatePromptCost(ask) ==
    [input |-> CountTokens(ask.text), output |-> IF ask.maxTokens = Off THEN DefaultOutput ELSE ask.maxTokens,
     media |-> 0, unknown |-> FALSE]

Total(cost) == cost.input + cost.output + cost.media

Exceeds(n, limit) == limit # Off /\ n > limit

NoBudgets == [hard |-> Off, recommended |-> Off, interactive |-> Off, maxIn |-> Off, maxOut |-> Off, media |-> Off]

\* Faulty variant: only the total is compared with the budgets.
EvaluateContextTotals(cost, b) ==
    IF Exceeds(Total(cost), b.hard) THEN "above_hard" ELSE "within_interactive"

\* The first budget breached; recommended and interactive ones only label.
EvaluateContext(cost, b) ==
    CASE b = NoBudgets -> "no_budget"
      [] OTHER ->
         IF Exceeds(cost.output, b.maxOut) THEN "above_output_limit"
         ELSE IF Exceeds(cost.input + cost.media, b.maxIn) THEN "above_input_limit"
         ELSE IF Exceeds(Total(cost), b.hard) THEN "above_hard"
         ELSE IF Exceeds(Total(cost), b.recommended) THEN "above_recommended"
         ELSE IF Exceeds(Total(cost), b.interactive) THEN "within_recommended"
         ELSE "within_interactive"

OverLimit(reason) == reason \in {"above_output_limit", "above_input_limit", "above_hard"}

------------------------------------------------------------------------------
(* The profile file and its cache.                                          *)

NoProfileFile == [state |-> "missing", profile |-> CHOOSE p \in Profiles : TRUE, mtime |-> 0]
Nobody == [none |-> TRUE]
Stored(p) == [none |-> FALSE, is |-> p]

\* safe_load_profile: a file that is missing or does not parse is no profile.
SafeLoadProfile == IF disk.state = "whole" THEN Stored(disk.profile) ELSE Nobody

\* Faulty variant: the first profile read is kept whatever happens to the file.
GetProfileStale == IF cached.sig # Off THEN cached ELSE [sig |-> disk.mtime, profile |-> SafeLoadProfile]

\* _get_profile: what is cached for the signature of the file, a failure too, or
\* the file read and cached.
GetProfile == IF cached.sig = disk.mtime THEN cached ELSE [sig |-> disk.mtime, profile |-> SafeLoadProfile]

ContextBudgets(got, model) ==
    IF ~got.profile.none /\ ModelIdentityMatches(got.profile.is.model, model) /\ HostStatus(got.profile.is)
    THEN got.profile.is.budgets ELSE NoBudgets

------------------------------------------------------------------------------
NoVerdict == [judged |-> FALSE]

CtxTypeOK ==
    /\ disk.state \in {"missing", "partial", "whole"} /\ disk.profile \in Profiles
    /\ clock \in 1..MaxClock /\ disk.mtime \in 0..clock
    /\ cached.sig \in {Off} \cup 0..clock /\ cached.profile \in {Nobody} \cup {Stored(p) : p \in Profiles}
    /\ collided \in BOOLEAN

CtxInit ==
    /\ disk = NoProfileFile /\ clock = 1 /\ cached = [sig |-> Off, profile |-> Nobody]
    /\ collided = FALSE /\ verdict = NoVerdict

\* The file system's clock is coarse: several writes may carry one stamp.
Tick0 ==
    /\ clock < MaxClock /\ clock' = clock + 1
    /\ UNCHANGED <<disk, cached, collided, verdict>>

\* safe_save_profile truncates the file and writes it in place.
SaveBegins(p) ==
    /\ disk.state # "partial"
    /\ disk' = [state |-> "partial", profile |-> p, mtime |-> clock]
    /\ collided' = (clock = cached.sig)
    /\ UNCHANGED <<clock, cached, verdict>>

SaveEnds ==
    /\ disk.state = "partial"
    /\ disk' = [disk EXCEPT !.state = "whole", !.mtime = clock]
    /\ collided' = (clock = cached.sig)
    /\ UNCHANGED <<clock, cached, verdict>>

Budgets(ask) == ContextBudgets(GetProfile, ask.model)

CostOf(ask) ==
    IF ask.route = "chat" THEN EstimateRequestCost(ask, Budgets(ask).media) ELSE EstimatePromptCost(ask)

\* Admission and the controller judge one cost by one reading of the budgets.
Judge(ask) ==
    /\ cached' = GetProfile
    /\ collided' = (collided /\ cached' = cached)
    /\ verdict' = [judged |-> TRUE, ask |-> ask, by |-> GetProfile.profile,
                   over |-> OverLimit(EvaluateContext(CostOf(ask), Budgets(ask)))]
    /\ UNCHANGED <<disk, clock>>

CtxNext ==
    \/ Tick0
    \/ \E p \in Profiles : SaveBegins(p)
    \/ SaveEnds
    \/ \E ask \in Asks : Judge(ask)

CtxSpec == CtxInit /\ [][CtxNext]_ctxVars

------------------------------------------------------------------------------
\* A request is judged by the profile the file holds at that moment, none if it is
\* missing or half written; the cache hides a change only when the file was written
\* again in the very tick of the clock in which it had been read.
StaleOnlyInOneTick ==
    [][verdict' # verdict => verdict'.by = SafeLoadProfile \/ collided]_ctxVars

\* The reference for the policy.  What a request may generate:
Allowance(a) ==
    IF a.route = "chat" /\ a.maxCompletion > a.maxTokens THEN a.maxCompletion
    ELSE IF a.maxTokens # Off THEN a.maxTokens ELSE DefaultOutput

\* The profile is of this host, which must be known, and of this model, which must
\* have a name.
InForce(p, a) ==
    /\ Unnamed \notin {Host.runtime, Host.machine}
    /\ p.runtime = Host.runtime /\ p.machine = Host.machine /\ p.memory \in {Off, Host.memory}
    /\ Identity[p.model] = Identity[a.model] /\ Identity[a.model].name # Unnamed

InputOf(a, b) ==
    CountTokens(a.text)
    + (IF a.route = "chat" THEN CountTokens(a.structured) ELSE 0)
    + (IF a.route = "chat" /\ b.media # Off THEN a.media * b.media ELSE 0)

HasRoom(a, b) ==
    /\ b.hard = Off \/ InputOf(a, b) + Allowance(a) <= b.hard
    /\ b.maxIn = Off \/ InputOf(a, b) <= b.maxIn
    /\ b.maxOut = Off \/ Allowance(a) <= b.maxOut

\* A request is refused for its context exactly when a profile in force for its
\* model and for this host gives it less room than it may use - input, media and
\* declared output together, its input alone or its output alone - and never
\* because of another model's or another host's profile (evaluate_context).
RefusedExactlyWhenItCannotFit ==
    verdict.judged =>
        verdict.over = (/\ ~verdict.by.none /\ InForce(verdict.by.is, verdict.ask)
                        /\ ~HasRoom(verdict.ask, verdict.by.is.budgets))
================================================================================
