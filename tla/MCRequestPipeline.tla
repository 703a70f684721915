-------------------------- MODULE MCRequestPipeline --------------------------
(* Instances of RequestPipeline for TLC. *)
EXTENDS RequestPipeline

CONSTANTS a1, a2, m1, m2

OneLogin == [a \in {a1, a2} |-> "login"]

OwnLogin == [a \in {a1} |-> "login"]

\* A custom chain may be cyclic.
Cycle == [m \in {m1, m2} |-> <<IF m = m1 THEN m2 ELSE m1>>]

OneFamily == [m \in {m1, m2} |-> "gpt-5"]

OwnFamily == [m \in {m1} |-> "gpt-5"]

NoChain == [m \in {m1} |-> <<>>]

\* A plan spends one unit of the budgets named, none of the others.
Budget(classes) == [c \in BudgetClasses |-> IF c \in classes THEN 1 ELSE 0]

Plain(classes) ==
  [limits |-> Budget(classes), strict |-> {}, credits |-> FALSE, hybrid |-> FALSE,
   fallback |-> FALSE, retryAll |-> FALSE, maxRounds |-> -1]

Upstream == [Plain({"network", "server"}) EXCEPT !.hybrid = TRUE]

Backoff == Plain({"authRefresh", "rateLimitShort"})

Patient == [Plain({"rateLimitGlobal", "emptyResponse"}) EXCEPT !.retryAll = TRUE]

Degrading ==
  [Plain({}) EXCEPT !.fallback = TRUE]

Paying == [Plain({"rateLimitShort"}) EXCEPT !.credits = TRUE, !.strict = {a1, a2}]

EachPlan == {Upstream, Backoff, Patient, Degrading, Paying}

OnlyBackoff == {Backoff}

OnlyPatient == {Patient}

OnlyPaying == {Paying}

\* The accounts share a login and the fetches ask for the same model.
Symmetric == Permutations(Requests) \cup Permutations(Accounts)
==============================================================================
