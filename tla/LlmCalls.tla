------------------------------ MODULE LlmCalls ------------------------------
(***************************************************************************)
(* One call of a language model as every role of the agent runner makes    *)
(* it: llm.ts runs the provider's command line under a timeout, and        *)
(* index.ts falls back to the other provider, remembers which commands are *)
(* installed and leaves Codex alone while its usage limit lasts.  The      *)
(* roles call one after the other.                                         *)
(***************************************************************************)
EXTENDS Integers

CONSTANTS
  Preferred,     \* env.AGENT_LLM
  MaxAttempts,   \* attempts at claude; codex has one
  MaxLimits      \* bound: usage limits that Codex reports

Providers == {"claude", "codex"}
Other(p) == IF p = "claude" THEN "codex" ELSE "claude"

VARIABLES
  installed,        \* the commands that exist
  commandPathCache, \* provider -> "unknown", "found" or "missing"
  codexDisabled,    \* codexDisabledUntilMs lies in the future
  stage, asked, isFallback, attempt,
  child,            \* the process of the attempt: "none", "running" or "hung"
  limitHit,         \* the primary error was a usage limit
  limits

callVars == <<stage, asked, isFallback, attempt, child, limitHit>>
vars == <<installed, commandPathCache, codexDisabled, callVars, limits>>

Init ==
  /\ installed \in SUBSET Providers
  /\ commandPathCache = [p \in Providers |-> "unknown"]
  /\ codexDisabled = FALSE /\ limits = 0
  /\ stage = "idle" /\ asked = Preferred /\ isFallback = FALSE /\ attempt = 0
  /\ child = "none" /\ limitHit = FALSE

llmConfigForRole == IF Preferred = "codex" /\ codexDisabled THEN "claude" ELSE Preferred

Call ==
  /\ stage \in {"idle", "answered", "failed"}
  /\ stage' = "resolve" /\ asked' = llmConfigForRole
  /\ isFallback' = FALSE /\ attempt' = 1 /\ limitHit' = FALSE
  /\ UNCHANGED <<installed, commandPathCache, codexDisabled, child, limits>>

\* resolveCommandPath: what the first search finds, or fails to find in
\* time, is remembered for the life of the process.
Search(p) ==
  IF commandPathCache[p] = "unknown"
  THEN \E r \in {"missing"} \cup (IF p \in installed THEN {"found"} ELSE {}) :
         commandPathCache' = [commandPathCache EXCEPT ![p] = r]
  ELSE UNCHANGED commandPathCache

Fails == stage' = IF isFallback THEN "failed" ELSE "probe"

Resolve ==
  /\ stage = "resolve"
  /\ Search(asked)
  /\ IF commandPathCache'[asked] = "found"
     THEN stage' = "run" /\ child' = "running"
     ELSE Fails /\ UNCHANGED child
  /\ UNCHANGED <<installed, codexDisabled, asked, isFallback, attempt, limitHit,
                 limits>>

\* A fallback to Claude that answers records the limit Codex reported.
Answer ==
  /\ stage = "run" /\ child = "running"
  /\ stage' = "answered" /\ child' = "none"
  /\ codexDisabled' = (codexDisabled \/ (isFallback /\ limitHit))
  /\ UNCHANGED <<installed, commandPathCache, asked, isFallback, attempt, limitHit, limits>>

\* The command fails or its output is no answer: Claude is tried again.
AttemptFails ==
  /\ stage = "run" /\ child = "running"
  /\ IF asked = "claude" /\ attempt < MaxAttempts
     THEN attempt' = attempt + 1 /\ UNCHANGED <<stage, child>>
     ELSE Fails /\ child' = "none" /\ UNCHANGED attempt
  /\ UNCHANGED <<installed, commandPathCache, codexDisabled, asked, isFallback, limitHit, limits>>

\* maybeDisableCodexFromError: at once when Codex was the fallback, once
\* Claude has answered when it was asked first.
UsageLimit ==
  /\ stage = "run" /\ child = "running" /\ asked = "codex"
  /\ limits < MaxLimits /\ limits' = limits + 1
  /\ Fails /\ child' = "none"
  /\ limitHit' = TRUE
  /\ codexDisabled' = (codexDisabled \/ isFallback)
  /\ UNCHANGED <<installed, commandPathCache, asked, isFallback, attempt>>

Hang ==
  /\ stage = "run" /\ child = "running" /\ child' = "hung"
  /\ UNCHANGED <<installed, commandPathCache, codexDisabled, stage, asked, isFallback, attempt,
                 limitHit, limits>>

\* Mutant: the timeout kills the process and waits for it to close.
TimeoutWaits ==
  /\ stage = "run" /\ child = "running"
  /\ Fails /\ child' = "none"
  /\ UNCHANGED <<installed, commandPathCache, codexDisabled, asked, isFallback, attempt,
                 limitHit, limits>>

\* The call is settled whether or not the process dies, and a timeout is
\* not retried.
Timeout ==
  /\ stage = "run"
  /\ Fails /\ child' = "none"
  /\ UNCHANGED <<installed, commandPathCache, codexDisabled, asked, isFallback, attempt,
                 limitHit, limits>>

\* isClaudeAvailable, isCodexAvailable: the limit is not consulted here.
FallBack ==
  /\ stage = "probe"
  /\ Search(Other(asked))
  /\ IF commandPathCache'[Other(asked)] = "found"
     THEN /\ stage' = "resolve" /\ asked' = Other(asked) /\ isFallback' = TRUE /\ attempt' = 1
     ELSE stage' = "failed" /\ UNCHANGED <<asked, isFallback, attempt>>
  /\ UNCHANGED <<installed, codexDisabled, child, limitHit, limits>>

LimitEnds ==
  /\ codexDisabled /\ codexDisabled' = FALSE
  /\ UNCHANGED <<installed, commandPathCache, callVars, limits>>

Step == Resolve \/ Answer \/ AttemptFails \/ UsageLimit \/ Timeout \/ FallBack

Next == Call \/ Step \/ Hang \/ LimitEnds

Fairness == WF_vars(Step)

Spec == Init /\ [][Next]_vars /\ Fairness

(***************************************************************************)
(* Properties.                                                             *)
(***************************************************************************)
\* A call ends with an answer or an error although its process may hang and
\* survive its signals, so the pipeline that awaits it goes on
\* (llm.ts:91-102).
CallEnds == []<>(stage \in {"idle", "answered", "failed"})
=============================================================================
