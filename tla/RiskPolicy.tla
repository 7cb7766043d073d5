----------------------------- MODULE RiskPolicy -----------------------------
(***************************************************************************)
(* The risk policy of the runtime while it is traded under: /risk-policy   *)
(* commands of operators, the risk agent's own tuning, the account value   *)
(* and its peak, and the two checks of an entry that depend on them        *)
(* (apps/runtime/src/orchestrator/state.ts,                                *)
(* packages/risk-engine/src/index.ts, apps/agent-runner/src/index.ts).     *)
(*                                                                         *)
(* maxDrawdownPct stands for the other bounded fields too: they differ in  *)
(* their minimum only.  The value 0 of a field is below its minimum, as    *)
(* what is not a number is.  What is announced of the policy is left out;  *)
(* a publication that throws does not undo the change before it.           *)
(***************************************************************************)
EXTENDS Integers

CONSTANTS
  Leverages, Drawdowns,   \* values of the fields that are at least their minimum
  EnvPolicies,            \* policies of the environment, fields at least their minimum
  Worths,                 \* values of the account
  MinWorth,               \* RUNTIME_MIN_LIVE_ACCOUNT_VALUE_USD
  MaxGross,               \* bound: the largest gross exposure asked for
  MaxPatches,             \* bound: commands
  MaxBoots                \* bound: starts of the runtime after the first

VARIABLES
  env,                    \* the policy in the environment of the process
  policy,                 \* runtimeRiskPolicy
  account, cachedWorth, peak,
  gross, candidate,       \* the desk's gross exposure, and what the proposal at hand adds
  highest,                \* history: the highest value read since the start
  patches, boots

policyVars == <<env, policy, account, cachedWorth, peak, gross, candidate,
                highest, patches, boots>>

Fields == {"maxLeverage", "targetLeverage", "maxDrawdownPct"}
Values(field) == {0} \cup (IF field = "maxDrawdownPct" THEN Drawdowns ELSE Leverages)

\* What a command may set: some fields, each to some value.
Patches(fields) ==
  UNION {{p \in [named -> {0} \cup Leverages \cup Drawdowns] : \A f \in named : p[f] \in Values(f)}
           : named \in SUBSET fields}

Smaller(a, b) == IF a < b THEN a ELSE b

\* The policy a process starts with; its target is lowered to its maximum.
initialPolicy == [env EXCEPT !.targetLeverage = Smaller(env.targetLeverage, env.maxLeverage)]

Init ==
  /\ env \in EnvPolicies
  /\ policy = initialPolicy
  /\ account \in Worths /\ cachedWorth = 0 /\ peak = 0 /\ highest = 0
  /\ gross = 0 /\ candidate = 0 /\ patches = 0 /\ boots = 0

(***************************************************************************)
(* /risk-policy                                                            *)
(***************************************************************************)
Over(patch) == [f \in Fields |-> IF f \in DOMAIN patch THEN patch[f] ELSE policy[f]]

\* Mutant: the two leverages are compared only when both are named.
normalizeRiskPolicyOfPatch(patch) ==
  IF \/ DOMAIN patch = {} \/ \E f \in DOMAIN patch : patch[f] = 0
     \/ {"maxLeverage", "targetLeverage"} \subseteq DOMAIN patch /\ patch.targetLeverage > patch.maxLeverage
  THEN policy ELSE Over(patch)

\* A patch that is empty, has a field below its minimum, or would leave the
\* target above the maximum is refused as a whole.
normalizeRiskPolicy(patch) ==
  IF \/ DOMAIN patch = {}
     \/ \E f \in DOMAIN patch : patch[f] = 0
     \/ Over(patch).targetLeverage > Over(patch).maxLeverage
  THEN policy ELSE Over(patch)

\* A token that is no key=value, or whose key is no alias of a field, refuses
\* the command, as JSON does that is none; an unknown key of JSON is skipped.
parseRiskPolicyArgs(args) ==
  IF args.malformed THEN policy ELSE normalizeRiskPolicy(args.patch)

RiskPolicyCommand(args) ==
  /\ patches < MaxPatches /\ patches' = patches + 1
  /\ policy' = parseRiskPolicyArgs(args)
  /\ UNCHANGED <<env, account, cachedWorth, peak, gross, candidate, highest, boots>>

(***************************************************************************)
(* The risk agent                                                          *)
(***************************************************************************)
\* What a report recommends, numbers only: the schema's ranges are asked of
\* the model and not checked.
generateRiskReport == Patches({"maxLeverage", "maxDrawdownPct"})

\* buildRiskPolicyArgsFromRecommendations never names targetLeverage.  The
\* cooldown and the way through the stream decide when a command arrives,
\* and whether it does.
AgentCommand ==
  \E recommended \in generateRiskReport :
    RiskPolicyCommand([malformed |-> FALSE, patch |-> recommended])

(***************************************************************************)
(* The account                                                             *)
(***************************************************************************)
\* refreshLiveAccountValue, when its fifteen seconds are over: a read that
\* fails keeps the value.
RefreshAccount ==
  /\ cachedWorth' = account
  /\ peak' = IF account > peak THEN account ELSE peak
  /\ highest' = IF account > highest THEN account ELSE highest
  /\ UNCHANGED <<env, policy, account, gross, candidate, patches, boots>>

AccountMoves ==
  /\ account' \in Worths \ {account}
  /\ UNCHANGED <<env, policy, cachedWorth, peak, gross, candidate, highest, patches, boots>>

(***************************************************************************)
(* An entry                                                                *)
(***************************************************************************)
ProposeEntry ==
  /\ candidate = 0
  /\ candidate' \in 1 .. MaxGross - gross
  /\ UNCHANGED <<env, policy, account, cachedWorth, peak, gross, highest, patches, boots>>

\* The live funding gate, of a flat desk.
Funded == gross # 0 \/ cachedWorth >= MinWorth

\* Growth is refused without an account value.
checkLeverage == cachedWorth > 0 /\ gross + candidate <= policy.maxLeverage * cachedWorth

\* Without an account value nothing is refused here.
checkDrawdown ==
  peak > 0 /\ cachedWorth > 0 => (peak - cachedWorth) * 100 <= policy.maxDrawdownPct * peak

\* One cycle of the desk; a desk that is not funded waits with the proposal.
EvaluateEntry ==
  /\ candidate # 0 /\ Funded
  /\ candidate' = 0
  /\ gross' = IF checkLeverage /\ checkDrawdown THEN gross + candidate ELSE gross
  /\ UNCHANGED <<env, policy, account, cachedWorth, peak, highest, patches, boots>>

\* A proposal is forgotten after a minute.
ProposalExpires ==
  /\ candidate # 0 /\ candidate' = 0
  /\ UNCHANGED <<env, policy, account, cachedWorth, peak, gross, highest, patches, boots>>

PositionsClose ==
  /\ gross # 0 /\ gross' = 0
  /\ UNCHANGED <<env, policy, account, cachedWorth, peak, candidate, highest, patches, boots>>

\* The policy, the peak and the proposal are gone.
RuntimeRestarts ==
  /\ boots < MaxBoots /\ boots' = boots + 1
  /\ policy' = initialPolicy
  /\ cachedWorth' = 0 /\ peak' = 0 /\ highest' = 0 /\ candidate' = 0
  /\ UNCHANGED <<env, account, gross, patches>>

OperatorCommand ==
  \E args \in [malformed : BOOLEAN, patch : Patches(Fields)] : RiskPolicyCommand(args)

PolicyNext == \/ OperatorCommand \/ AgentCommand
              \/ RefreshAccount \/ AccountMoves \/ ProposeEntry \/ EvaluateEntry
              \/ ProposalExpires \/ PositionsClose \/ RuntimeRestarts

PolicySpec == Init /\ [][PolicyNext]_policyVars

\* However commands of operators and of the risk agent mix with restarts,
\* reads and moves of the account, an entry gets through only with an account
\* value, within the leverage, and no further below the highest value read
\* since the start than the policy allows: a value of 0, which the drawdown
\* check lets pass, is caught by the leverage check (risk-engine
\* index.ts:117-143, 224-235).  The policy it is held to is a consistent one:
\* every field at least its minimum, the target within the maximum
\* (state.ts:306-404).
ConsistentPolicy == /\ \A f \in Fields : policy[f] > 0
                    /\ policy.targetLeverage <= policy.maxLeverage

EntryWithinLimits ==
  [][gross' > gross =>
       /\ ConsistentPolicy
       /\ cachedWorth > 0 /\ gross' <= policy.maxLeverage * cachedWorth
       /\ (highest - cachedWorth) * 100 <= policy.maxDrawdownPct * highest]_policyVars
=============================================================================
