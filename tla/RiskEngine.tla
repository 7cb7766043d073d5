------------------------------ MODULE RiskEngine ------------------------------
(***************************************************************************)
(* The pre-trade risk engine: evaluateRisk of                              *)
(* packages/risk-engine/src/index.ts, a pure function from a configuration *)
(* and a context to a decision.                                            *)
(*                                                                         *)
(* Notionals are integers.  A book of positions is a function from symbols *)
(* to signed notional: positive is LONG, negative is SHORT, 0 is no        *)
(* position (the code's array of positions without the ones below the dust *)
(* threshold).  A proposal is a record                                     *)
(*   [id, actions : sequence of [type, slippage, legs : set of legs]]      *)
(* and a leg is [symbol, side, usd, ...].  ticks maps the symbols that     *)
(* have a tick to [fresh, bid, ask], bid and ask being the depth in USD.   *)
(***************************************************************************)
EXTENDS Integers, Sequences, FiniteSets, Functions

CONSTANT Symbols

TradeStates == {"INIT", "WARMUP", "READY", "IN_TRADE", "HALT", "SAFE_MODE"}
Decisions == {"DENY", "ALLOW_REDUCE_ONLY", "ALLOW"}

Flat == [s \in Symbols |-> 0]
Abs(n) == IF n < 0 THEN -n ELSE n

Signed(leg) == IF leg.side = "BUY" THEN leg.usd ELSE -leg.usd
LegsOf(proposal) ==
    UNION {{<<i, leg>> : leg \in proposal.actions[i].legs} : i \in DOMAIN proposal.actions}
TouchedSymbols(proposal) == {x[2].symbol : x \in LegsOf(proposal)}

\* The net effect of every leg of the proposal on one symbol.
Delta(proposal, s) ==
    LET legs == {x \in LegsOf(proposal) : x[2].symbol = s}
    IN  SumFunctionOnSet([x \in legs |-> Signed(x[2])], legs)
Projected(positions, proposal) == [s \in Symbols |-> positions[s] + Delta(proposal, s)]
currentGrossNotional(positions) ==
    SumFunctionOnSet([s \in Symbols |-> Abs(positions[s])], Symbols)
projectedGrossNotional(positions, proposal) == currentGrossNotional(Projected(positions, proposal))

-------------------------------------------------------------------------------
(* The checks.  Each is TRUE when the code's CheckResult is ok.            *)

checkLiquidity(proposal, ticks, buffer) ==
    \A x \in LegsOf(proposal) :
        /\ x[2].symbol \in DOMAIN ticks
        /\ LET tick == ticks[x[2].symbol]
           IN  (IF x[2].side = "BUY" THEN tick.ask ELSE tick.bid) >= x[2].usd * buffer

checkFreshTicks(proposal, ticks) ==
    \A s \in TouchedSymbols(proposal) : s \in DOMAIN ticks /\ ticks[s].fresh

\* Without a positive account value only a proposal that does not grow the gross passes.
checkLeverage(positions, proposal, accountValue, maxLeverage) ==
    LET gross == projectedGrossNotional(positions, proposal)
    IN  IF accountValue <= 0
        THEN gross <= currentGrossNotional(positions)
        ELSE gross <= maxLeverage * accountValue

checkExposure(positions, proposal, maxExposure) ==
    projectedGrossNotional(positions, proposal) <= maxExposure

\* Mutant: SAFE_MODE only asks for an open position.
checkSafeModePostureAnySize(state, positions, proposal) ==
    state = "SAFE_MODE" => currentGrossNotional(positions) # 0

checkSafeModePosture(state, positions, proposal) ==
    state = "SAFE_MODE" =>
        /\ currentGrossNotional(positions) # 0
        /\ projectedGrossNotional(positions, proposal) <= currentGrossNotional(positions)

checkDrawdown(accountValue, peak, maxDrawdownPct) ==
    \/ peak <= 0
    \/ accountValue <= 0
    \/ (peak - accountValue) * 100 <= maxDrawdownPct * peak

checkSlippage(proposal, maxSlippage) ==
    \A i \in DOMAIN proposal.actions : proposal.actions[i].slippage <= maxSlippage

-------------------------------------------------------------------------------
isExitProposal(proposal) ==
    /\ proposal.actions # <<>>
    /\ \A i \in DOMAIN proposal.actions : proposal.actions[i].type = "EXIT"

\* An EXIT that does not grow the gross, or any EXIT when there is no open position.
isReducingExit(positions, proposal) ==
    /\ isExitProposal(proposal)
    /\ \/ projectedGrossNotional(positions, proposal) <= currentGrossNotional(positions)
       \/ positions = Flat

\* The codes of the checks that fail.
Reasons(config, ctx) ==
    LET p == ctx.proposal
        failing(code, ok) == IF ok THEN {} ELSE {code}
    IN  UNION {
          failing("DEPENDENCY_FAILURE", ctx.healthy \/ ~config.failClosed),
          failing("SYSTEM_GATED", ctx.state # "HALT"),
          failing("ACTOR_NOT_ALLOWED", ctx.actorType # "external_agent"),
          failing("INVALID_PROPOSAL", LegsOf(p) # {}),
          failing("SLIPPAGE_BREACH", checkSlippage(p, config.maxSlippage)),
          failing("LEVERAGE",
                  checkLeverage(ctx.positions, p, ctx.accountValue, config.maxLeverage)),
          failing("DRAWDOWN", checkDrawdown(ctx.accountValue, ctx.peak, config.maxDrawdownPct)),
          failing("EXPOSURE", checkExposure(ctx.positions, p, config.maxExposure)),
          failing("LIQUIDITY", checkLiquidity(p, ctx.ticks, config.liquidityBuffer)),
          failing("SAFE_MODE", checkSafeModePosture(ctx.state, ctx.positions, p)),
          failing("STALE_DATA", checkFreshTicks(p, ctx.ticks))}

\* INVALID_PROPOSAL is reported and does not block; SAFE_MODE blocks through
\* hasSafeModeBlocker.
blockingReasonCodes ==
    {"DEPENDENCY_FAILURE", "SYSTEM_GATED", "DRAWDOWN", "EXPOSURE", "STALE_DATA", "LIQUIDITY",
     "LEVERAGE", "SLIPPAGE_BREACH", "ACTOR_NOT_ALLOWED"}

\* Mutant: no waiver for exits.
waivedReasonCodesNone(ctx) == {}

waivedReasonCodes(ctx) ==
    IF isReducingExit(ctx.positions, ctx.proposal) THEN {"DRAWDOWN"} ELSE {}

\* Mutant: a waived DRAWDOWN waives whatever else fails.
hasBlockersWaivedAll(config, ctx) ==
    /\ Reasons(config, ctx) \cap blockingReasonCodes # {}
    /\ Reasons(config, ctx) \cap waivedReasonCodes(ctx) = {}

hasBlockers(config, ctx) ==
    (Reasons(config, ctx) \cap blockingReasonCodes) \ waivedReasonCodes(ctx) # {}

hasSafeModeBlocker(ctx) == ~checkSafeModePosture(ctx.state, ctx.positions, ctx.proposal)

evaluateRisk(config, ctx) ==
    IF hasBlockers(config, ctx) \/ hasSafeModeBlocker(ctx) THEN "DENY"
    ELSE IF ctx.state = "SAFE_MODE" THEN "ALLOW_REDUCE_ONLY"
    ELSE "ALLOW"
===============================================================================
