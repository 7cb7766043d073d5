---------------------------- MODULE RiskEvaluation ----------------------------
(***************************************************************************)
(* The risk engine on its own: every context of a bounded set is evaluated *)
(* once, and the decision is compared with what the engine is for.         *)
(***************************************************************************)
EXTENDS RiskEngine

CONSTANTS Contexts,   \* the contexts to evaluate
          Configs     \* the configurations to evaluate them under

\* A context is of the kinds the engine's types say (RiskContext), and no limit is negative.
Legs == [symbol : Symbols, side : {"BUY", "SELL"}, usd : Nat]
ASSUME SymbolsAssumption == IsFiniteSet(Symbols)
ASSUME ContextsAssumption ==
    \A c \in Contexts :
      /\ c.positions \in [Symbols -> Int] /\ c.accountValue \in Int /\ c.peak \in Int
      /\ IsFiniteSet(LegsOf(c.proposal))
      /\ \A x \in LegsOf(c.proposal) : x[2] \in Legs
      /\ \A i \in DOMAIN c.proposal.actions : c.proposal.actions[i].slippage \in Nat
      /\ \A s \in DOMAIN c.ticks : c.ticks[s].bid \in Nat /\ c.ticks[s].ask \in Nat
ASSUME ConfigsAssumption ==
    \A c \in Configs :
      /\ c.maxLeverage \in Nat /\ c.maxDrawdownPct \in Nat /\ c.maxExposure \in Nat
      /\ c.maxSlippage \in Nat /\ c.liquidityBuffer \in Nat /\ c.failClosed \in BOOLEAN

VARIABLES ctx, config, verdict
evaluationVars == <<ctx, config, verdict>>

Init == ctx \in Contexts /\ config \in Configs /\ verdict = "none"

Evaluate ==
    /\ verdict = "none"
    /\ verdict' = evaluateRisk(config, ctx)
    /\ UNCHANGED <<ctx, config>>

Spec == Init /\ [][Evaluate]_evaluationVars

-------------------------------------------------------------------------------
Limits == {"maxLeverage", "maxDrawdownPct", "maxExposure", "maxSlippage"}
Looser(c, d) ==
    /\ \A l \in Limits : c[l] >= d[l]
    /\ c.liquidityBuffer <= d.liquidityBuffer
    /\ c.failClosed => d.failClosed

\* Tightening the risk policy never approves what a looser policy denied: no two checks
\* of evaluateRisk undo each other.
TighteningNeverApproves ==
    (verdict # "none" /\ verdict # "DENY") =>
        \A c \in Configs : Looser(c, config) => evaluateRisk(c, ctx) # "DENY"

Closes(proposal, positions) ==
    /\ isExitProposal(proposal)
    /\ Projected(positions, proposal) = Flat

\* Whether an exit of the whole book is denied does not depend on the account, the drawdown,
\* the leverage, the exposure or SAFE_MODE: it is, exactly under HALT, for an external agent,
\* with dead dependencies where the policy fails closed, on missing, stale or thin market
\* data, and when the proposal itself expects more slippage than maxSlippage (of the policy's
\* limits this one alone stops a desk from closing).
FullClosePassesAccountLimits ==
    (verdict # "none" /\ Closes(ctx.proposal, ctx.positions) /\ ctx.positions # Flat) =>
        (verdict = "DENY" <=>
           \/ ctx.state = "HALT"
           \/ ctx.actorType = "external_agent"
           \/ config.failClosed /\ ~ctx.healthy
           \/ ~checkFreshTicks(ctx.proposal, ctx.ticks)
           \/ ~checkLiquidity(ctx.proposal, ctx.ticks, config.liquidityBuffer)
           \/ ~checkSlippage(ctx.proposal, config.maxSlippage))

OneLegPerSymbol(proposal) ==
    \A x, y \in LegsOf(proposal) : x[2].symbol = y[2].symbol => x = y

\* What execute() does of an ALLOW_REDUCE_ONLY proposal: the legs against an open position.
ReducingPart(positions, proposal) ==
    [s \in Symbols |->
       positions[s] + (IF Delta(proposal, s) * positions[s] < 0 THEN Delta(proposal, s) ELSE 0)]

\* The engine judges all legs and execute() places only those against a position.  Even so
\* a reduce-only approval does not grow the gross (with one leg per symbol).
ReduceOnlyNeverGrows ==
    (verdict = "ALLOW_REDUCE_ONLY" /\ OneLegPerSymbol(ctx.proposal)) =>
        currentGrossNotional(ReducingPart(ctx.positions, ctx.proposal))
            <= currentGrossNotional(ctx.positions)

\* "Exit proposals that reduce gross notional are exempted from DRAWDOWN checks"
\* (docs/SPEC.md): beyond the drawdown limit nothing that grows the gross is approved.
DrawdownStopsGrowth ==
    (/\ verdict \in {"ALLOW", "ALLOW_REDUCE_ONLY"}
     /\ ~checkDrawdown(ctx.accountValue, ctx.peak, config.maxDrawdownPct)) =>
        projectedGrossNotional(ctx.positions, ctx.proposal) <= currentGrossNotional(ctx.positions)
===============================================================================
