--------------------------- MODULE MCRiskEvaluation ---------------------------
EXTENDS RiskEvaluation

MCSymbols == {"BTC", "ETH"}

MCLegs == [symbol : MCSymbols, side : {"BUY", "SELL"}, usd : {1, 3}]
MCProposals ==
    {[id |-> "p", actions |-> <<[type |-> type, slippage |-> slippage, legs |-> legs]>>] :
       type \in {"ENTER", "EXIT"}, slippage \in 0 .. 1,
       legs \in {{x, y} : x, y \in MCLegs}}

\* Every tick deep and fresh; one symbol thin on the ask side; one stale; one missing.
Deep == [fresh |-> TRUE, bid |-> 4, ask |-> 4]
MCTicks ==
    {[s \in MCSymbols |-> Deep],
     [s \in MCSymbols |-> IF s = "ETH" THEN [Deep EXCEPT !.ask = 1] ELSE Deep],
     [s \in MCSymbols |-> IF s = "ETH" THEN [Deep EXCEPT !.fresh = FALSE] ELSE Deep],
     [s \in {"BTC"} |-> Deep]}

MCContexts ==
    [state : {"READY", "SAFE_MODE"}, actorType : {"system"}, accountValue : {0, 1, 2}, peak : {2},
     healthy : {TRUE}, positions : [MCSymbols -> {-1, 0, 1, 3}], ticks : MCTicks,
     proposal : MCProposals]
    \cup
    [state : {"HALT", "READY"}, actorType : {"system", "external_agent"}, accountValue : {2},
     peak : {2}, healthy : BOOLEAN, positions : {[s \in MCSymbols |-> 1]},
     ticks : {[s \in MCSymbols |-> Deep]}, proposal : MCProposals]

Policy == [maxLeverage |-> 1, maxDrawdownPct |-> 20, maxExposure |-> 2, maxSlippage |-> 0,
           liquidityBuffer |-> 1, failClosed |-> TRUE]
MCConfigs == {Policy, [Policy EXCEPT !.maxLeverage = 3, !.maxExposure = 4],
              [Policy EXCEPT !.maxDrawdownPct = 60, !.maxSlippage = 1],
              [Policy EXCEPT !.liquidityBuffer = 2, !.maxExposure = 4, !.failClosed = FALSE]}
===============================================================================
