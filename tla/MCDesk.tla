------------------------------- MODULE MCDesk ---------------------------------
(***************************************************************************)
(* Small instances of the trading loop.                                    *)
(***************************************************************************)
EXTENDS DeskProperties

leg(symbol, side, usd, guards) ==
    [symbol |-> symbol, side |-> side, usd |-> usd, guards |-> guards]
action(type, legs) == [type |-> type, slippage |-> 0, legs |-> legs]
Deep == [fresh |-> TRUE, bid |-> 5, ask |-> 5]

MCRiskConfig == [maxLeverage |-> 2, maxDrawdownPct |-> 50, maxExposure |-> 2, maxSlippage |-> 1,
                 liquidityBuffer |-> 1, failClosed |-> TRUE]
MCAccount == [value |-> 2, peak |-> 2]

\* What an earlier life may have left on the exchange: nothing, a position without SL and TP,
\* or one with both.
NoPositions == {NoBook}
Long(guards) == [pos |-> [Flat EXCEPT !["BTC"] = 1], trig |-> [Unprotected EXCEPT !["BTC"] = guards]]
LeftOver == {NoBook, Long({}), Long(Both)}

\* One symbol: enter a position of one unit, leave it.
OneSymbol == {"BTC"}
OneTicks == [s \in OneSymbol |-> Deep]
EnterAndExit ==
    {[id |-> "enter", actions |-> <<action("ENTER", {leg("BTC", "BUY", 1, Both)})>>],
     [id |-> "exit", actions |-> <<action("EXIT", {leg("BTC", "SELL", 1, {})})>>]}

\* An entry whose first action has a leg without take-profit, which execute() skips.
JustEnter ==
    {[id |-> "enter", actions |-> <<action("ENTER", {leg("BTC", "BUY", 1, {"SL"})}),
                                    action("ENTER", {leg("BTC", "BUY", 1, Both)})>>]}

\* Two symbols: a rotation from one to the other, in two actions.
TwoSymbols == {"BTC", "ETH"}
TwoTicks == [s \in TwoSymbols |-> Deep]
Rotation ==
    {[id |-> "rotate", actions |-> <<action("EXIT", {leg("BTC", "SELL", 1, {})}),
                                     action("ENTER", {leg("ETH", "BUY", 1, Both)})>>]}
===============================================================================
