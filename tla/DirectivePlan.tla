---------------------------- MODULE DirectivePlan ----------------------------
(***************************************************************************)
(* normalizeDirectivePlan and buildDiscretionaryProposal of the agent      *)
(* runner (index.ts:2770-2994): what becomes of the legs a model answers   *)
(* on their way to a proposal.  A price is where it lies from the mark;    *)
(* notionals are in the unit a proposal rounds to.                         *)
(***************************************************************************)
EXTENDS Integers, Sequences, FiniteSets, Functions

CONSTANTS
  Symbols,
  Notionals,  \* what a leg may ask for
  Caps,       \* riskBudget, or the target notional for the gross: 0 stands for none
  minLegUsd,  \* AGENT_MIN_REBALANCE_LEG_USD
  Account,    \* half the account's value, 0 when it is not known
  MaxLegs     \* bound: legs that a model answers

VARIABLES rawPlan, grossCap, netCap, marked

vars == <<rawPlan, grossCap, netCap, marked>>

Levels == {"none", "below", "above"}
Legs == [symbol : Symbols, side : {"LONG", "SHORT"}, notional : Notionals,
         sl : Levels, tp : Levels]

Abs(x) == IF x < 0 THEN -x ELSE x
signed(leg) == IF leg.side = "LONG" THEN leg.notional ELSE -leg.notional

\* Legs below the minimum are skipped before anything is added up; the legs
\* of a symbol become one, with the guards of the first.
Counted == {i \in DOMAIN rawPlan : rawPlan[i].notional >= minLegUsd}
LegsOf(s) == {i \in Counted : rawPlan[i].symbol = s}
netOf(s) == SumFunctionOnSet([i \in DOMAIN rawPlan |-> signed(rawPlan[i])], LegsOf(s))
First(s) == rawPlan[CHOOSE i \in LegsOf(s) : \A j \in LegsOf(s) : i <= j]

\* Mutant: the two levels are compared the same way round.
rightSideUnsided(side, kind) == IF kind = "sl" THEN "below" ELSE "above"

\* Where a stop loss and a take profit belong.
rightSide(side, kind) ==
  IF (side = "LONG") = (kind = "sl") THEN "below" ELSE "above"

\* A level on the wrong side of a known mark is dropped; the first leg of a
\* symbol decides for all of them.
kept(price, side, kind) ==
  IF marked /\ price # "none" /\ price # rightSide(side, kind) THEN "none" ELSE price

Merged(s) ==
  LET total == netOf(s)
      leg == First(s)
  IN [side |-> IF total >= 0 THEN "LONG" ELSE "SHORT", notional |-> Abs(total),
      sl |-> kept(leg.sl, leg.side, "sl"), tp |-> kept(leg.tp, leg.side, "tp")]

\* A leg under each symbol, as in the maps of the code.
MergedLegs ==
  [s \in {t \in Symbols : LegsOf(t) # {} /\ Abs(netOf(t)) >= minLegUsd} |-> Merged(s)]

gross(legs) == SumFunction([s \in DOMAIN legs |-> legs[s].notional])
net(legs) == Abs(SumFunction([s \in DOMAIN legs |-> signed(legs[s])]))

\* Mutant: only the gross is capped.
scaleGross(legs) ==
  IF grossCap = 0 \/ gross(legs) <= grossCap THEN <<1, 1>> ELSE <<grossCap, gross(legs)>>

\* The smaller of the two caps' ratios, and never more than one, as a fraction.
ratio(cap, total) == IF cap = 0 \/ total <= cap THEN <<1, 1>> ELSE <<cap, total>>
scale(legs) ==
  LET g == ratio(grossCap, gross(legs))
      n == ratio(netCap, net(legs))
  IN IF g[1] * n[2] <= n[1] * g[2] THEN g ELSE n

\* normalizeProposalNotional rounds to the nearest unit.
rounded(num, den) == (2 * num + den) \div (2 * den)
scaledBy(leg, factor) == [leg EXCEPT !.notional = rounded(leg.notional * factor[1], factor[2])]

resized(legs) ==
  LET factor == scale(legs)
      sized == [s \in DOMAIN legs |-> scaledBy(legs[s], factor)]
  IN IF factor = <<1, 1>> THEN legs
     ELSE [s \in {t \in DOMAIN legs : sized[t].notional >= minLegUsd} |-> sized[s]]
normalizeDirectivePlan == resized(MergedLegs)

\* Every leg needs both levels, and a known account sizes every leg alike.
proposed(plan) ==
  LET size(s) == IF Account > 0 THEN Account ELSE plan[s].notional
      guarded == \A s \in DOMAIN plan : "none" \notin {plan[s].sl, plan[s].tp}
  IN [s \in {t \in DOMAIN plan : guarded /\ size(t) >= minLegUsd} |->
        [plan[s] EXCEPT !.notional = size(s)]]
buildDiscretionaryProposal == proposed(normalizeDirectivePlan)

Init ==
  /\ rawPlan \in UNION {[1..n -> Legs] : n \in 1..MaxLegs}
  /\ grossCap \in Caps /\ netCap \in Caps /\ marked \in BOOLEAN

Next == UNCHANGED vars

Spec == Init /\ [][Next]_vars

(***************************************************************************)
(* Properties.                                                             *)
(***************************************************************************)
TwoSided(s) == \E i, j \in LegsOf(s) : rawPlan[i].side # rawPlan[j].side

\* A proposal's stop loss is on the losing side of a known mark and its take
\* profit on the winning side, unless the plan names the symbol on both
\* sides: then the levels of the first leg go with the side of the sum
\* (index.ts:2808-2833).  A minimum of 0 also lets a leg of nothing through,
\* which becomes a LONG whatever its side was.
GuardsOnRightSide ==
  LET legs == buildDiscretionaryProposal IN
  marked => \A s \in DOMAIN legs :
              \/ TwoSided(s) \/ netOf(s) = 0
              \/ <<legs[s].side, legs[s].sl, legs[s].tp>> \in
                   {<<"LONG", "below", "above">>, <<"SHORT", "above", "below">>}

\* A normalised plan is within both caps, up to half a unit of rounding for
\* each of its legs (index.ts:2857-2876): scaling for one cap never breaks the
\* other, and a leg that scaling drops does not lift the net over its cap by
\* more than what it was too small to count for.
PlanWithinCaps ==
  LET legs == normalizeDirectivePlan
      merged == Cardinality(DOMAIN MergedLegs)
      dropped == merged - Cardinality(DOMAIN legs)
  IN /\ grossCap > 0 => 2 * gross(legs) <= 2 * grossCap + merged
     /\ netCap > 0 => 2 * net(legs) <= 2 * netCap + merged + 2 * minLegUsd * dropped
=============================================================================
