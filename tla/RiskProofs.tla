------------------------------ MODULE RiskProofs ------------------------------
(***************************************************************************)
(* Theorems about the risk engine: for every context and every pair of     *)
(* configurations that the assumptions of RiskEvaluation admit, not only   *)
(* those a run enumerates.                                                 *)
(***************************************************************************)
EXTENDS RiskEvaluation, SumProofs

-------------------------------------------------------------------------------
(* The books                                                                  *)

\* The gross of a book is the total of its absolute notionals.
LEMMA GrossIsTotal ==
  ASSUME NEW positions
  PROVE  currentGrossNotional(positions) = Total([s \in Symbols |-> Abs(positions[s])], Symbols)
  BY DEF currentGrossNotional, Total

\* The gross of a book is a natural number, which is 0 for the flat book only.
LEMMA GrossType ==
  ASSUME NEW positions \in [Symbols -> Int]
  PROVE  /\ currentGrossNotional(positions) \in Nat
         /\ currentGrossNotional(positions) = 0 <=> positions = Flat
  <1> DEFINE f == [s \in Symbols |-> Abs(positions[s])]
  <1>1. \A s \in Symbols : f[s] \in Nat /\ (f[s] = 0 <=> positions[s] = 0)
    BY DEF Abs
  <1>2. currentGrossNotional(positions) = Total(f, Symbols)
    BY GrossIsTotal
  <1> HIDE DEF f
  <1>3. Total(f, Symbols) \in Nat
    BY <1>1, TotalType, SymbolsAssumption
  <1>4. Total(f, Symbols) = 0 <=> \A s \in Symbols : positions[s] = 0
    BY <1>1, TotalZero, SymbolsAssumption
  <1>5. (\A s \in Symbols : positions[s] = 0) <=> positions = Flat
    BY DEF Flat
  <1>6. QED
    BY <1>2, <1>3, <1>4, <1>5

\* A book that is nowhere larger than another has no larger gross.
LEMMA GrossMonotone ==
  ASSUME NEW p \in [Symbols -> Int], NEW q \in [Symbols -> Int],
         \A s \in Symbols : Abs(p[s]) <= Abs(q[s])
  PROVE  currentGrossNotional(p) <= currentGrossNotional(q)
  <1> DEFINE f == [s \in Symbols |-> Abs(p[s])]
             g == [s \in Symbols |-> Abs(q[s])]
  <1>1. \A s \in Symbols : f[s] \in Int /\ g[s] \in Int /\ f[s] <= g[s]
    BY DEF Abs
  <1>2. currentGrossNotional(p) = Total(f, Symbols) /\ currentGrossNotional(q) = Total(g, Symbols)
    BY GrossIsTotal
  <1> HIDE DEF f, g
  <1>3. QED
    BY <1>1, <1>2, TotalMonotone, SymbolsAssumption

\* The net effect of a proposal of finitely many legs on a symbol is an integer.
LEMMA DeltaType ==
  ASSUME NEW p, IsFiniteSet(LegsOf(p)), \A x \in LegsOf(p) : x[2] \in Legs, NEW s \in Symbols
  PROVE  Delta(p, s) \in Int
  <1> DEFINE legs == {x \in LegsOf(p) : x[2].symbol = s}
             f == [x \in legs |-> Signed(x[2])]
  <1>1. Delta(p, s) = Total(f, legs)
    BY DEF Delta, Total
  <1>2. \A x \in legs : f[x] \in Int
    BY DEF Signed, Legs
  <1>3. IsFiniteSet(legs)
    BY FS_Subset
  <1> HIDE DEF f, legs
  <1>4. QED
    BY <1>1, <1>2, <1>3, TotalType

\* What is projected of a book is a book.
LEMMA ProjectedType ==
  ASSUME NEW c \in Contexts
  PROVE  /\ Projected(c.positions, c.proposal) \in [Symbols -> Int]
         /\ projectedGrossNotional(c.positions, c.proposal) \in Nat
  <1>1. Projected(c.positions, c.proposal) \in [Symbols -> Int]
    BY DeltaType, ContextsAssumption DEF Projected
  <1>2. QED
    BY <1>1, GrossType DEF projectedGrossNotional

-------------------------------------------------------------------------------
(* The engine                                                                 *)

\* The decision is the engine's.
Judged == ctx \in Contexts /\ config \in Configs /\ verdict \in {"none", evaluateRisk(config, ctx)}

\* Every evaluation judges.
LEMMA AlwaysJudged == Spec => []Judged
  <1>1. Init => Judged
    BY DEF Init, Judged
  <1>2. Judged /\ [Evaluate]_evaluationVars => Judged'
    BY DEF Judged, Evaluate, evaluationVars
  <1>3. QED
    BY <1>1, <1>2, PTL DEF Spec

\* A looser configuration fails no check that a tighter one passes.
LEMMA LooserPasses ==
  ASSUME NEW x \in Contexts, NEW c \in Configs, NEW d \in Configs, Looser(c, d)
  PROVE  Reasons(c, x) \subseteq Reasons(d, x)
  <1> DEFINE p == x.proposal
  <1>1. /\ c.maxLeverage >= d.maxLeverage /\ c.maxDrawdownPct >= d.maxDrawdownPct
        /\ c.maxExposure >= d.maxExposure /\ c.maxSlippage >= d.maxSlippage
        /\ c.liquidityBuffer <= d.liquidityBuffer /\ (c.failClosed => d.failClosed)
    BY DEF Looser, Limits
  <1>2. /\ c.maxLeverage \in Nat /\ c.maxDrawdownPct \in Nat /\ c.maxExposure \in Nat
        /\ c.maxSlippage \in Nat /\ c.liquidityBuffer \in Nat
        /\ d.maxLeverage \in Nat /\ d.maxDrawdownPct \in Nat /\ d.maxExposure \in Nat
        /\ d.maxSlippage \in Nat /\ d.liquidityBuffer \in Nat
    BY ConfigsAssumption
  <1>3. projectedGrossNotional(x.positions, p) \in Nat
    BY ProjectedType
  <1>4. checkSlippage(p, d.maxSlippage) => checkSlippage(p, c.maxSlippage)
    BY <1>1, <1>2, ContextsAssumption DEF checkSlippage
  <1>5. checkLeverage(x.positions, p, x.accountValue, d.maxLeverage)
          => checkLeverage(x.positions, p, x.accountValue, c.maxLeverage)
    <2> SUFFICES ASSUME x.accountValue > 0,
                        projectedGrossNotional(x.positions, p) <= d.maxLeverage * x.accountValue
                 PROVE  projectedGrossNotional(x.positions, p) <= c.maxLeverage * x.accountValue
      BY ContextsAssumption DEF checkLeverage
    <2> DEFINE a == x.accountValue
               l == c.maxLeverage
               m == d.maxLeverage
               gross == projectedGrossNotional(x.positions, p)
    <2>1. a \in Nat /\ l \in Nat /\ m \in Nat /\ gross \in Nat /\ m <= l /\ gross <= m * a
      BY <1>1, <1>2, <1>3, ContextsAssumption
    <2> HIDE DEF a, l, m, gross
    <2>2. m * a <= l * a /\ m * a \in Nat /\ l * a \in Nat
      BY <2>1, SMTT(30)
    <2>3. gross <= l * a
      BY <2>1, <2>2
    <2>4. QED
      BY <2>3 DEF a, l, gross
  <1>6. checkDrawdown(x.accountValue, x.peak, d.maxDrawdownPct)
          => checkDrawdown(x.accountValue, x.peak, c.maxDrawdownPct)
    <2> DEFINE k == x.peak
               l == c.maxDrawdownPct
               m == d.maxDrawdownPct
               loss == (k - x.accountValue) * 100
    <2>1. k \in Int /\ loss \in Int /\ l \in Nat /\ m \in Nat /\ m <= l
      BY <1>1, <1>2, ContextsAssumption
    <2>2. ASSUME k > 0, loss <= m * k PROVE loss <= l * k
      <3> HIDE DEF k, l, m, loss
      <3>1. m * k <= l * k /\ m * k \in Int /\ l * k \in Int
        BY <2>1, <2>2, SMTT(30)
      <3>2. QED
        BY <2>1, <2>2, <3>1
    <2>3. QED
      BY <2>1, <2>2 DEF checkDrawdown
  <1>7. checkExposure(x.positions, p, d.maxExposure) => checkExposure(x.positions, p, c.maxExposure)
    BY <1>1, <1>2, <1>3 DEF checkExposure
  <1>8. checkLiquidity(p, x.ticks, d.liquidityBuffer) => checkLiquidity(p, x.ticks, c.liquidityBuffer)
    <2> SUFFICES ASSUME checkLiquidity(p, x.ticks, d.liquidityBuffer), NEW y \in LegsOf(p)
                 PROVE  LET tick == x.ticks[y[2].symbol]
                            deep == IF y[2].side = "BUY" THEN tick.ask ELSE tick.bid
                        IN  /\ y[2].symbol \in DOMAIN x.ticks
                            /\ deep >= y[2].usd * c.liquidityBuffer
      BY DEF checkLiquidity
    <2> DEFINE tick == x.ticks[y[2].symbol]
               deep == IF y[2].side = "BUY" THEN tick.ask ELSE tick.bid
               usd == y[2].usd
               l == c.liquidityBuffer
               m == d.liquidityBuffer
    <2>1. y[2].symbol \in DOMAIN x.ticks /\ deep >= usd * m
      BY DEF checkLiquidity
    <2>2. deep \in Nat /\ usd \in Nat /\ l \in Nat /\ m \in Nat /\ l <= m
      BY <1>1, <1>2, <2>1, ContextsAssumption DEF Legs
    <2> HIDE DEF deep, usd, l, m
    <2>3. usd * l <= usd * m /\ usd * l \in Nat /\ usd * m \in Nat
      BY <2>2, SMTT(30)
    <2>4. deep >= usd * l
      BY <2>1, <2>2, <2>3
    <2>5. QED
      BY <2>1, <2>4 DEF deep, usd, l
  <1>9. x.healthy \/ ~d.failClosed => x.healthy \/ ~c.failClosed
    BY <1>1
  <1>10. QED
    BY <1>4, <1>5, <1>6, <1>7, <1>8, <1>9 DEF Reasons

\* Whatever the context, making any limits of the policy tighter approves nothing that was
\* denied: no check of evaluateRisk and no waiver undoes another.
THEOREM TighterNeverApproves == Spec => []TighteningNeverApproves
  <1>1. Judged => TighteningNeverApproves
    <2> SUFFICES ASSUME Judged, verdict # "none", verdict # "DENY",
                        NEW c \in Configs, Looser(c, config)
                 PROVE  evaluateRisk(c, ctx) # "DENY"
      BY DEF TighteningNeverApproves
    <2>1. ~hasBlockers(config, ctx) /\ ~hasSafeModeBlocker(ctx)
      BY DEF Judged, evaluateRisk
    <2>2. Reasons(c, ctx) \subseteq Reasons(config, ctx)
      BY LooserPasses DEF Judged
    <2>3. ~hasBlockers(c, ctx)
      BY <2>1, <2>2 DEF hasBlockers
    <2>4. QED
      BY <2>1, <2>3 DEF evaluateRisk
  <1>2. QED
    BY <1>1, AlwaysJudged, PTL

\* An exit of the whole book is denied exactly for its actor, HALT, the dependencies, the
\* market data or the slippage it expects; the account, the drawdown, the leverage limit, the
\* exposure limit and SAFE_MODE make no difference to it.
THEOREM FullCloseIsJudgedByItself == Spec => []FullClosePassesAccountLimits
  <1> DEFINE Obstacle ==
               \/ ctx.state = "HALT"
               \/ ctx.actorType = "external_agent"
               \/ config.failClosed /\ ~ctx.healthy
               \/ ~checkFreshTicks(ctx.proposal, ctx.ticks)
               \/ ~checkLiquidity(ctx.proposal, ctx.ticks, config.liquidityBuffer)
               \/ ~checkSlippage(ctx.proposal, config.maxSlippage)
  <1>1. ASSUME Judged, Obstacle PROVE evaluateRisk(config, ctx) = "DENY"
    <2>1. PICK code \in {"DEPENDENCY_FAILURE", "SYSTEM_GATED", "ACTOR_NOT_ALLOWED",
                         "SLIPPAGE_BREACH", "LIQUIDITY", "STALE_DATA"} :
            code \in Reasons(config, ctx)
      BY <1>1 DEF Reasons
    <2>2. code \in blockingReasonCodes /\ code \notin waivedReasonCodes(ctx)
      BY DEF blockingReasonCodes, waivedReasonCodes
    <2>3. hasBlockers(config, ctx)
      BY <2>1, <2>2 DEF hasBlockers
    <2>4. QED
      BY <2>3 DEF evaluateRisk
  <1>2. ASSUME Judged, ~Obstacle, Closes(ctx.proposal, ctx.positions), ctx.positions # Flat
        PROVE  evaluateRisk(config, ctx) # "DENY"
    <2> DEFINE before == currentGrossNotional(ctx.positions)
               after == projectedGrossNotional(ctx.positions, ctx.proposal)
    <2>1. ctx \in Contexts /\ config \in Configs /\ ctx.positions \in [Symbols -> Int]
      BY <1>2, ContextsAssumption DEF Judged
    <2>2. before \in Nat /\ before # 0
      BY <1>2, <2>1, GrossType
    <2>3. after = 0
      <3>1. Flat \in [Symbols -> Int]
        BY DEF Flat
      <3>2. QED
        BY <1>2, <3>1, GrossType DEF Closes, projectedGrossNotional
    <2> HIDE DEF before, after
    <2>4. checkExposure(ctx.positions, ctx.proposal, config.maxExposure)
      BY <2>1, <2>3, ConfigsAssumption DEF checkExposure, after
    <2>5. checkLeverage(ctx.positions, ctx.proposal, ctx.accountValue, config.maxLeverage)
      <3> DEFINE a == ctx.accountValue
                 l == config.maxLeverage
      <3>1. a \in Int /\ l \in Nat
        BY <2>1, ConfigsAssumption, ContextsAssumption
      <3> HIDE DEF a, l
      <3>2. a > 0 => 0 <= l * a
        BY <3>1, SMTT(30)
      <3>3. a <= 0 \/ a > 0
        BY <3>1
      <3>4. IF a <= 0 THEN after <= before ELSE after <= l * a
        BY <2>2, <2>3, <3>2, <3>3
      <3>5. QED
        BY <3>4 DEF checkLeverage, a, l, before, after
    <2>6. checkSafeModePosture(ctx.state, ctx.positions, ctx.proposal)
      BY <2>2, <2>3 DEF checkSafeModePosture, before, after
    <2>7. isReducingExit(ctx.positions, ctx.proposal)
      BY <1>2, <2>2, <2>3 DEF isReducingExit, Closes, before, after
    <2>8. Reasons(config, ctx) \subseteq {"INVALID_PROPOSAL", "DRAWDOWN"}
      BY <1>2, <2>4, <2>5, <2>6 DEF Reasons
    <2>9. ~hasBlockers(config, ctx) /\ ~hasSafeModeBlocker(ctx)
      BY <2>6, <2>7, <2>8 DEF hasBlockers, hasSafeModeBlocker, waivedReasonCodes, blockingReasonCodes
    <2>10. QED
      BY <2>9 DEF evaluateRisk
  <1>3. Judged => FullClosePassesAccountLimits
    BY <1>1, <1>2 DEF FullClosePassesAccountLimits, Judged
  <1>4. QED
    BY <1>3, AlwaysJudged, PTL

\* The engine judges a reduce-only proposal as a whole, execute() places the legs that are
\* against a position only, and still the gross does not grow.
THEOREM ReducingNeverGrows == Spec => []ReduceOnlyNeverGrows
  <1>1. Judged => ReduceOnlyNeverGrows
    <2> SUFFICES ASSUME Judged, verdict = "ALLOW_REDUCE_ONLY"
                 PROVE  currentGrossNotional(ReducingPart(ctx.positions, ctx.proposal))
                          <= currentGrossNotional(ctx.positions)
      BY DEF ReduceOnlyNeverGrows
    <2> DEFINE part == ReducingPart(ctx.positions, ctx.proposal)
               whole == Projected(ctx.positions, ctx.proposal)
    <2>1. ctx \in Contexts /\ ctx.positions \in [Symbols -> Int]
      BY ContextsAssumption DEF Judged
    <2>2. projectedGrossNotional(ctx.positions, ctx.proposal) <= currentGrossNotional(ctx.positions)
      BY DEF Judged, evaluateRisk, hasSafeModeBlocker, checkSafeModePosture
    <2>3. \A s \in Symbols : Delta(ctx.proposal, s) \in Int
      BY <2>1, DeltaType, ContextsAssumption
    <2>4. whole \in [Symbols -> Int] /\ \A s \in Symbols : whole[s] = ctx.positions[s] + Delta(ctx.proposal, s)
      BY <2>1, <2>3 DEF Projected
    <2>5. part \in [Symbols -> Int] /\ \A s \in Symbols : Abs(part[s]) <= Abs(whole[s])
      <3>1. ASSUME NEW s \in Symbols PROVE part[s] \in Int /\ Abs(part[s]) <= Abs(whole[s])
        <4> DEFINE n == ctx.positions[s]
                   m == Delta(ctx.proposal, s)
        <4>1. part[s] = n + (IF m * n < 0 THEN m ELSE 0) /\ whole[s] = n + m /\ n \in Int /\ m \in Int
          BY <2>1, <2>3, <2>4 DEF ReducingPart
        <4> HIDE DEF n, m, part, whole
        <4>2. CASE m * n < 0
          BY <4>1, <4>2 DEF Abs
        <4>3. CASE ~(m * n < 0)
          <5>1. (n >= 0 /\ m >= 0) \/ (n <= 0 /\ m <= 0) \/ n = 0
            BY <4>1, <4>3, SMTT(30)
          <5>2. QED
            BY <4>1, <4>3, <5>1 DEF Abs
        <4>4. QED
          BY <4>2, <4>3
      <3>2. QED
        BY <3>1 DEF ReducingPart
    <2>6. currentGrossNotional(part) <= currentGrossNotional(whole)
      <3> HIDE DEF part, whole
      <3>1. QED
        BY <2>4, <2>5, GrossMonotone
    <2>7. /\ currentGrossNotional(part) \in Nat /\ currentGrossNotional(whole) \in Nat
          /\ currentGrossNotional(ctx.positions) \in Nat
      BY <2>1, <2>4, <2>5, GrossType
    <2>8. QED
      BY <2>2, <2>6, <2>7 DEF projectedGrossNotional
  <1>2. QED
    BY <1>1, AlwaysJudged, PTL
===============================================================================
