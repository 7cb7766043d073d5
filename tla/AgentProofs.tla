------------------------------- MODULE AgentProofs -------------------------------
(***************************************************************************)
(* Theorems about the agent's side of DeskServices: the theorems of        *)
(* RunnerProofs, for the three instances of the runner.  They hold in      *)
(* every behaviour of DeskServices and for every value of its constants.   *)
(***************************************************************************)
EXTENDS DeskServices, SumProofs

\* A behaviour is one of one instance from its first state on.
LEMMA AgentRuns ==
  ASSUME [MCNext]_mcVars
  PROVE  /\ service' = service
         /\ On("agent") => [Agent!Next]_(Agent!vars)
         /\ On("faulty") => [Faulty!Next]_(Faulty!vars)
         /\ On("boot") => [Boot!Next]_(Boot!vars)
  <1>1. service' = service
    BY DEF MCNext, Rest, mcVars
  <1>2. On("agent") => Agent!Next \/ UNCHANGED agentVars
    BY DEF MCNext, Rest, mcVars, On
  <1>3. On("faulty") => Faulty!Next \/ UNCHANGED agentVars
    BY DEF MCNext, Rest, mcVars, On
  <1>4. On("boot") => Boot!Next \/ UNCHANGED agentVars
    BY DEF MCNext, Rest, mcVars, On
  <1>5. /\ UNCHANGED agentVars => UNCHANGED Agent!vars
        /\ UNCHANGED agentVars => UNCHANGED Faulty!vars
        /\ UNCHANGED agentVars => UNCHANGED Boot!vars
    BY DEF agentVars,
      Agent!vars, Agent!deskVars, Agent!busVars, Agent!feedVars, Agent!journalVars, Agent!basketVars,
      Agent!signatures, Agent!cycleVars, Agent!history, Agent!boundVars,
      Faulty!vars, Faulty!deskVars, Faulty!busVars, Faulty!feedVars, Faulty!journalVars,
      Faulty!basketVars, Faulty!signatures, Faulty!cycleVars, Faulty!history, Faulty!boundVars,
      Boot!vars, Boot!deskVars, Boot!busVars, Boot!feedVars, Boot!journalVars, Boot!basketVars,
      Boot!signatures, Boot!cycleVars, Boot!history, Boot!boundVars
  <1>6. QED
    BY <1>1, <1>2, <1>3, <1>4, <1>5

\* Each instance starts as the runner does.
LEMMA AgentStarts ==
  ASSUME MCInit
  PROVE  /\ On("agent") => Agent!Init
         /\ On("faulty") => Faulty!Init
         /\ On("boot") => Boot!Init
  BY DEF MCInit, On

-------------------------------------------------------------------------------
(* The pipeline, with denials and with publications that throw                *)

\* A denial in force turns the strategist's answer into an exit.
THEOREM DenialsOverride == Safety => []RecoveryOverridesStrategist
  <1> DEFINE Inv == /\ On("agent") => Agent!RecoveryIInv
                    /\ On("faulty") => Faulty!RecoveryIInv
  <1>1. MCInit => Inv
    BY AgentStarts, Agent!RecoveryInit, Faulty!RecoveryInit
  <1>2. Inv /\ [MCNext]_mcVars => Inv'
    <2> SUFFICES ASSUME Inv, [MCNext]_mcVars PROVE Inv'
      OBVIOUS
    <2>1. service' = service
      BY AgentRuns
    <2>2. CASE On("agent")
      BY <2>1, <2>2, AgentRuns, Agent!RecoveryStep DEF On
    <2>3. CASE On("faulty")
      BY <2>1, <2>3, AgentRuns, Faulty!RecoveryStep DEF On
    <2>4. QED
      BY <2>1, <2>2, <2>3 DEF On
  <1>3. Inv => RecoveryOverridesStrategist
    BY DEF Agent!RecoveryIInv, Faulty!RecoveryIInv, RecoveryOverridesStrategist
  <1> HIDE DEF Inv
  <1>4. QED
    BY <1>1, <1>2, <1>3, PTL DEF Safety

\* The agent hands no proposal to the stream twice in a row, also when a publication throws.
THEOREM ProposalsAreNew == Safety => []NoProposalTwice
  <1> DEFINE Inv == /\ On("agent") => Agent!SignatureIInv
                    /\ On("faulty") => Faulty!SignatureIInv
  <1>1. MCInit => Inv
    BY AgentStarts, Agent!SignatureInit, Faulty!SignatureInit
  <1>2. Inv /\ [MCNext]_mcVars => Inv'
    <2> SUFFICES ASSUME Inv, [MCNext]_mcVars PROVE Inv'
      OBVIOUS
    <2>1. service' = service
      BY AgentRuns
    <2>2. CASE On("agent")
      BY <2>1, <2>2, AgentRuns, Agent!SignatureStep DEF On
    <2>3. CASE On("faulty")
      BY <2>1, <2>3, AgentRuns, Faulty!SignatureStep DEF On
    <2>4. QED
      BY <2>1, <2>2, <2>3 DEF On
  <1>3. Inv => NoProposalTwice
    BY DEF Agent!SignatureIInv, Faulty!SignatureIInv, NoProposalTwice
  <1> HIDE DEF Inv
  <1>4. QED
    BY <1>1, <1>2, <1>3, PTL DEF Safety

-------------------------------------------------------------------------------
(* The start, with the journal                                                *)

\* What the desk reports as held has an open trade in the journal.
THEOREM PositionsAreJournalled == Safety => []JournalCoversPositions
  <1>1. MCInit => JournalCoversPositions
    BY AgentStarts, Boot!JournalInit DEF JournalCoversPositions
  <1>2. JournalCoversPositions /\ [MCNext]_mcVars => JournalCoversPositions'
    <2> SUFFICES ASSUME JournalCoversPositions, [MCNext]_mcVars, On("boot")
                 PROVE  Boot!JournalCoversPositions'
      BY AgentRuns DEF JournalCoversPositions, On
    <2>1. Boot!JournalCoversPositions
      BY DEF JournalCoversPositions
    <2>2. QED
      BY <2>1, AgentRuns, Boot!JournalStep
  <1>3. QED
    BY <1>1, <1>2, PTL DEF Safety

-------------------------------------------------------------------------------
(* Plans                                                                      *)

\* The sums of a plan are those of SumProofs.
LEMMA PlanSums ==
  /\ \A f, s : Plan!SumFunctionOnSet(f, s) = Total(f, s)
  /\ \A f : Plan!SumFunction(f) = Total(f, DOMAIN f)
  BY Zenon DEF Total, Plan!SumFunction, Plan!SumFunctionOnSet, Plan!FoldFunctionOnSet,
               Plan!MapThenFoldSet, SumFunctionOnSet, FoldFunctionOnSet, MapThenFoldSet

\* What a model has answered, of any length.
PlanIInv ==
  /\ rawPlan \in Seq(Plan!Legs)
  /\ grossCap \in Nat /\ netCap \in Nat /\ marked \in BOOLEAN

\* Every plan is one.
LEMMA PlanAlways == Safety => [](On("plan") => PlanIInv)
  <1>1. MCInit => (On("plan") => PlanIInv)
    <2> SUFFICES ASSUME MCInit, On("plan") PROVE PlanIInv
      OBVIOUS
    <2>1. Plan!Init
      BY DEF MCInit
    <2>2. PICK n \in 1..MaxLegs : rawPlan \in [1..n -> Plan!Legs]
      BY <2>1 DEF Plan!Init
    <2>3. rawPlan \in Seq(Plan!Legs)
      BY <2>2, PlanAssumption
    <2>4. QED
      BY <2>1, <2>3, PlanAssumption DEF Plan!Init, PlanIInv
  <1>2. (On("plan") => PlanIInv) /\ [MCNext]_mcVars => (On("plan") => PlanIInv)'
    <2> SUFFICES ASSUME On("plan") => PlanIInv, [MCNext]_mcVars, On("plan")' PROVE PlanIInv'
      OBVIOUS
    <2>1. On("plan") /\ UNCHANGED planVars
      BY AgentRuns DEF On, MCNext, Rest, mcVars, Plan!Next, Plan!vars, planVars
    <2>2. QED
      BY <2>1 DEF PlanIInv, planVars
  <1>3. QED
    BY <1>1, <1>2, PTL DEF Safety

\* A nonempty set of natural numbers has a least one.
LEMMA LeastIsIn ==
  ASSUME NEW S \in SUBSET Nat, S # {}
  PROVE  (CHOOSE m \in S : \A k \in S : m <= k) \in S
  <1> DEFINE R == {ss \in Nat \X Nat : ss[1] < ss[2]}
  <1>1. IsWellFoundedOn(R, Nat)
    BY NatLessThanWellFounded DEF OpToRel
  <1>2. PICK m \in S : \A k \in S : <<k, m>> \notin R
    <2> HIDE DEF R
    <2>1. QED
      BY <1>1, WFMin
  <1>3. ASSUME NEW k \in S PROVE m <= k
    <2>1. k \in Nat /\ m \in Nat /\ <<k, m>> \notin R
      BY <1>2
    <2>2. ~(k < m)
      BY <2>1
    <2>3. QED
      BY <2>1, <2>2
  <1>4. QED
    BY <1>3

\* What a leg adds to the net of its symbol.
Effect == [i \in DOMAIN rawPlan |-> Plan!signed(rawPlan[i])]

\* The legs of a symbol, and what they add up to.
LEMMA NetType ==
  ASSUME PlanIInv, NEW s
  PROVE  /\ Plan!LegsOf(s) \subseteq DOMAIN rawPlan /\ Plan!LegsOf(s) \subseteq Nat
         /\ IsFiniteSet(Plan!LegsOf(s))
         /\ \A i \in DOMAIN rawPlan : rawPlan[i] \in Plan!Legs /\ Effect[i] \in Int
         /\ Plan!netOf(s) = Total(Effect, Plan!LegsOf(s)) /\ Plan!netOf(s) \in Int
  <1>1. Plan!LegsOf(s) \subseteq DOMAIN rawPlan /\ DOMAIN rawPlan = 1..Len(rawPlan) /\ Len(rawPlan) \in Nat
    BY DEF Plan!LegsOf, Plan!Counted, PlanIInv
  <1>2. IsFiniteSet(Plan!LegsOf(s))
    <2>1. IsFiniteSet(1..Len(rawPlan))
      BY <1>1, FS_Interval
    <2>2. QED
      BY <1>1, <2>1, FS_Subset
  <1>3. \A i \in DOMAIN rawPlan : rawPlan[i] \in Plan!Legs
    BY <1>1 DEF PlanIInv
  <1>4. \A i \in DOMAIN rawPlan : Effect[i] \in Int
    BY <1>3, PlanAssumption DEF Effect, Plan!signed, Plan!Legs
  <1>5. Plan!netOf(s) = Total(Effect, Plan!LegsOf(s))
    BY PlanSums DEF Plan!netOf, Effect
  <1>6. Plan!netOf(s) \in Int
    BY <1>1, <1>2, <1>4, <1>5, TotalType
  <1>7. QED
    BY <1>1, <1>2, <1>3, <1>4, <1>5, <1>6

\* Legs of one side add up to something of that side, or to nothing.
LEMMA NetOfOneSide ==
  ASSUME PlanIInv, NEW s, Plan!LegsOf(s) # {}, ~Plan!TwoSided(s)
  PROVE  /\ Plan!First(s) \in Plan!Legs
         /\ Plan!First(s).side = "LONG" => Plan!netOf(s) >= 0
         /\ Plan!First(s).side = "SHORT" => Plan!netOf(s) <= 0
  <1> DEFINE L == Plan!LegsOf(s)
             earliest == CHOOSE i \in L : \A j \in L : i <= j
  <1>1. /\ L \subseteq DOMAIN rawPlan /\ L \subseteq Nat /\ IsFiniteSet(L)
        /\ \A i \in DOMAIN rawPlan : rawPlan[i] \in Plan!Legs /\ Effect[i] \in Int
        /\ Plan!netOf(s) = Total(Effect, L)
    BY NetType
  <1>2. earliest \in L
    BY <1>1, LeastIsIn
  <1>3. Plan!First(s) = rawPlan[earliest]
    BY DEF Plan!First
  <1>4. \A i \in L : rawPlan[i].side = rawPlan[earliest].side
    BY <1>2 DEF Plan!TwoSided
  <1> HIDE DEF earliest
  <1>5. ASSUME rawPlan[earliest].side = "LONG" PROVE Plan!netOf(s) >= 0
    <2>1. \A i \in L : Effect[i] >= 0
      BY <1>1, <1>4, <1>5, PlanAssumption DEF Effect, Plan!signed, Plan!Legs
    <2>2. \A i \in L : Effect[i] \in Int
      BY <1>1
    <2> HIDE DEF L
    <2>3. QED
      BY <1>1, <2>1, <2>2, TotalType
  <1>6. ASSUME rawPlan[earliest].side = "SHORT" PROVE Plan!netOf(s) <= 0
    <2> DEFINE nothing == [i \in L |-> 0]
    <2>1. \A i \in L : Effect[i] \in Int /\ nothing[i] \in Int /\ Effect[i] <= nothing[i]
      BY <1>1, <1>4, <1>6, PlanAssumption DEF Effect, Plan!signed, Plan!Legs
    <2>2. \A i \in L : nothing[i] \in Nat /\ nothing[i] = 0
      OBVIOUS
    <2> HIDE DEF L, nothing
    <2>3. Total(nothing, L) = 0
      BY <1>1, <2>2, TotalZero
    <2>4. Total(Effect, L) <= Total(nothing, L)
      BY <1>1, <2>1, TotalMonotone
    <2>5. QED
      BY <1>1, <2>3, <2>4
  <1>7. QED
    BY <1>1, <1>2, <1>3, <1>5, <1>6

\* What a proposal keeps of the merged legs: everything but the size.
LEMMA ProposalKeeps ==
  ASSUME NEW s \in DOMAIN Plan!buildDiscretionaryProposal
  PROVE  LET leg == Plan!buildDiscretionaryProposal[s] IN
         /\ s \in DOMAIN Plan!MergedLegs /\ Plan!LegsOf(s) # {}
         /\ leg.side = Plan!Merged(s).side /\ leg.sl = Plan!Merged(s).sl /\ leg.tp = Plan!Merged(s).tp
         /\ leg.sl # "none" /\ leg.tp # "none"
  <1> DEFINE plan == Plan!normalizeDirectivePlan
             merged == Plan!MergedLegs
  <1>1. \A t \in DOMAIN merged : merged[t] = Plan!Merged(t) /\ Plan!LegsOf(t) # {}
    BY DEF Plan!MergedLegs
  <1>2. \A leg, factor : /\ Plan!scaledBy(leg, factor).side = leg.side
                         /\ Plan!scaledBy(leg, factor).sl = leg.sl
                         /\ Plan!scaledBy(leg, factor).tp = leg.tp
    BY DEF Plan!scaledBy
  <1>3. \A t \in DOMAIN plan : /\ t \in DOMAIN merged /\ plan[t].side = merged[t].side
                               /\ plan[t].sl = merged[t].sl /\ plan[t].tp = merged[t].tp
    BY <1>2 DEF Plan!normalizeDirectivePlan, Plan!resized
  <1> HIDE DEF plan, merged
  <1>4. /\ s \in DOMAIN plan /\ plan[s].sl # "none" /\ plan[s].tp # "none"
        /\ Plan!buildDiscretionaryProposal[s].side = plan[s].side
        /\ Plan!buildDiscretionaryProposal[s].sl = plan[s].sl
        /\ Plan!buildDiscretionaryProposal[s].tp = plan[s].tp
    BY DEF Plan!buildDiscretionaryProposal, Plan!proposed, plan
  <1>5. QED
    BY <1>1, <1>3, <1>4 DEF merged

\* A proposal's protective levels are on the right sides of the mark.
THEOREM GuardsAreOnTheirSides == Safety => []GuardsOnRightSide
  <1>1. ASSUME PlanIInv PROVE Plan!GuardsOnRightSide
    <2> SUFFICES ASSUME marked, NEW s \in DOMAIN Plan!buildDiscretionaryProposal,
                        ~Plan!TwoSided(s), Plan!netOf(s) # 0
                 PROVE  LET leg == Plan!buildDiscretionaryProposal[s] IN
                        <<leg.side, leg.sl, leg.tp>> \in
                          {<<"LONG", "below", "above">>, <<"SHORT", "above", "below">>}
      BY DEF Plan!GuardsOnRightSide
    <2> DEFINE leg == Plan!buildDiscretionaryProposal[s]
               side == Plan!First(s).side
    <2>1. /\ leg.side = Plan!Merged(s).side /\ leg.sl = Plan!Merged(s).sl
          /\ leg.tp = Plan!Merged(s).tp /\ leg.sl # "none" /\ leg.tp # "none"
      BY ProposalKeeps
    <2>2. /\ side \in {"LONG", "SHORT"} /\ Plan!netOf(s) \in Int
          /\ side = "LONG" => Plan!netOf(s) > 0
          /\ side = "SHORT" => Plan!netOf(s) < 0
      <3>1. Plan!First(s) \in Plan!Legs /\ Plan!netOf(s) \in Int
        BY <1>1, ProposalKeeps, NetOfOneSide, NetType
      <3>2. /\ Plan!First(s).side = "LONG" => Plan!netOf(s) >= 0
            /\ Plan!First(s).side = "SHORT" => Plan!netOf(s) <= 0
        BY <1>1, ProposalKeeps, NetOfOneSide
      <3>3. QED
        BY <3>1, <3>2 DEF Plan!Legs
    <2>3. /\ leg.side = IF Plan!netOf(s) >= 0 THEN "LONG" ELSE "SHORT"
          /\ leg.sl = Plan!rightSide(side, "sl") /\ leg.tp = Plan!rightSide(side, "tp")
      BY <2>1 DEF Plan!Merged, Plan!kept
    <2> HIDE DEF leg, side
    <2>4. leg.side = side
      BY <2>2, <2>3
    <2>5. QED
      BY <2>2, <2>3, <2>4 DEF Plan!rightSide, leg
  <1>2. (On("plan") => PlanIInv) => GuardsOnRightSide
    BY <1>1 DEF GuardsOnRightSide
  <1>3. QED
    BY <1>2, PlanAlways, PTL

\* A number is rounded by half a unit at most.
LEMMA RoundingBounds ==
  ASSUME NEW num \in Nat, NEW den \in Nat \ {0}
  PROVE  LET r == Plan!rounded(num, den) IN
         /\ r \in Nat
         /\ (2 * den) * r <= 2 * num + den /\ 2 * num - den <= (2 * den) * r
  <1> DEFINE x == 2 * num + den
             y == 2 * den
             r == x \div y
  <1>1. x \in Nat /\ y \in Nat \ {0}
    OBVIOUS
  <1> HIDE DEF x, y
  <1>2. r \in Nat /\ y * r <= x /\ x < y * r + y
    BY <1>1
  <1>3. Plan!rounded(num, den) = r
    BY DEF Plan!rounded, x, y
  <1> HIDE DEF r
  <1>4. QED
    BY <1>1, <1>2, <1>3 DEF x, y

\* Terms scaled so that their sum is within a cap stay within it, but for half a unit each.
LEMMA ScaledSum ==
  ASSUME NEW D, IsFiniteSet(D), NEW f, NEW r, \A s \in D : f[s] \in Int /\ r[s] \in Int,
         NEW c \in Nat, NEW d \in Nat \ {0}, \A s \in D : (2 * d) * r[s] <= (2 * c) * f[s] + d,
         NEW cap \in Nat, c * Total(f, D) <= cap * d
  PROVE  2 * Total(r, D) <= 2 * cap + Cardinality(D)
  <1> DEFINE low == [s \in D |-> (2 * d) * r[s]]
             high == [s \in D |-> (2 * c) * f[s] + d]
             R == Total(r, D)
             F == Total(f, D)
             n == Cardinality(D)
  <1>1. \A s \in D : low[s] \in Int /\ high[s] \in Int /\ low[s] <= high[s]
    OBVIOUS
  <1>2. R \in Int /\ F \in Int /\ n \in Nat
    BY TotalType, FS_CardinalityType
  <1>3. Total(low, D) = (2 * d) * R + 0 * n
    <2>1. 2 * d \in Int /\ \A s \in D : low[s] = (2 * d) * r[s] + 0
      OBVIOUS
    <2> HIDE DEF low
    <2>2. QED
      BY <2>1, TotalLinear
  <1>4. Total(high, D) = (2 * c) * F + d * n
    <2>1. 2 * c \in Int /\ \A s \in D : high[s] = (2 * c) * f[s] + d
      OBVIOUS
    <2> HIDE DEF high
    <2>2. QED
      BY <2>1, TotalLinear
  <1> HIDE DEF low, high
  <1>5. Total(low, D) <= Total(high, D)
    BY <1>1, TotalMonotone
  <1>6. c * F <= cap * d
    OBVIOUS
  <1> HIDE DEF R, F, n
  <1>7. (2 * d) * R <= (2 * c) * F + d * n
    BY <1>2, <1>3, <1>4, <1>5
  <1>8. d * (2 * R) <= d * (2 * cap + n)
    BY <1>2, <1>6, <1>7
  <1>9. 2 * R <= 2 * cap + n
    BY <1>2, <1>8
  <1>10. QED
    BY <1>9 DEF R, n

\* What is dropped from a sum does not lift it by more than the size of the terms that are.
LEMMA DroppedSum ==
  ASSUME NEW D, IsFiniteSet(D), NEW f, \A s \in D : f[s] \in Int, NEW K \in SUBSET D,
         NEW m \in Nat, \A s \in D \ K : -m <= f[s]
  PROVE  Total(f, K) <= Total(f, D) + m * (Cardinality(D) - Cardinality(K))
  <1> DEFINE rest == D \ K
             least == [s \in rest |-> -m]
  <1>1. IsFiniteSet(rest) /\ IsFiniteSet(K) /\ Cardinality(K) \in Nat /\ Cardinality(D) \in Nat
    BY FS_Subset, FS_CardinalityType
  <1>2. Cardinality(rest) = Cardinality(D) - Cardinality(K)
    <2>1. D \cap K = K
      OBVIOUS
    <2>2. QED
      BY <2>1, FS_Difference
  <1>3. Total(f, D) = Total(f, K) + Total(f, rest)
    BY TotalSplit
  <1>4. \A s \in rest : /\ f[s] \in Int /\ least[s] \in Int /\ least[s] <= f[s]
                        /\ least[s] = 0 * f[s] + (-m)
    OBVIOUS
  <1>5. Total(f, K) \in Int /\ Total(f, rest) \in Int
    BY <1>1, <1>4, TotalType
  <1> HIDE DEF rest, least
  <1>6. Total(least, rest) = 0 * Total(f, rest) + (-m) * Cardinality(rest)
    BY <1>1, <1>4, TotalLinear
  <1>7. Total(least, rest) <= Total(f, rest)
    BY <1>1, <1>4, TotalMonotone
  <1> DEFINE n == Cardinality(D) - Cardinality(K)
  <1>8. n \in Int
    BY <1>1
  <1>9. (-m) * n <= Total(f, rest)
    BY <1>2, <1>5, <1>6, <1>7, <1>8
  <1> HIDE DEF n
  <1>10. (-m) * n = -(m * n) /\ m * n \in Int
    BY <1>8
  <1>11. Total(f, K) <= Total(f, D) + m * n
    BY <1>3, <1>5, <1>9, <1>10
  <1>12. QED
    BY <1>11 DEF n

\* The legs of a plan by symbol: their sizes, and what each adds to the net.
Sizes(legs) == [s \in DOMAIN legs |-> legs[s].notional]
Effects(legs) == [s \in DOMAIN legs |-> Plan!signed(legs[s])]
Opposite(f) == [s \in DOMAIN f |-> -f[s]]

\* Gross and net of a plan are sums of these.
LEMMA GrossAndNet ==
  \A legs : /\ Plan!gross(legs) = Total(Sizes(legs), DOMAIN legs)
            /\ Plan!net(legs) = Plan!Abs(Total(Effects(legs), DOMAIN legs))
  BY PlanSums DEF Plan!gross, Plan!net, Sizes, Effects

\* The merged legs have a size and a side each, and there are finitely many of them.
LEMMA MergedType ==
  ASSUME PlanIInv
  PROVE  /\ IsFiniteSet(DOMAIN Plan!MergedLegs)
         /\ \A s \in DOMAIN Plan!MergedLegs :
              /\ Plan!MergedLegs[s].notional \in Nat
              /\ Plan!MergedLegs[s].side \in {"LONG", "SHORT"}
              /\ DOMAIN Plan!MergedLegs[s] = {"side", "notional", "sl", "tp"}
  <1>1. DOMAIN Plan!MergedLegs \subseteq PlanSymbols
    BY DEF Plan!MergedLegs
  <1>2. IsFiniteSet(DOMAIN Plan!MergedLegs)
    BY <1>1, PlanAssumption, FS_Subset
  <1>3. ASSUME NEW s \in DOMAIN Plan!MergedLegs
        PROVE  /\ Plan!MergedLegs[s].notional \in Nat
               /\ Plan!MergedLegs[s].side \in {"LONG", "SHORT"}
               /\ DOMAIN Plan!MergedLegs[s] = {"side", "notional", "sl", "tp"}
    <2>1. Plan!MergedLegs[s] = Plan!Merged(s)
      BY DEF Plan!MergedLegs
    <2>2. Plan!netOf(s) \in Int
      BY NetType
    <2>3. QED
      BY <2>1, <2>2 DEF Plan!Merged, Plan!Abs
  <1>4. QED
    BY <1>2, <1>3

\* The ratio of a cap, or one where the sum is within it.
IsRatio(a, b, cap, total) ==
  \/ a = 1 /\ b = 1 /\ (cap > 0 => total <= cap)
  \/ a = cap /\ b = total

\* A ratio is one of these.
LEMMA RatioType ==
  ASSUME NEW cap \in Nat, NEW total \in Nat
  PROVE  \E a \in Nat, b \in Nat \ {0} :
           Plan!ratio(cap, total) = <<a, b>> /\ IsRatio(a, b, cap, total)
  <1>1. CASE cap = 0 \/ total <= cap
    BY <1>1 DEF Plan!ratio, IsRatio
  <1>2. CASE ~(cap = 0 \/ total <= cap)
    BY <1>2 DEF Plan!ratio, IsRatio
  <1>3. QED
    BY <1>1, <1>2

\* A factor that is no more than the ratio of a cap brings the sum within it.
LEMMA RatioEffect ==
  ASSUME NEW cap \in Nat, NEW total \in Nat, cap > 0, NEW a \in Nat, NEW b \in Nat \ {0},
         IsRatio(a, b, cap, total), NEW c \in Nat, NEW d \in Nat \ {0}, c * b <= a * d
  PROVE  c * total <= cap * d
  <1>1. CASE a = cap /\ b = total
    BY <1>1
  <1>2. CASE a = 1 /\ b = 1 /\ total <= cap
    <2>1. c <= d
      BY <1>2
    <2>2. c * total <= d * total /\ d * total <= d * cap
      BY <1>2, <2>1
    <2>3. c * total \in Nat /\ d * total \in Nat /\ d * cap \in Nat /\ d * cap = cap * d
      OBVIOUS
    <2>4. QED
      BY <2>2, <2>3
  <1>3. QED
    BY <1>1, <1>2 DEF IsRatio

\* The factor of the scaling brings both sums within their caps.
LEMMA ScaleEffect ==
  ASSUME NEW legs, Plan!gross(legs) \in Nat, Plan!net(legs) \in Nat, grossCap \in Nat, netCap \in Nat
  PROVE  \E c \in Nat, d \in Nat \ {0} :
           /\ Plan!scale(legs) = <<c, d>>
           /\ grossCap > 0 => c * Plan!gross(legs) <= grossCap * d
           /\ netCap > 0 => c * Plan!net(legs) <= netCap * d
  <1>1. PICK a1 \in Nat, b1 \in Nat \ {0} :
          /\ Plan!ratio(grossCap, Plan!gross(legs)) = <<a1, b1>>
          /\ IsRatio(a1, b1, grossCap, Plan!gross(legs))
    BY RatioType
  <1>2. PICK a2 \in Nat, b2 \in Nat \ {0} :
          /\ Plan!ratio(netCap, Plan!net(legs)) = <<a2, b2>>
          /\ IsRatio(a2, b2, netCap, Plan!net(legs))
    BY RatioType
  <1>3. Plan!scale(legs) = IF a1 * b2 <= a2 * b1 THEN <<a1, b1>> ELSE <<a2, b2>>
    BY <1>1, <1>2 DEF Plan!scale
  <1>4. PICK c \in Nat, d \in Nat \ {0} :
          Plan!scale(legs) = <<c, d>> /\ c * b1 <= a1 * d /\ c * b2 <= a2 * d
    <2>1. a1 * b1 <= a1 * b1 /\ a2 * b2 <= a2 * b2
      OBVIOUS
    <2>2. CASE a1 * b2 <= a2 * b1
      BY <1>3, <2>1, <2>2
    <2>3. CASE ~(a1 * b2 <= a2 * b1)
      <3>1. a2 * b1 <= a1 * b2
        BY <2>3
      <3>2. QED
        BY <1>3, <2>1, <2>3, <3>1
    <2>4. QED
      BY <2>2, <2>3
  <1>5. grossCap > 0 => c * Plan!gross(legs) <= grossCap * d
    BY <1>1, <1>4, RatioEffect
  <1>6. netCap > 0 => c * Plan!net(legs) <= netCap * d
    BY <1>2, <1>4, RatioEffect
  <1>7. QED
    BY <1>4, <1>5, <1>6

\* Both together.
LEMMA ScaledAndDropped ==
  ASSUME NEW D, IsFiniteSet(D), NEW f, NEW r, \A s \in D : f[s] \in Int /\ r[s] \in Int,
         NEW c \in Nat, NEW d \in Nat \ {0}, \A s \in D : (2 * d) * r[s] <= (2 * c) * f[s] + d,
         NEW cap \in Nat, c * Total(f, D) <= cap * d,
         NEW K \in SUBSET D, NEW m \in Nat, \A s \in D \ K : -m <= r[s]
  PROVE  2 * Total(r, K) <= 2 * cap + Cardinality(D) + 2 * (m * (Cardinality(D) - Cardinality(K)))
  <1>1. 2 * Total(r, D) <= 2 * cap + Cardinality(D)
    BY ScaledSum
  <1>2. Total(r, K) <= Total(r, D) + m * (Cardinality(D) - Cardinality(K))
    BY DroppedSum
  <1>3. /\ IsFiniteSet(K) /\ Cardinality(K) \in Nat /\ Cardinality(D) \in Nat
    BY FS_Subset, FS_CardinalityType
  <1>4. Total(r, K) \in Int /\ Total(r, D) \in Int
    BY <1>3, TotalType
  <1> DEFINE waived == m * (Cardinality(D) - Cardinality(K))
  <1>5. waived \in Int
    BY <1>3
  <1> HIDE DEF waived
  <1>6. QED
    BY <1>1, <1>2, <1>3, <1>4, <1>5 DEF waived

\* A scaled plan: its legs, their sizes and their effects.
LEMMA ScaledPlan ==
  ASSUME PlanIInv, NEW c \in Nat, NEW d \in Nat \ {0}, Plan!scale(Plan!MergedLegs) = <<c, d>>,
         <<c, d>> # <<1, 1>>
  PROVE  LET legs == Plan!MergedLegs
             plan == Plan!normalizeDirectivePlan
             size(s) == Plan!rounded(legs[s].notional * c, d)
         IN /\ DOMAIN plan = {s \in DOMAIN legs : size(s) >= minLegUsd}
            /\ \A s \in DOMAIN plan : plan[s].notional = size(s) /\ plan[s].side = legs[s].side
  <1> DEFINE legs == Plan!MergedLegs
             size(s) == Plan!rounded(legs[s].notional * c, d)
             sized == [s \in DOMAIN legs |-> Plan!scaledBy(legs[s], <<c, d>>)]
  <1>1. \A s \in DOMAIN legs : sized[s].notional = size(s) /\ sized[s].side = legs[s].side
    BY MergedType DEF Plan!scaledBy
  <1>2. Plan!normalizeDirectivePlan =
          [s \in {t \in DOMAIN legs : sized[t].notional >= minLegUsd} |-> sized[s]]
    BY DEF Plan!normalizeDirectivePlan, Plan!resized
  <1> HIDE DEF legs, sized
  <1>3. DOMAIN Plan!normalizeDirectivePlan = {s \in DOMAIN legs : size(s) >= minLegUsd}
    BY <1>1, <1>2
  <1>4. \A s \in DOMAIN Plan!normalizeDirectivePlan :
          s \in DOMAIN legs /\ Plan!normalizeDirectivePlan[s] = sized[s]
    BY <1>2
  <1>5. QED
    BY <1>1, <1>3, <1>4 DEF legs

\* The opposite of a sum.
LEMMA OppositeSum ==
  ASSUME NEW S, IsFiniteSet(S), NEW f, S \subseteq DOMAIN f, \A s \in S : f[s] \in Int
  PROVE  Total(Opposite(f), S) = -Total(f, S)
  <1>1. \A s \in S : Opposite(f)[s] = (-1) * f[s] + 0
    BY DEF Opposite
  <1>2. Total(Opposite(f), S) = (-1) * Total(f, S) + 0 * Cardinality(S)
    BY <1>1, TotalLinear
  <1>3. Total(f, S) \in Int /\ Cardinality(S) \in Nat
    BY TotalType, FS_CardinalityType
  <1>4. QED
    BY <1>2, <1>3

\* A scaled plan is within both caps, for every number of legs.
LEMMA CapsHoldScaled ==
  ASSUME PlanIInv, NEW c \in Nat, NEW d \in Nat \ {0}, Plan!scale(Plan!MergedLegs) = <<c, d>>,
         <<c, d>> # <<1, 1>>,
         grossCap > 0 => c * Plan!gross(Plan!MergedLegs) <= grossCap * d,
         netCap > 0 => c * Plan!net(Plan!MergedLegs) <= netCap * d
  PROVE  Plan!PlanWithinCaps
  <1> DEFINE legs == Plan!MergedLegs
             plan == Plan!normalizeDirectivePlan
             D == DOMAIN legs
             K == DOMAIN plan
             f == Sizes(legs)
             e == Effects(legs)
             r == [s \in D |-> Plan!rounded(legs[s].notional * c, d)]
             g == [s \in D |-> IF legs[s].side = "LONG" THEN r[s] ELSE -r[s]]
  <1>1. /\ IsFiniteSet(D)
        /\ \A s \in D : legs[s].notional \in Nat /\ legs[s].side \in {"LONG", "SHORT"}
    BY MergedType
  <1>2. \A s \in D : /\ r[s] \in Nat
                     /\ (2 * d) * r[s] <= 2 * (legs[s].notional * c) + d
                     /\ 2 * (legs[s].notional * c) - d <= (2 * d) * r[s]
    <2> SUFFICES ASSUME NEW s \in D
                 PROVE  /\ r[s] \in Nat
                        /\ (2 * d) * r[s] <= 2 * (legs[s].notional * c) + d
                        /\ 2 * (legs[s].notional * c) - d <= (2 * d) * r[s]
      OBVIOUS
    <2>1. legs[s].notional * c \in Nat
      BY <1>1
    <2>2. r[s] = Plan!rounded(legs[s].notional * c, d)
      OBVIOUS
    <2> HIDE DEF r, legs
    <2>3. QED
      BY <2>1, <2>2, RoundingBounds
  <1>3. /\ K = {s \in D : r[s] >= minLegUsd} /\ K \in SUBSET D
        /\ \A s \in K : plan[s].notional = r[s] /\ plan[s].side = legs[s].side
    BY ScaledPlan
  <1>4. \A s \in D : f[s] = legs[s].notional
                     /\ e[s] = IF legs[s].side = "LONG" THEN legs[s].notional ELSE -legs[s].notional
    BY DEF Sizes, Effects, Plan!signed
  <1>5. \A s \in D : g[s] = IF legs[s].side = "LONG" THEN r[s] ELSE -r[s]
    OBVIOUS
  <1>6. /\ \A s \in K : Sizes(plan)[s] = r[s] /\ Effects(plan)[s] = g[s]
        /\ D = DOMAIN e /\ D = DOMAIN g
    BY <1>3 DEF Sizes, Effects, Plan!signed
  <1>7. /\ Plan!gross(legs) = Total(f, D) /\ Plan!net(legs) = Plan!Abs(Total(e, D))
        /\ Plan!gross(plan) = Total(Sizes(plan), K)
        /\ Plan!net(plan) = Plan!Abs(Total(Effects(plan), K))
    BY GrossAndNet
  <1>8. /\ grossCap \in Nat /\ netCap \in Nat /\ minLegUsd \in Nat
        /\ grossCap > 0 => c * Plan!gross(legs) <= grossCap * d
        /\ netCap > 0 => c * Plan!net(legs) <= netCap * d
    BY PlanAssumption DEF PlanIInv
  <1>9. IsFiniteSet(K) /\ Cardinality(K) \in Nat /\ Cardinality(D) \in Nat
    BY <1>1, <1>3, FS_Subset, FS_CardinalityType
  <1>10. Plan!PlanWithinCaps <=>
           /\ grossCap > 0 => 2 * Plan!gross(plan) <= 2 * grossCap + Cardinality(D)
           /\ netCap > 0 => 2 * Plan!net(plan) <= 2 * netCap + Cardinality(D)
                                + 2 * minLegUsd * (Cardinality(D) - Cardinality(K))
    <2>1. \A S : Plan!Cardinality(S) = Cardinality(S)
      BY DEF Plan!Cardinality, Cardinality
    <2>2. QED
      BY <2>1 DEF Plan!PlanWithinCaps
  <1> HIDE DEF legs, plan, D, K, f, e, r, g
  <1>11. \A s \in D : f[s] \in Int /\ e[s] \in Int /\ r[s] \in Int /\ g[s] \in Int
    BY <1>1, <1>2, <1>4, <1>5
  <1>12. Total(Sizes(plan), K) = Total(r, K) /\ Total(Effects(plan), K) = Total(g, K)
    <2>1. \A s \in K : r[s] \in Int /\ g[s] \in Int
      BY <1>3, <1>11
    <2>2. QED
      BY <1>6, <1>9, <2>1, TotalEqual
  <1>13. ASSUME grossCap > 0
         PROVE  2 * Plan!gross(plan) <= 2 * grossCap + Cardinality(D)
    <2>1. \A s \in D : (2 * d) * r[s] <= (2 * c) * f[s] + d
      BY <1>1, <1>2, <1>4
    <2>2. c * Total(f, D) <= grossCap * d
      BY <1>7, <1>8, <1>13
    <2>3. \A s \in D \ K : -0 <= r[s]
      BY <1>2
    <2>4. 2 * Total(r, K) <= 2 * grossCap + Cardinality(D) + 2 * (0 * (Cardinality(D) - Cardinality(K)))
      BY <1>1, <1>3, <1>8, <1>11, <2>1, <2>2, <2>3, ScaledAndDropped
    <2>5. QED
      BY <1>7, <1>8, <1>9, <1>12, <2>4
  <1>14. ASSUME netCap > 0
         PROVE  2 * Plan!net(plan) <= 2 * netCap + Cardinality(D)
                      + 2 * minLegUsd * (Cardinality(D) - Cardinality(K))
    <2> DEFINE N == Total(e, D)
               G == Total(g, K)
               waived == minLegUsd * (Cardinality(D) - Cardinality(K))
    <2>1. \A s \in D : /\ (2 * d) * g[s] <= (2 * c) * e[s] + d
                       /\ (2 * d) * (-g[s]) <= (2 * c) * (-e[s]) + d
      <3>1. ASSUME NEW x \in Nat, NEW y \in Nat,
                   (2 * d) * y <= 2 * (x * c) + d, 2 * (x * c) - d <= (2 * d) * y
            PROVE  /\ (2 * d) * y <= (2 * c) * x + d
                   /\ (2 * d) * (-y) <= (2 * c) * (-x) + d
        BY <3>1
      <3>2. ASSUME NEW s \in D
            PROVE  /\ (2 * d) * g[s] <= (2 * c) * e[s] + d
                   /\ (2 * d) * (-g[s]) <= (2 * c) * (-e[s]) + d
        <4> DEFINE x == legs[s].notional
                   y == r[s]
        <4>1. /\ x \in Nat /\ y \in Nat /\ legs[s].side \in {"LONG", "SHORT"}
              /\ (2 * d) * y <= 2 * (x * c) + d /\ 2 * (x * c) - d <= (2 * d) * y
          BY <1>1, <1>2
        <4>2. IF legs[s].side = "LONG" THEN e[s] = x /\ g[s] = y ELSE e[s] = -x /\ g[s] = -y
          BY <1>4, <1>5
        <4> HIDE DEF x, y
        <4>3. (2 * d) * y <= (2 * c) * x + d /\ (2 * d) * (-y) <= (2 * c) * (-x) + d
          BY <3>1, <4>1
        <4>4. -(-y) = y /\ -(-x) = x
          BY <4>1
        <4>5. QED
          BY <4>2, <4>3, <4>4
      <3>3. QED
        BY <3>2
    <2>2. \A s \in D \ K : -minLegUsd <= g[s] /\ -minLegUsd <= -g[s]
      BY <1>2, <1>3, <1>5, <1>8
    <2>3. N \in Int /\ G \in Int /\ waived \in Int
      <3>1. \A s \in K : g[s] \in Int
        BY <1>3, <1>11
      <3>2. QED
        BY <1>1, <1>8, <1>9, <1>11, <3>1, TotalType
    <2>4. c * N <= netCap * d /\ c * (-N) <= netCap * d
      <3>1. c * Plan!Abs(N) <= netCap * d
        BY <1>7, <1>8, <1>14
      <3>2. CASE N >= 0
        <4>1. Plan!Abs(N) = N /\ c * (-N) <= c * N
          BY <2>3, <3>2 DEF Plan!Abs
        <4>2. c * N \in Int /\ c * (-N) \in Int /\ netCap * d \in Int
          BY <1>8, <2>3
        <4>3. QED
          BY <3>1, <4>1, <4>2
      <3>3. CASE N < 0
        <4>1. Plan!Abs(N) = -N /\ c * N <= c * (-N)
          BY <2>3, <3>3 DEF Plan!Abs
        <4>2. c * N \in Int /\ c * (-N) \in Int /\ netCap * d \in Int
          BY <1>8, <2>3
        <4>3. QED
          BY <3>1, <4>1, <4>2
      <3>4. QED
        BY <2>3, <3>2, <3>3
    <2>5. 2 * G <= 2 * netCap + Cardinality(D) + 2 * waived
      BY <1>1, <1>3, <1>8, <1>11, <2>1, <2>2, <2>4, ScaledAndDropped
    <2>6. 2 * (-G) <= 2 * netCap + Cardinality(D) + 2 * waived
      <3>1. \A s \in D : /\ Opposite(e)[s] = -e[s] /\ Opposite(g)[s] = -g[s]
                         /\ Opposite(e)[s] \in Int /\ Opposite(g)[s] \in Int
        BY <1>6, <1>11 DEF Opposite
      <3>2. Total(Opposite(e), D) = -N /\ Total(Opposite(g), K) = -G
        <4>1. K \subseteq DOMAIN g /\ \A s \in K : g[s] \in Int
          BY <1>3, <1>6, <1>11
        <4>2. D \subseteq DOMAIN e /\ \A s \in D : e[s] \in Int
          BY <1>6, <1>11
        <4>3. QED
          BY <1>1, <1>9, <4>1, <4>2, OppositeSum
      <3>3. /\ \A s \in D : (2 * d) * Opposite(g)[s] <= (2 * c) * Opposite(e)[s] + d
            /\ \A s \in D \ K : -minLegUsd <= Opposite(g)[s]
            /\ c * Total(Opposite(e), D) <= netCap * d
        BY <2>1, <2>2, <2>4, <3>1, <3>2
      <3>4. 2 * Total(Opposite(g), K) <= 2 * netCap + Cardinality(D) + 2 * waived
        BY <1>1, <1>3, <1>8, <3>1, <3>3, ScaledAndDropped
      <3>5. QED
        BY <3>2, <3>4
    <2>7. Plan!net(plan) = Plan!Abs(G)
      BY <1>7, <1>12
    <2>8. 2 * minLegUsd * (Cardinality(D) - Cardinality(K)) = 2 * waived
      BY <1>8, <1>9
    <2> HIDE DEF G, N, waived
    <2>9. QED
      BY <1>8, <1>9, <2>3, <2>5, <2>6, <2>7, <2>8 DEF Plan!Abs
  <1>15. QED
    BY <1>10, <1>13, <1>14

\* A normalised plan is within the risk budget, whatever the model has answered: for any number of
\* legs, sizes, caps and any minimum.
THEOREM PlansAreWithinCaps == Safety => []PlanWithinCaps
  <1>1. ASSUME PlanIInv PROVE Plan!PlanWithinCaps
    <2> DEFINE legs == Plan!MergedLegs
               D == DOMAIN legs
    <2>1. Plan!gross(legs) \in Nat /\ Plan!net(legs) \in Nat
      <3>1. /\ IsFiniteSet(D)
            /\ \A s \in D : Sizes(legs)[s] \in Int /\ Sizes(legs)[s] >= 0 /\ Effects(legs)[s] \in Int
        BY <1>1, MergedType DEF Sizes, Effects, Plan!signed
      <3> HIDE DEF legs, D
      <3>2. /\ Total(Sizes(legs), D) \in Int /\ Total(Sizes(legs), D) >= 0
            /\ Total(Effects(legs), D) \in Int
        BY <3>1, TotalType
      <3>3. QED
        BY <3>2, GrossAndNet DEF Plan!Abs, D
    <2>2. grossCap \in Nat /\ netCap \in Nat
      BY <1>1 DEF PlanIInv
    <2>3. PICK c \in Nat, d \in Nat \ {0} :
            /\ Plan!scale(legs) = <<c, d>>
            /\ grossCap > 0 => c * Plan!gross(legs) <= grossCap * d
            /\ netCap > 0 => c * Plan!net(legs) <= netCap * d
      BY <2>1, <2>2, ScaleEffect
    <2>4. CASE <<c, d>> = <<1, 1>>
      <3>1. Plan!normalizeDirectivePlan = legs /\ c = 1 /\ d = 1
        BY <2>3, <2>4 DEF Plan!normalizeDirectivePlan, Plan!resized
      <3>2. \A S : Plan!Cardinality(S) = Cardinality(S)
        BY DEF Plan!Cardinality, Cardinality
      <3>3. Cardinality(D) \in Nat
        BY <1>1, MergedType, FS_CardinalityType
      <3>4. /\ grossCap > 0 => 2 * Plan!gross(legs) <= 2 * grossCap + Cardinality(D)
            /\ netCap > 0 => 2 * Plan!net(legs) <= 2 * netCap + Cardinality(D)
                                + 2 * minLegUsd * (Cardinality(D) - Cardinality(D))
        BY <2>1, <2>2, <2>3, <3>1, <3>3, PlanAssumption
      <3>5. QED
        BY <3>1, <3>2, <3>4 DEF Plan!PlanWithinCaps
    <2>5. CASE <<c, d>> # <<1, 1>>
      BY <1>1, <2>3, <2>5, CapsHoldScaled
    <2>6. QED
      BY <2>4, <2>5
  <1>2. (On("plan") => PlanIInv) => PlanWithinCaps
    BY <1>1 DEF PlanWithinCaps
  <1>3. QED
    BY <1>2, PlanAlways, PTL
================================================================================
