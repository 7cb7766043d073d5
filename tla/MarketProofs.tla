------------------------------ MODULE MarketProofs ------------------------------
(***************************************************************************)
(* Theorems about the way to the market: what an entry is held to (the     *)
(* risk policy and the age of the order book it is checked against), the   *)
(* order adapters, and the exchange's client.  They hold in every          *)
(* behaviour of DeskServices and for every value of its constants that its *)
(* assumptions admit.                                                      *)
(***************************************************************************)
EXTENDS DeskServices, FiniteSetTheorems, SequenceTheorems, TLAPS

-------------------------------------------------------------------------------
(* Risk policy                                                                *)

\* Every behaviour of the services is one of the risk policy, or leaves it at rest.
LEMMA PolicyRuns == Safety => Policy!PolicySpec
  <1>1. MCInit => Policy!Init
    BY DEF MCInit
  <1>2. [MCNext]_mcVars => [Policy!PolicyNext]_(Policy!policyVars)
    BY DEF MCNext, Rest, On, mcVars, policyVars, Policy!policyVars
  <1>3. QED
    BY <1>1, <1>2, PTL DEF Safety, Policy!PolicySpec

\* The policy is consistent, and the peak that the drawdown is measured from is the highest
\* value that was read.
PolicyIInv ==
  /\ env \in EnvPolicies /\ policy \in [Policy!Fields -> Nat] /\ Policy!ConsistentPolicy
  /\ account \in Nat /\ cachedWorth \in Nat /\ peak \in Nat /\ highest = peak /\ cachedWorth <= peak
  /\ gross \in Nat /\ candidate \in Nat

\* The policy a process starts with is consistent.
LEMMA InitialPolicy ==
  ASSUME env \in EnvPolicies
  PROVE  /\ Policy!initialPolicy \in [Policy!Fields -> Nat]
         /\ \A f \in Policy!Fields : Policy!initialPolicy[f] > 0
         /\ Policy!initialPolicy.targetLeverage <= Policy!initialPolicy.maxLeverage
  BY PolicyAssumption DEF Policy!initialPolicy, Policy!Smaller, Policy!Fields

\* So is the one that a command leaves, whatever fields it names.
LEMMA PatchedPolicy ==
  ASSUME PolicyIInv, NEW named \in SUBSET Policy!Fields,
         NEW patch \in [named -> {0} \cup Leverages \cup Drawdowns]
  PROVE  /\ Policy!normalizeRiskPolicy(patch) \in [Policy!Fields -> Nat]
         /\ \A f \in Policy!Fields : Policy!normalizeRiskPolicy(patch)[f] > 0
         /\ Policy!normalizeRiskPolicy(patch).targetLeverage
              <= Policy!normalizeRiskPolicy(patch).maxLeverage
  BY PolicyAssumption DEF PolicyIInv, Policy!ConsistentPolicy, Policy!normalizeRiskPolicy,
     Policy!Over, Policy!Fields

\* Every step keeps the invariant.
LEMMA PolicyStep == PolicyIInv /\ [Policy!PolicyNext]_(Policy!policyVars) => PolicyIInv'
  <1> SUFFICES ASSUME PolicyIInv, [Policy!PolicyNext]_(Policy!policyVars)
               PROVE  PolicyIInv'
    OBVIOUS
  <1>1. ASSUME NEW args, Policy!RiskPolicyCommand(args),
               \E fields \in SUBSET Policy!Fields : args.patch \in Policy!Patches(fields)
        PROVE  PolicyIInv'
    <2>1. PICK named \in SUBSET Policy!Fields : args.patch \in [named -> {0} \cup Leverages \cup Drawdowns]
      BY <1>1 DEF Policy!Patches
    <2>2. QED
      BY <1>1, <2>1, PatchedPolicy DEF PolicyIInv, Policy!ConsistentPolicy, Policy!RiskPolicyCommand,
         Policy!parseRiskPolicyArgs
  <1>2. CASE Policy!OperatorCommand
    BY <1>1, <1>2 DEF Policy!OperatorCommand
  <1>3. CASE Policy!AgentCommand
    BY <1>1, <1>3 DEF Policy!AgentCommand, Policy!generateRiskReport, Policy!Fields
  <1>4. CASE Policy!RefreshAccount
    BY <1>4 DEF PolicyIInv, Policy!RefreshAccount, Policy!ConsistentPolicy
  <1>5. CASE Policy!AccountMoves
    BY <1>5, PolicyAssumption DEF PolicyIInv, Policy!AccountMoves, Policy!ConsistentPolicy
  <1>6. CASE Policy!ProposeEntry
    BY <1>6 DEF PolicyIInv, Policy!ProposeEntry, Policy!ConsistentPolicy
  <1>7. CASE Policy!EvaluateEntry
    BY <1>7 DEF PolicyIInv, Policy!EvaluateEntry, Policy!ConsistentPolicy
  <1>8. CASE Policy!ProposalExpires \/ Policy!PositionsClose
    BY <1>8 DEF PolicyIInv, Policy!ProposalExpires, Policy!PositionsClose, Policy!ConsistentPolicy
  <1>9. CASE Policy!RuntimeRestarts
    BY <1>9, InitialPolicy DEF PolicyIInv, Policy!RuntimeRestarts, Policy!ConsistentPolicy
  <1>10. CASE UNCHANGED Policy!policyVars
    BY <1>10 DEF PolicyIInv, Policy!policyVars, Policy!ConsistentPolicy
  <1>11. QED
    BY <1>2, <1>3, <1>4, <1>5, <1>6, <1>7, <1>8, <1>9, <1>10 DEF Policy!PolicyNext

\* A step that enlarges the exposure is an entry that passed both checks.
LEMMA EntryStep ==
  ASSUME PolicyIInv, Policy!PolicyNext, gross' > gross
  PROVE  /\ Policy!ConsistentPolicy
         /\ cachedWorth > 0 /\ gross' <= policy.maxLeverage * cachedWorth
         /\ (highest - cachedWorth) * 100 <= policy.maxDrawdownPct * highest
  <1>1. Policy!EvaluateEntry
    <2>1. ASSUME Policy!OperatorCommand \/ Policy!AgentCommand PROVE FALSE
      <3>1. ASSUME NEW args, Policy!RiskPolicyCommand(args) PROVE FALSE
        BY <3>1 DEF PolicyIInv, Policy!RiskPolicyCommand
      <3>2. QED
        BY <2>1, <3>1 DEF Policy!OperatorCommand, Policy!AgentCommand
    <2>2. ASSUME Policy!RefreshAccount \/ Policy!AccountMoves \/ Policy!ProposeEntry PROVE FALSE
      BY <2>2 DEF PolicyIInv, Policy!RefreshAccount, Policy!AccountMoves, Policy!ProposeEntry
    <2>3. ASSUME Policy!ProposalExpires \/ Policy!PositionsClose \/ Policy!RuntimeRestarts PROVE FALSE
      BY <2>3 DEF PolicyIInv, Policy!ProposalExpires, Policy!PositionsClose, Policy!RuntimeRestarts
    <2>4. QED
      BY <2>1, <2>2, <2>3 DEF Policy!PolicyNext
  <1>2. Policy!checkLeverage /\ Policy!checkDrawdown /\ gross' = gross + candidate
    BY <1>1 DEF PolicyIInv, Policy!EvaluateEntry
  <1>3. QED
    BY <1>2 DEF PolicyIInv, Policy!checkLeverage, Policy!checkDrawdown

\* An entry gets through only with an account value, within the leverage and the drawdown of a
\* consistent policy, whatever commands, values of the account and restarts came before it.
THEOREM EntriesWithinLimits == Safety => EntryWithinLimits
  <1>1. Policy!Init => PolicyIInv
    BY InitialPolicy, PolicyAssumption DEF Policy!Init, PolicyIInv, Policy!ConsistentPolicy
  <1>2. PolicyIInv /\ [Policy!PolicyNext]_(Policy!policyVars) => PolicyIInv'
    BY PolicyStep
  <1>3. PolicyIInv /\ [Policy!PolicyNext]_(Policy!policyVars) =>
          [gross' > gross =>
             /\ Policy!ConsistentPolicy
             /\ cachedWorth > 0 /\ gross' <= policy.maxLeverage * cachedWorth
             /\ (highest - cachedWorth) * 100 <= policy.maxDrawdownPct * highest]_(Policy!policyVars)
    BY EntryStep
  <1>4. QED
    BY <1>1, <1>2, <1>3, PolicyRuns, PTL DEF Policy!PolicySpec, EntryWithinLimits,
       Policy!EntryWithinLimits

-------------------------------------------------------------------------------
(* Market data                                                                *)

\* Every behaviour of the services is one of the market data, or leaves it at rest.
LEMMA TicksRun == Safety => Ticks!TickSpec
  <1>1. MCInit => Ticks!Init
    BY DEF MCInit
  <1>2. [MCNext]_mcVars => [Ticks!TickNext]_(Ticks!tickVars)
    BY DEF MCNext, Rest, On, mcVars, tickVars, Ticks!tickVars
  <1>3. QED
    BY <1>1, <1>2, PTL DEF Safety, Ticks!TickSpec

\* The places of a reader.
Places == {"idle", "mids", "refresh", "refreshed", "fallback", "fallbackFlight", "propose", "augment",
           "augmentFlight", "check"}

\* A tick's date is of less than a flight and the client's cache after its price was taken.
Dated(t) == t.updatedAt - t.taken < ClientTtl + Flight
TickValues == [taken : Int, updatedAt : Int, depth : BOOLEAN]
\* A tick of a book is dated that well.
GoodTick(t) == t # Ticks!None => t \in TickValues /\ (t.depth => Dated(t))

\* Every book that is cached, and every tick made of one, is dated that well, and no request
\* is older than a flight.
TicksIInv ==
  /\ now \in Nat /\ fetching \in Int /\ lastFetchAt \in Int
  /\ at \in [Ticks!Readers -> Places]
  /\ askedAt \in [Ticks!Readers -> Nat] /\ readAt \in [Ticks!Readers -> Nat]
  /\ \A r \in Ticks!Readers : Ticks!InFlight(r) => now - askedAt[r] <= Flight
  /\ DOMAIN tick = Ticks!Readers /\ \A r \in Ticks!Readers : GoodTick(tick[r])
  /\ GoodTick(mids)
  /\ bookCache # Ticks!None => /\ bookCache \in [taken : Int, updatedAt : Int, fetchedAt : Int]
                               /\ Dated(bookCache)
  /\ clientBook # Ticks!None => /\ clientBook \in [taken : Int, expiresAt : Int]
                                /\ clientBook.expiresAt - clientBook.taken <= ClientTtl + Flight

\* Every step of the readers, of the answers and of time keeps the invariant.
LEMMA TicksStep == TicksIInv /\ [Ticks!TickNext]_(Ticks!tickVars) => TicksIInv'
  <1> SUFFICES ASSUME TicksIInv, [Ticks!TickNext]_(Ticks!tickVars) PROVE TicksIInv'
    OBVIOUS
  <1> USE TicksAssumption DEF TicksIInv, Places, TickValues, GoodTick, Dated, Ticks!InFlight, Ticks!Goto,
              Ticks!midVars, Ticks!bookVars, Ticks!setting
  <1>1. ASSUME NEW r \in Ticks!Readers, Ticks!Begin(r) PROVE TicksIInv'
    BY <1>1 DEF Ticks!Begin
  <1>2. ASSUME NEW r \in Ticks!Readers, Ticks!Propose(r) \/ Ticks!Check(r) PROVE TicksIInv'
    BY <1>2 DEF Ticks!Propose, Ticks!Check, Ticks!End
  <1>3. ASSUME NEW r \in Ticks!Readers, Ticks!LatestCached(r) \/ Ticks!Refreshed(r) PROVE TicksIInv'
    BY <1>3 DEF Ticks!LatestCached, Ticks!Refreshed, Ticks!HaveTick
  <1>4. ASSUME NEW r \in Ticks!Readers, Ticks!LatestFetches(r) PROVE TicksIInv'
    BY <1>4 DEF Ticks!LatestFetches
  <1>5. ASSUME NEW r \in Ticks!Readers, NEW t, GoodTick(t), Ticks!UseSnapshot(r, t),
               clientBook' # Ticks!None =>
                 /\ clientBook' \in [taken : Int, expiresAt : Int]
                 /\ clientBook'.expiresAt - clientBook'.taken <= ClientTtl + Flight,
               bookCache' # Ticks!None =>
                 /\ bookCache' \in [taken : Int, updatedAt : Int, fetchedAt : Int]
                 /\ Dated(bookCache'),
               askedAt' \in [Ticks!Readers -> Nat], readAt' \in [Ticks!Readers -> Nat],
               \A s \in Ticks!Readers \ {r} : askedAt'[s] = askedAt[s]
        PROVE  TicksIInv'
    BY <1>5 DEF Ticks!UseSnapshot
  <1>6. ASSUME NEW r \in Ticks!Readers, Ticks!BookCached(r) PROVE TicksIInv'
    BY <1>5, <1>6 DEF Ticks!BookCached, Ticks!BookCacheValid, Ticks!Tick
  <1>7. ASSUME NEW r \in Ticks!Readers, Ticks!BookFromClientCache(r) PROVE TicksIInv'
    <2> DEFINE t == Ticks!Tick(clientBook.taken, now, TRUE)
    <2>1. clientBook \in [taken : Int, expiresAt : Int] /\ now - clientBook.taken < ClientTtl + Flight
      BY <1>7 DEF Ticks!BookFromClientCache, Ticks!ClientHas
    <2>2. GoodTick(t)
      BY <2>1 DEF Ticks!Tick
    <2>3. bookCache' \in [taken : Int, updatedAt : Int, fetchedAt : Int] /\ Dated(bookCache')
      BY <1>7, <2>1 DEF Ticks!BookFromClientCache, Ticks!CacheBook
    <2>4. Ticks!UseSnapshot(r, t) /\ UNCHANGED <<clientBook, askedAt, readAt>>
      BY <1>7 DEF Ticks!BookFromClientCache
    <2> HIDE DEF t
    <2>5. QED
      BY <1>5, <2>2, <2>3, <2>4
  <1>8. ASSUME NEW r \in Ticks!Readers, Ticks!BookAsked(r) PROVE TicksIInv'
    BY <1>8 DEF Ticks!BookAsked, Ticks!AwaitsBook
  <1>9. ASSUME NEW r \in Ticks!Readers, Ticks!BookArrives(r) PROVE TicksIInv'
    <2> DEFINE t == Ticks!Tick(askedAt[r], now, TRUE)
    <2>1. askedAt[r] \in Nat /\ readAt[r] \in Nat /\ now - askedAt[r] <= Flight
      BY <1>9 DEF Ticks!BookArrives
    <2>2. GoodTick(t)
      BY <2>1 DEF Ticks!Tick
    <2>3. bookCache' \in [taken : Int, updatedAt : Int, fetchedAt : Int] /\ Dated(bookCache')
      BY <1>9, <2>1 DEF Ticks!BookArrives, Ticks!CacheBook
    <2>4. clientBook' # Ticks!None => /\ clientBook' \in [taken : Int, expiresAt : Int]
                                     /\ clientBook'.expiresAt - clientBook'.taken <= ClientTtl + Flight
      BY <1>9, <2>1 DEF Ticks!BookArrives
    <2>5. /\ askedAt' \in [Ticks!Readers -> Nat] /\ readAt' \in [Ticks!Readers -> Nat]
          /\ \A s \in Ticks!Readers \ {r} : askedAt'[s] = askedAt[s]
      BY <1>9 DEF Ticks!BookArrives, Ticks!EndOfRequest
    <2>6. Ticks!UseSnapshot(r, t)
      BY <1>9 DEF Ticks!BookArrives
    <2> HIDE DEF t
    <2>7. QED
      BY <1>5, <2>2, <2>3, <2>4, <2>5, <2>6
  <1>10. ASSUME NEW r \in Ticks!Readers, Ticks!BookFails(r) PROVE TicksIInv'
    BY <1>10 DEF Ticks!BookFails, Ticks!NoSnapshot, Ticks!EndOfRequest
  <1>11. CASE Ticks!MidsArrive \/ Ticks!MidsFail
    <2>1. at' \in [Ticks!Readers -> Places] /\ \A r \in Ticks!Readers : Ticks!InFlight(r)' => Ticks!InFlight(r)
      BY <1>11 DEF Ticks!MidsArrive, Ticks!MidsFail
    <2>2. GoodTick(mids') /\ fetching' \in Int /\ lastFetchAt' \in Int
      <3>1. CASE Ticks!MidsArrive
        <4>1. GoodTick(Ticks!Tick(fetching, now, FALSE)) /\ GoodTick(Ticks!None)
          BY DEF Ticks!Tick
        <4>2. mids' \in {Ticks!Tick(fetching, now, FALSE), Ticks!None}
              /\ fetching' = Ticks!Never /\ lastFetchAt' = now
          BY <3>1 DEF Ticks!MidsArrive
        <4>3. GoodTick(mids')
          BY <4>1, <4>2
        <4>4. fetching' \in Int /\ lastFetchAt' \in Int
          BY <4>2 DEF Ticks!Never
        <4>5. QED
          BY <4>3, <4>4
      <3>2. CASE Ticks!MidsFail
        BY <3>2 DEF Ticks!MidsFail, Ticks!Never
      <3>3. QED
        BY <1>11, <3>1, <3>2
    <2>3. UNCHANGED <<now, bookCache, clientBook, askedAt, readAt, tick>>
      BY <1>11 DEF Ticks!MidsArrive, Ticks!MidsFail
    <2>4. QED
      BY <2>1, <2>2, <2>3
  <1>12. CASE Ticks!TimePasses
    BY <1>12 DEF Ticks!TimePasses, Ticks!Kept, Ticks!Never
  <1>13. CASE UNCHANGED Ticks!tickVars
    BY <1>13 DEF Ticks!tickVars
  <1>14. QED
    BY <1>1, <1>2, <1>3, <1>4, <1>6, <1>7, <1>8, <1>9, <1>10, <1>11, <1>12, <1>13
       DEF Ticks!TickNext, Ticks!ReaderNext

\* A book that passes the checks of the risk engine was taken from the exchange less than the
\* staleness limit, the client's cache and a flight ago, for all values of the three and however
\* long the runtime runs.
THEOREM CheckedBooksAreRecent == Safety => []CheckedBookIsRecent
  <1>1. Ticks!Init => TicksIInv
    BY TicksAssumption DEF Ticks!Init, TicksIInv, Places, GoodTick, Ticks!InFlight, Ticks!Never
  <1>2. TicksIInv => CheckedBookIsRecent
    BY TicksAssumption DEF TicksIInv, GoodTick, Dated, TickValues, CheckedBookIsRecent,
       Ticks!CheckedBookIsRecent, Ticks!PassesChecks, Ticks!Readers
  <1>3. TicksIInv /\ [Ticks!TickNext]_(Ticks!tickVars) => TicksIInv'
    BY TicksStep
  <1>4. QED
    BY <1>1, <1>2, <1>3, TicksRun, PTL DEF Ticks!TickSpec

-------------------------------------------------------------------------------
(* Simulated adapter                                                          *)

\* Every behaviour of the services is one of the simulated adapter, or leaves it at rest.
LEMMA SimRuns == Safety => Sim!Spec
  <1>1. MCInit => Sim!Init
    BY DEF MCInit
  <1>2. [MCNext]_mcVars => [Sim!Next]_(Sim!omsVars)
    BY DEF MCNext, Rest, On, mcVars, simVars, Sim!omsVars
  <1>3. QED
    BY <1>1, <1>2, PTL DEF Safety, Sim!Spec

Order == [status : Sim!OrderStates, side : {1, -1}, target : Nat, notional : Nat, filled : Nat,
          px : Nat]

\* An order in its latency is working or cancelled and has not traded; one that was cancelled
\* in it stays so.
OrdersIInv ==
  /\ orders \in [SimKeys -> Order]
  /\ bookedOf \in [SimKeys -> Nat]
  /\ inLatency \subseteq SimKeys /\ withdrawn \subseteq SimKeys
  /\ \A k \in inLatency : orders[k].status \in {"WORKING", "CANCELLED"} /\ bookedOf[k] = 0
  /\ Sim!CancelledBeforeFillNeverTrades

\* Every step of the adapter keeps it.
LEMMA OrdersStep == OrdersIInv /\ [Sim!Next]_(Sim!omsVars) => OrdersIInv'
  <1> SUFFICES ASSUME OrdersIInv, [Sim!Next]_(Sim!omsVars) PROVE OrdersIInv'
    OBVIOUS
  <1> USE DEF OrdersIInv, Sim!CancelledBeforeFillNeverTrades
  <1>1. CASE Sim!Prune
    BY <1>1 DEF Sim!Prune
  <1>2. ASSUME NEW k \in SimKeys, NEW side \in {1, -1}, NEW qty \in Quantities, NEW px \in Prices,
               Sim!Place(k, side, qty, px)
        PROVE  OrdersIInv'
    <2>1. [status |-> "WORKING", side |-> side, target |-> qty, notional |-> qty * px,
           filled |-> 0, px |-> px] \in Order
      BY OmsAssumption DEF Order, Sim!OrderStates
    <2>2. QED
      BY <1>2, <2>1 DEF Sim!Place
  <1>3. ASSUME NEW k \in SimKeys, NEW qty \in Quantities, Sim!Fill(k, qty) PROVE OrdersIInv'
    <2> DEFINE status == IF qty = orders[k].target THEN "FILLED" ELSE "PARTIALLY_FILLED"
               ok == orders[k].status = "WORKING"
    <2>1. /\ k \in inLatency /\ inLatency' = inLatency \ {k} /\ withdrawn' = withdrawn
          /\ orders' = [orders EXCEPT ![k].filled = qty,
                                      ![k].status = IF ok THEN status ELSE @]
          /\ bookedOf' = IF ok THEN [bookedOf EXCEPT ![k] = @ + 1] ELSE bookedOf
      BY <1>3 DEF Sim!Fill, Sim!mayBecome, Sim!orderTransitions
    <2>2. orders' \in [SimKeys -> Order]
      <3> DEFINE next == IF ok THEN status ELSE orders[k].status
                 o == [orders[k] EXCEPT !.filled = qty, !.status = next]
      <3>1. orders[k] \in Order /\ qty \in Nat /\ next \in Sim!OrderStates
        BY OmsAssumption DEF Order, Sim!OrderStates
      <3>2. orders' = [orders EXCEPT ![k] = o]
        BY <2>1, <3>1 DEF Order
      <3> HIDE DEF next
      <3>3. o \in Order
        BY <3>1 DEF Order
      <3> HIDE DEF o
      <3>4. QED
        BY <3>2, <3>3
    <2>3. /\ orders'[k].status = IF ok THEN status ELSE orders[k].status
          /\ \A l \in SimKeys \ {k} : orders'[l] = orders[l]
      BY <2>1 DEF Order
    <2>4. QED
      BY <2>1, <2>2, <2>3
  <1>4. ASSUME NEW k \in SimKeys, Sim!Cancel(k) PROVE OrdersIInv'
    BY <1>4 DEF Sim!Cancel, Order, Sim!OrderStates
  <1>5. ASSUME NEW k \in SimKeys, NEW notional \in Prices, Sim!Modify(k, notional)
        PROVE  OrdersIInv'
    BY <1>5, OmsAssumption DEF Sim!Modify, Order, Sim!OrderStates
  <1>6. CASE UNCHANGED Sim!omsVars
    BY <1>6 DEF Sim!omsVars
  <1>7. QED
    BY <1>1, <1>2, <1>3, <1>4, <1>5, <1>6 DEF Sim!Next

\* However orders, fills, cancels and forgotten keys are mixed, an order trades at most once
\* and one that was cancelled in its latency never does.
THEOREM CancelledNeverTrades == Safety => []CancelledBeforeFillNeverTrades
  <1>1. Sim!Init => OrdersIInv
    BY DEF Sim!Init, OrdersIInv, Order, Sim!NoOrder, Sim!OrderStates,
           Sim!CancelledBeforeFillNeverTrades
  <1>2. OrdersIInv => CancelledBeforeFillNeverTrades
    BY DEF OrdersIInv, CancelledBeforeFillNeverTrades
  <1>3. QED
    BY <1>1, <1>2, OrdersStep, SimRuns, PTL DEF Sim!Spec

\* The numerators and denominators of the realized profit r/t and of the average entry price a/d
\* of a position q, with the cash c: what a fill f at price p does to the balance of the books.
Balanced(r, t, q, a, d, c) == r * d = (c * d + q * a) * t

\* A fill against the position, as far as it closes it.
LEMMA Reduction ==
  ASSUME NEW r \in Int, NEW t \in Int, NEW q \in Int, NEW a \in Int, NEW d \in Int, NEW c \in Int,
         NEW f \in Int, NEW p \in Int, Balanced(r, t, q, a, d, c)
  PROVE  Balanced(r * d + (p * d - a) * (-f) * t, t * d, q + f, a, d, c - f * p)
  <1> DEFINE x == r * d + (p * d - a) * (-f) * t
  <1>1. r * d = c * d * t + q * a * t
    BY SMTT(30) DEF Balanced
  <1>2. x = (c * d + q * a - p * d * f + a * f) * t
    BY <1>1, SMTT(30)
  <1>3. ((c - f * p) * d + (q + f) * a) = c * d + q * a - p * d * f + a * f
    BY SMTT(30)
  <1>4. x \in Int /\ ((c - f * p) * d + (q + f) * a) \in Int
    BY SMTT(30)
  <1> DEFINE y == (c - f * p) * d + (q + f) * a
  <1>5. x = y * t
    BY <1>2, <1>3
  <1>6. y \in Int
    BY <1>4
  <1> HIDE DEF x, y
  <1>7. x * d = y * (t * d)
    BY <1>5, <1>6, SMTT(30)
  <1>8. QED
    BY <1>7 DEF x, y, Balanced

\* A fill that closes the position and opens the rest on the other side, or nothing.
LEMMA Flip ==
  ASSUME NEW r \in Int, NEW t \in Int, NEW q \in Int, NEW a \in Int, NEW d \in Int, NEW c \in Int,
         NEW f \in Int, NEW p \in Int, Balanced(r, t, q, a, d, c)
  PROVE  Balanced(r * d + (p * d - a) * q * t, t * d, q + f, p, 1, c - f * p)
  <1>1. r * d = c * d * t + q * a * t
    BY SMTT(30) DEF Balanced
  <1>2. r * d + (p * d - a) * q * t = (c + p * q) * (t * d)
    BY <1>1, SMTT(30)
  <1>3. (c - f * p) * 1 + (q + f) * p = c + p * q
    BY SMTT(30)
  <1>4. QED
    BY <1>2, <1>3 DEF Balanced

\* A fill in the direction of the position, which becomes n units of either sign.
LEMMA Growth ==
  ASSUME NEW r \in Int, NEW t \in Int, NEW q \in Int, NEW a \in Int, NEW d \in Int, NEW c \in Int,
         NEW f \in Int, NEW p \in Int, Balanced(r, t, q, a, d, c), NEW sign \in {1, -1}
  PROVE  Balanced(r, t, q + f, sign * q * a + sign * f * p * d, d * (sign * (q + f)), c - f * p)
  <1> DEFINE n == sign * (q + f)
             x == (c - f * p) * (d * n) + (q + f) * (sign * q * a + sign * f * p * d)
  <1>1. x = (c * d + q * a) * n
    BY SMTT(30)
  <1>2. r * (d * n) = (r * d) * n
    BY SMTT(30)
  <1>3. r * d = (c * d + q * a) * t
    BY DEF Balanced
  <1> DEFINE y == c * d + q * a
  <1>4. y \in Int /\ n \in Int /\ x = y * n /\ r * (d * n) = (y * t) * n
    BY <1>1, <1>2, <1>3, SMTT(30)
  <1> HIDE DEF x, y
  <1>5. r * (d * n) = x * t
    BY <1>4, SMTT(30)
  <1>6. QED
    BY <1>5 DEF x, Balanced

Positive == Nat \ {0}
\* The books balance, with denominators that are positive and a flat position that costs nothing.
BooksIInv ==
  /\ position \in [qty : Int, avg : Int \X Positive]
  /\ realized \in Int \X Positive /\ cash \in Int
  /\ position.qty = 0 => position.avg = <<0, 1>>
  /\ Balanced(realized[1], realized[2], position.qty, position.avg[1], position.avg[2], cash)

\* upsertPosition() keeps the books balanced, whatever is filled at whatever price.
LEMMA BookingKeeps ==
  ASSUME BooksIInv, NEW f \in Int, NEW px \in Int, Sim!upsertPosition(f, px)
  PROVE  BooksIInv'
  <1> DEFINE q == position.qty
             a == position.avg[1]
             d == position.avg[2]
             r == realized[1]
             t == realized[2]
             next == q + f
             opposite == q # 0 /\ Sim!Sign(q) # Sim!Sign(f)
             flip == Sim!Sign(next) # Sim!Sign(q)
             closing == Sim!Least(Sim!Abs(q), Sim!Abs(f))
             avg == IF q = 0 \/ flip THEN <<px, 1>>
                    ELSE IF opposite THEN <<a, d>>
                    ELSE <<Sim!Abs(q) * a + Sim!Abs(f) * px * d, d * Sim!Abs(next)>>
  <1>1. /\ q \in Int /\ a \in Int /\ d \in Positive /\ r \in Int /\ t \in Positive /\ cash \in Int
        /\ position.avg = <<a, d>> /\ realized = <<r, t>> /\ (q = 0 => a = 0 /\ d = 1)
        /\ Balanced(r, t, q, a, d, cash)
    BY DEF BooksIInv
  <1>2. /\ cash' = cash - f * px
        /\ realized' = IF opposite
                       THEN <<r * d + (px * d - a) * closing * Sim!Sign(q) * t, t * d>>
                       ELSE <<r, t>>
        /\ next = 0 => position' = [qty |-> 0, avg |-> <<0, 1>>]
        /\ next # 0 => position' = [qty |-> next, avg |-> avg]
    BY <1>1 DEF Sim!upsertPosition, Sim!realizedAfter, Sim!avgAfter, Sim!Opposite
  <1> HIDE DEF q, a, d, r, t
  <1>3. /\ d \in Int /\ t \in Int /\ d > 0 /\ t > 0 /\ f * px \in Int /\ next \in Int
        /\ (cash - f * px) \in Int /\ t * d \in Int /\ t * d > 0
    BY <1>1, SMTT(30) DEF Positive
  <1>4. ASSUME NEW R \in Int, NEW T \in Int, NEW A \in Int, NEW D \in Int, T > 0, D > 0,
               realized' = <<R, T>>, position' = [qty |-> next, avg |-> <<A, D>>],
               next = 0 => A = 0 /\ D = 1, Balanced(R, T, next, A, D, cash - f * px)
        PROVE  BooksIInv'
    BY <1>2, <1>3, <1>4 DEF BooksIInv, Positive
  <1>5. ASSUME NEW R \in Int, NEW T \in Int, T > 0, realized' = <<R, T>>, next # 0 => avg = <<px, 1>>,
               Balanced(R, T, next, px, 1, cash - f * px)
        PROVE  BooksIInv'
    <2>1. CASE next = 0
      <3>1. Balanced(R, T, next, 0, 1, cash - f * px)
        BY <1>3, <1>5, <2>1 DEF Balanced
      <3>2. QED
        BY <1>2, <1>4, <1>5, <2>1, <3>1
    <2>2. CASE next # 0
      BY <1>2, <1>4, <1>5, <2>2
    <2>3. QED
      BY <2>1, <2>2
  <1>6. Balanced(r * d + (px * d - a) * q * t, t * d, next, px, 1, cash - f * px)
    BY <1>1, <1>3, Flip
  <1>7. CASE q = 0
    <2>1. r * d + (px * d - a) * q * t = r /\ t * d = t
      BY <1>1, <1>3, <1>7, SMTT(30)
    <2>2. QED
      BY <1>1, <1>2, <1>3, <1>5, <1>6, <1>7, <2>1
  <1>8. CASE q # 0 /\ ~opposite
    <2> DEFINE sign == Sim!Sign(q)
               A == sign * q * a + sign * f * px * d
               D == d * (sign * next)
    <2>1. /\ next # 0 /\ ~flip /\ sign \in {1, -1} /\ sign * next > 0
          /\ Sim!Abs(q) = sign * q /\ Sim!Abs(f) = sign * f /\ Sim!Abs(next) = sign * next
      BY <1>1, <1>8 DEF Sim!Sign, Sim!Abs
    <2>2. Balanced(r, t, next, A, D, cash - f * px)
      BY <1>1, <1>3, <2>1, Growth
    <2>3. realized' = <<r, t>> /\ position' = [qty |-> next, avg |-> <<A, D>>]
      BY <1>2, <1>8, <2>1
    <2>4. sign * next \in Int /\ sign \in Int
      BY <1>3, <2>1
    <2>5. A \in Int
      <3> HIDE DEF sign
      <3>1. QED
        BY <1>1, <1>3, <2>4, SMTT(30)
    <2>6. D \in Int /\ D > 0
      <3> DEFINE n == sign * next
      <3>1. n \in Int /\ n > 0
        BY <2>1, <2>4
      <3> HIDE DEF n
      <3>2. d * n \in Int /\ d * n > 0
        BY <1>3, <3>1, SMTT(30)
      <3>3. QED
        BY <3>2 DEF n
    <2> HIDE DEF A, D
    <2>7. QED
      BY <1>1, <1>3, <1>4, <2>1, <2>2, <2>3, <2>5, <2>6
  <1>9. CASE opposite
    <2> DEFINE signed == closing * Sim!Sign(q)
               R == r * d + (px * d - a) * closing * Sim!Sign(q) * t
    <2>1. closing \in Int /\ Sim!Sign(q) \in Int
      BY <1>1 DEF Sim!Least, Sim!Abs, Sim!Sign
    <2>2. R = r * d + (px * d - a) * signed * t
      <3> DEFINE c == closing
                 g == Sim!Sign(q)
      <3> HIDE DEF c, g
      <3>1. (px * d - a) * c * g * t = (px * d - a) * (c * g) * t
        BY <1>1, <1>3, <2>1, SMTT(30) DEF c, g
      <3>2. QED
        BY <3>1 DEF c, g
    <2>3. realized' = <<R, t * d>>
      BY <1>2, <1>9
    <2>4. CASE ~flip
      <3>1. signed = -f /\ next # 0
        BY <1>1, <1>9, <2>4 DEF Sim!Least, Sim!Abs, Sim!Sign
      <3>2. R = r * d + (px * d - a) * (-f) * t
        BY <2>2, <3>1
      <3> HIDE DEF R
      <3>3. Balanced(R, t * d, next, a, d, cash - f * px)
        BY <1>1, <1>3, <3>2, Reduction
      <3>4. R \in Int
        BY <1>1, <1>3, <3>2, SMTT(30)
      <3>5. position' = [qty |-> next, avg |-> <<a, d>>]
        BY <1>2, <1>9, <2>4, <3>1
      <3>6. QED
        BY <1>1, <1>3, <1>4, <2>3, <3>1, <3>3, <3>4, <3>5
    <2>5. CASE flip
      <3>1. signed = q
        BY <1>1, <1>9, <2>5 DEF Sim!Least, Sim!Abs, Sim!Sign
      <3>2. R = r * d + (px * d - a) * q * t
        BY <2>2, <3>1
      <3> HIDE DEF R
      <3>3. R \in Int
        BY <1>1, <1>3, <3>2, SMTT(30)
      <3>4. QED
        BY <1>3, <1>5, <1>6, <2>3, <2>5, <3>2, <3>3
    <2>6. QED
      BY <2>4, <2>5
  <1>10. QED
    BY <1>7, <1>8, <1>9

\* Every step of the adapter keeps the books balanced.
LEMMA BooksStep == OrdersIInv /\ BooksIInv /\ [Sim!Next]_(Sim!omsVars) => BooksIInv'
  <1> SUFFICES ASSUME OrdersIInv, BooksIInv, [Sim!Next]_(Sim!omsVars) PROVE BooksIInv'
    OBVIOUS
  <1>1. ASSUME UNCHANGED <<position, realized, cash>> PROVE BooksIInv'
    BY <1>1 DEF BooksIInv
  <1>2. ASSUME NEW k \in SimKeys, NEW qty \in Quantities, Sim!Fill(k, qty) PROVE BooksIInv'
    <2>1. orders[k].side * qty \in Int /\ orders[k].px \in Int
      BY OmsAssumption DEF OrdersIInv, Order
    <2>2. QED
      BY <1>1, <1>2, <2>1, BookingKeeps DEF Sim!Fill
  <1>3. QED
    BY <1>1, <1>2 DEF Sim!Next, Sim!Prune, Sim!Place, Sim!Cancel, Sim!Modify, Sim!omsVars

\* Through adds, reductions, flips and closes in any order and at any price, the realized profit
\* and what the open position cost account for every cent paid and received.
THEOREM BooksAlwaysBalance == Safety => []BooksBalance
  <1>1. Sim!Init => OrdersIInv /\ BooksIInv
    BY DEF Sim!Init, OrdersIInv, Order, Sim!NoOrder, Sim!OrderStates,
           Sim!CancelledBeforeFillNeverTrades, BooksIInv, Balanced, Positive
  <1>2. BooksIInv => BooksBalance
    BY DEF BooksIInv, Balanced, Positive, BooksBalance, Sim!BooksBalance, Sim!EqualFractions
  <1>3. QED
    BY <1>1, <1>2, OrdersStep, BooksStep, SimRuns, PTL DEF Sim!Spec

-------------------------------------------------------------------------------
(* Live adapter                                                               *)

\* Every behaviour of the services is one of the live adapter, or leaves it at rest.
LEMMA LiveRuns == Safety => Live!Init /\ [][Live!Next]_(Live!liveVars)
  <1>1. MCInit => Live!Init
    BY DEF MCInit
  <1>2. [MCNext]_mcVars => [Live!Next]_(Live!liveVars)
    BY DEF MCNext, Rest, On, mcVars, liveVars, Live!liveVars, Live!exchVars, Live!callVars,
           Live!staleVars
  <1>3. QED
    BY <1>1, <1>2, PTL DEF Safety

\* What is on its way is not at the exchange; while the request of a key is awaited, all of its
\* orders there came too late; and one of them at most did not.
LiveIInv ==
  /\ exch \in [Live!Oids -> {"none", "open", "old", "filled", "canceled"}]
  /\ DOMAIN call = OrderKeys /\ DOMAIN told = OrderKeys
  /\ \A o \in flying \cap Live!Oids : exch[o] = "none"
  /\ \A k \in OrderKeys :
       /\ call[k] = "sent" => Live!OrdersOf(k) \subseteq late
       /\ call[k] = "filled" => \E o \in Live!OrdersOf(k) : exch[o] = "filled"
       /\ told[k] = "FILLED" => \E o \in Live!OrdersOf(k) : exch[o] = "filled"
       /\ \A o, p \in Live!OrdersOf(k) \ late : o = p

\* Every step of the adapter, the exchange and the process keeps it.
LEMMA LiveStep == LiveIInv /\ [Live!Next]_(Live!liveVars) => LiveIInv'
  <1> SUFFICES ASSUME LiveIInv, [Live!Next]_(Live!liveVars) PROVE LiveIInv'
    OBVIOUS
  <1> USE DEF LiveIInv, Live!OrdersOf, Live!exchVars, Live!callVars, Live!staleVars
  <1>1. CASE Live!Reconcile
    BY <1>1 DEF Live!Reconcile
  <1>2. CASE Live!Crash
    BY <1>2 DEF Live!Crash
  <1>3. ASSUME NEW k \in OrderKeys, Live!Place(k) PROVE LiveIInv'
    BY <1>3 DEF Live!Place
  <1>4. ASSUME NEW k \in OrderKeys, Live!Lookup(k) PROVE LiveIInv'
    BY <1>4 DEF Live!Lookup, Live!Return, Live!mapOrderStatus, Live!ThisOrder
  <1>5. ASSUME NEW k \in OrderKeys, Live!LookupLost(k) PROVE LiveIInv'
    BY <1>5 DEF Live!LookupLost, Live!Return
  <1>6. ASSUME NEW k \in OrderKeys, Live!Answer(k) PROVE LiveIInv'
    BY <1>6 DEF Live!Answer, Live!Return
  <1>7. ASSUME NEW k \in OrderKeys, Live!AnswerUnclear(k) PROVE LiveIInv'
    BY <1>7 DEF Live!AnswerUnclear
  <1>8. ASSUME NEW k \in OrderKeys, Live!AnswerLost(k) PROVE LiveIInv'
    BY <1>8 DEF Live!AnswerLost, Live!Return
  <1>9. ASSUME NEW k \in OrderKeys, Live!CancelResting(k) PROVE LiveIInv'
    BY <1>9 DEF Live!CancelResting, Live!Return, Live!Resting
  <1>10. ASSUME NEW o \in Live!Oids, Live!Land(o) PROVE LiveIInv'
    BY <1>10 DEF Live!Land, Live!ThisOrder, Live!Oids
  <1>11. ASSUME NEW o \in Live!Oids, Live!CancelLookup(o) \/ Live!CancelLost(o) PROVE LiveIInv'
    BY <1>11 DEF Live!CancelLookup, Live!CancelLost
  <1>12. ASSUME NEW o \in Live!Oids, Live!CancelSend(o) PROVE LiveIInv'
    BY <1>12 DEF Live!CancelSend, Live!Resting
  <1>13. ASSUME NEW o \in Live!Oids, Live!RestingOrderTrades(o) \/ Live!OrderAges(o) PROVE LiveIInv'
    BY <1>13 DEF Live!RestingOrderTrades, Live!OrderAges, Live!Resting
  <1>14. CASE UNCHANGED Live!liveVars
    BY <1>14 DEF Live!liveVars
  <1>15. QED
    BY <1>1, <1>2, <1>3, <1>4, <1>5, <1>6, <1>7, <1>8, <1>9, <1>10, <1>11, <1>12, <1>13, <1>14
    DEF Live!Next

\* A key trades once at most, however often it is asked for, through lost answers, crashes and
\* retries; only a request that lands after its call gave up adds another.
THEOREM KeysTradeOnce == Safety => []TradesOncePerKey
  <1>1. Live!Init => LiveIInv
    BY DEF Live!Init, LiveIInv, Live!OrdersOf
  <1>2. LiveIInv => TradesOncePerKey
    <2> SUFFICES ASSUME LiveIInv, NEW k \in OrderKeys
                 PROVE  LET filled == {o \in Live!OrdersOf(k) : exch[o] = "filled"}
                        IN  /\ Live!Cardinality(filled \ late) <= 1
                            /\ told[k] = "FILLED" => filled # {}
      BY DEF TradesOncePerKey, Live!TradesOncePerKey
    <2> DEFINE filled == {o \in Live!OrdersOf(k) : exch[o] = "filled"}
    <2>1. told[k] = "FILLED" => filled # {}
      BY DEF LiveIInv
    <2>2. \A o, p \in filled \ late : o = p
      BY DEF LiveIInv
    <2> HIDE DEF filled
    <2>3. filled \ late = {} \/ \E o \in filled : filled \ late = {o}
      BY <2>2
    <2>4. Cardinality(filled \ late) \in {0, 1}
      BY <2>3, FS_EmptySet, FS_Singleton
    <2>5. \A S : Live!Cardinality(S) = Cardinality(S)
      BY DEF Live!Cardinality, Cardinality
    <2>6. QED
      BY <2>1, <2>4, <2>5 DEF filled
  <1>3. QED
    BY <1>1, <1>2, LiveStep, LiveRuns, PTL

-------------------------------------------------------------------------------
(* Exchange client                                                            *)

\* Every behaviour of the services is one of the client, or leaves it at rest.
LEMMA ClientRuns == Safety => Hl!Init /\ [][Hl!Next]_(Hl!hlVars)
  <1>1. MCInit => Hl!Init
    BY DEF MCInit
  <1>2. [MCNext]_mcVars => [Hl!Next]_(Hl!hlVars)
    BY DEF MCNext, Rest, On, mcVars, hlVars, Hl!hlVars, Hl!bucketVars, Hl!requestVars
  <1>3. QED
    BY <1>1, <1>2, PTL DEF Safety

\* The queue: who waits in it waits there once.
Once(q) == \A i, j \in 1..Len(q) : q[i] = q[j] => i = j

\* What is left of a queue after its first n.
LEMMA AfterFirst ==
  ASSUME NEW S, NEW q \in Seq(S), Once(q), NEW n \in 0..Len(q)
  PROVE  /\ Hl!After(q, n) \in Seq(S) /\ Once(Hl!After(q, n))
         /\ Hl!Range(SubSeq(q, 1, n)) = {q[i] : i \in 1..n}
         /\ Hl!Range(Hl!After(q, n)) = {q[i] : i \in (n + 1)..Len(q)}
  <1>1. Len(q) \in Nat
    BY LenProperties
  <1> DEFINE rest == Hl!After(q, n)
  <1>2. /\ rest \in Seq(S) /\ Len(rest) = Len(q) - n
        /\ \A i \in 1..Len(q) - n : rest[i] = q[n + i]
    BY <1>1, SubSeqProperties DEF Hl!After
  <1>3. /\ Len(SubSeq(q, 1, n)) = n /\ \A i \in 1..n : SubSeq(q, 1, n)[i] = q[i]
    BY <1>1, SubSeqProperties
  <1> HIDE DEF rest
  <1>4. Once(rest)
    BY <1>1, <1>2 DEF Once
  <1>5. Hl!Range(rest) \subseteq {q[i] : i \in (n + 1)..Len(q)}
    BY <1>1, <1>2 DEF Hl!Range
  <1>6. ASSUME NEW i \in (n + 1)..Len(q) PROVE q[i] \in Hl!Range(rest)
    <2>1. i - n \in 1..Len(rest) /\ rest[i - n] = q[i]
      BY <1>1, <1>2
    <2>2. QED
      BY <2>1 DEF Hl!Range
  <1>7. Hl!Range(SubSeq(q, 1, n)) = {q[i] : i \in 1..n}
    BY <1>3 DEF Hl!Range
  <1>8. QED
    BY <1>2, <1>4, <1>5, <1>6, <1>7 DEF rest

\* A queue without the one at i.
LEMMA Without ==
  ASSUME NEW S, NEW q \in Seq(S), Once(q), NEW i \in 1..Len(q)
  PROVE  LET r == SubSeq(q, 1, i - 1) \o Hl!After(q, i)
         IN  r \in Seq(S) /\ Once(r) /\ Hl!Range(r) = Hl!Range(q) \ {q[i]}
  <1> DEFINE before == SubSeq(q, 1, i - 1)
             after == Hl!After(q, i)
             r == before \o after
  <1>1. Len(q) \in Nat
    BY LenProperties
  <1>2. before \in Seq(S) /\ Len(before) = i - 1 /\ \A j \in 1..(i - 1) : before[j] = q[j]
    BY <1>1, SubSeqProperties
  <1>3. after \in Seq(S) /\ Len(after) = Len(q) - i /\ \A j \in 1..(Len(q) - i) : after[j] = q[i + j]
    BY <1>1, SubSeqProperties DEF Hl!After
  <1> HIDE DEF before, after
  <1>4. /\ r \in Seq(S) /\ Len(r) = Len(q) - 1
        /\ \A j \in 1..(Len(q) - 1) : r[j] = IF j < i THEN before[j] ELSE after[j - (i - 1)]
    <2>1. /\ r \in Seq(S) /\ Len(r) = Len(before) + Len(after)
          /\ \A j \in 1..(Len(before) + Len(after)) :
               r[j] = IF j <= Len(before) THEN before[j] ELSE after[j - Len(before)]
      BY <1>2, <1>3, ConcatProperties
    <2> HIDE DEF r
    <2>2. Len(before) + Len(after) = Len(q) - 1 /\ i - 1 \in Int
      BY <1>1, <1>2, <1>3
    <2>3. QED
      BY <1>1, <1>2, <2>1, <2>2
  <1> HIDE DEF r
  <1>5. \A j \in 1..(Len(q) - 1) : r[j] = IF j < i THEN q[j] ELSE q[j + 1]
    <2> SUFFICES ASSUME NEW j \in 1..(Len(q) - 1) PROVE r[j] = IF j < i THEN q[j] ELSE q[j + 1]
      OBVIOUS
    <2>1. CASE j < i
      BY <1>1, <1>2, <1>4, <2>1
    <2>2. CASE j >= i
      <3>1. j - (i - 1) \in 1..(Len(q) - i) /\ i + (j - (i - 1)) = j + 1
        BY <1>1, <2>2
      <3>2. QED
        BY <1>1, <1>3, <1>4, <2>2, <3>1
    <2>3. QED
      BY <1>1, <2>1, <2>2
  <1>6. Once(r)
    <2> SUFFICES ASSUME NEW j \in 1..Len(r), NEW k \in 1..Len(r), r[j] = r[k] PROVE j = k
      BY DEF Once
    <2> DEFINE old(m) == IF m < i THEN m ELSE m + 1
    <2>1. \A m \in 1..Len(r) : old(m) \in 1..Len(q) /\ r[m] = q[old(m)]
      BY <1>1, <1>4, <1>5
    <2>2. old(j) = old(k)
      BY <2>1 DEF Once
    <2>3. QED
      BY <2>2
  <1>7. Hl!Range(r) \subseteq Hl!Range(q) \ {q[i]}
    BY <1>1, <1>4, <1>5 DEF Hl!Range, Once
  <1>8. ASSUME NEW j \in 1..Len(q), j # i PROVE q[j] \in Hl!Range(r)
    <2>1. CASE j < i
      BY <1>1, <1>4, <1>5, <2>1 DEF Hl!Range
    <2>2. CASE j > i
      <3>1. j - 1 \in 1..Len(r) /\ r[j - 1] = q[j]
        BY <1>1, <1>4, <1>5, <2>2
      <3>2. QED
        BY <3>1 DEF Hl!Range
    <2>3. QED
      BY <1>1, <1>8, <2>1, <2>2
  <1>9. Hl!Range(q) \ {q[i]} \subseteq Hl!Range(r)
    BY <1>8 DEF Hl!Range
  <1>10. QED
    BY <1>4, <1>6, <1>7, <1>9 DEF r, before, after

\* A queue with one more.
LEMMA WithOne ==
  ASSUME NEW S, NEW q \in Seq(S), Once(q), NEW c \in S, c \notin Hl!Range(q)
  PROVE  /\ Append(q, c) \in Seq(S) /\ Once(Append(q, c))
         /\ Hl!Range(Append(q, c)) = Hl!Range(q) \cup {c}
  <1> DEFINE r == Append(q, c)
  <1>1. /\ Len(q) \in Nat /\ r \in Seq(S) /\ Len(r) = Len(q) + 1 /\ r[Len(q) + 1] = c
        /\ \A j \in 1..Len(q) : r[j] = q[j]
    BY LenProperties, AppendProperties
  <1> HIDE DEF r
  <1>2. Once(r)
    BY <1>1 DEF Once, Hl!Range
  <1>3. Hl!Range(r) = Hl!Range(q) \cup {c}
    <2>1. Hl!Range(r) \subseteq Hl!Range(q) \cup {c}
      BY <1>1 DEF Hl!Range
    <2>2. \A j \in 1..Len(q) : j \in 1..Len(r) /\ r[j] = q[j]
      BY <1>1
    <2>3. Len(q) + 1 \in 1..Len(r)
      BY <1>1
    <2>4. QED
      BY <1>1, <2>1, <2>2, <2>3 DEF Hl!Range
  <1>4. QED
    BY <1>1, <1>2, <1>3 DEF r

States == {"idle", "limited", "sent", "backoff", "shared"}
\* Who waits for a token is in the queue once; a read that is queued or on its way is the one
\* that is shared, and there is none while its answer is cached.
ClientIInv ==
  /\ tokens \in Nat /\ queue \in Seq(Callers) /\ Once(queue)
  /\ request \in [Callers -> States] /\ kind \in [Callers -> Hl!Kinds]
  /\ DOMAIN cached = {"read", "post"}
  /\ Hl!Range(queue) = {c \in Callers : request[c] = "limited"}
  /\ inflight = {c \in Callers : kind[c] = "read" /\ request[c] \in {"limited", "sent"}}
  /\ \A c, d \in inflight : c = d
  /\ \A c \in Callers : request[c] = "backoff" => kind[c] = "post"
  /\ cached.read # 0 => inflight = {}

\* Handing tokens to those who wait keeps the invariant.
LEMMA DrainKeeps ==
  ASSUME ClientIInv, NEW t \in Nat, NEW isReady, Hl!Drain(t, isReady),
         UNCHANGED <<kind, inflight, cached>>
  PROVE  ClientIInv'
  <1> DEFINE n == IF isReady THEN Hl!Smaller(Len(queue), t \div Cost) ELSE 0
             woken == Hl!Range(SubSeq(queue, 1, n))
  <1>1. /\ tokens' = t - n * Cost /\ queue' = Hl!After(queue, n)
        /\ request' = [c \in Callers |-> IF c \in woken THEN "sent" ELSE request[c]]
    BY DEF Hl!Drain
  <1>2. Len(queue) \in Nat
    BY LenProperties DEF ClientIInv
  <1>3. n \in 0..Len(queue) /\ tokens' \in Nat
    <2> DEFINE m == t \div Cost
    <2>1. m \in Nat /\ m * Cost <= t
      BY ClientAssumption, SMTT(30)
    <2> HIDE DEF m
    <2>2. n \in 0..Len(queue) /\ n \in Nat /\ n <= m
      BY <1>2, <2>1 DEF Hl!Smaller, m
    <2> HIDE DEF n
    <2>3. n * Cost <= m * Cost /\ n * Cost \in Nat
      BY <2>1, <2>2, ClientAssumption, SMTT(30)
    <2>4. m * Cost \in Nat
      BY <2>1, ClientAssumption, SMTT(30)
    <2>5. QED
      BY <1>1, <2>1, <2>2, <2>3, <2>4
  <1> HIDE DEF n
  <1>4. /\ queue' \in Seq(Callers) /\ Once(queue')
        /\ woken = {queue[i] : i \in 1..n}
        /\ Hl!Range(queue') = {queue[i] : i \in (n + 1)..Len(queue)}
    BY <1>1, <1>3, AfterFirst DEF ClientIInv
  <1> HIDE DEF woken
  <1>5. /\ Hl!Range(queue) = woken \cup Hl!Range(queue')
        /\ \A c \in woken : c \notin Hl!Range(queue')
    <2> DEFINE rest == Hl!Range(queue')
    <2>1. Hl!Range(queue) = {queue[i] : i \in 1..Len(queue)} /\ Once(queue)
      BY DEF ClientIInv, Hl!Range
    <2>2. rest = {queue[i] : i \in (n + 1)..Len(queue)}
      BY <1>4
    <2> HIDE DEF rest
    <2>3. Hl!Range(queue) \subseteq woken \cup rest
      <3>1. \A i \in 1..Len(queue) : i \in 1..n \/ i \in (n + 1)..Len(queue)
        BY <1>2, <1>3
      <3>2. QED
        BY <1>4, <2>1, <2>2, <3>1
    <2>4. (1..n) \subseteq 1..Len(queue) /\ ((n + 1)..Len(queue)) \subseteq 1..Len(queue)
      BY <1>2, <1>3
    <2>5. woken \cup rest \subseteq Hl!Range(queue)
      BY <1>4, <2>1, <2>2, <2>4
    <2>6. \A c \in woken : c \notin rest
      <3>1. \A i \in 1..n, j \in (n + 1)..Len(queue) : i # j
        BY <1>2, <1>3
      <3>2. QED
        BY <1>4, <2>1, <2>2, <2>4, <3>1 DEF Once
    <2>7. QED
      BY <2>3, <2>5, <2>6 DEF rest
  <1>6. \A c \in Callers : /\ c \in woken => request[c] = "limited" /\ request'[c] = "sent"
                           /\ c \notin woken => request'[c] = request[c]
    BY <1>1, <1>5 DEF ClientIInv
  <1>7. request' \in [Callers -> States] /\ Hl!Range(queue') \subseteq Callers
    BY <1>1, <1>5 DEF ClientIInv, States
  <1>8. Hl!Range(queue') = {c \in Callers : request'[c] = "limited"}
    BY <1>5, <1>6, <1>7 DEF ClientIInv
  <1>9. inflight = {c \in Callers : kind[c] = "read" /\ request'[c] \in {"limited", "sent"}}
    BY <1>6 DEF ClientIInv
  <1>10. \A c \in Callers : request'[c] = "backoff" => kind[c] = "post"
    BY <1>6 DEF ClientIInv
  <1>11. QED
    BY <1>3, <1>4, <1>7, <1>8, <1>9, <1>10 DEF ClientIInv

\* A caller who is not waiting asks for a token.
LEMMA AcquireEffect ==
  ASSUME ClientIInv, NEW c \in Callers, request[c] \in {"idle", "backoff"}, Hl!Acquire(c)
  PROVE  /\ tokens' \in Nat /\ queue' \in Seq(Callers) /\ Once(queue')
         /\ request' \in [Callers -> States] /\ request'[c] \in {"limited", "sent"}
         /\ \A d \in Callers \ {c} : request'[d] = request[d]
         /\ Hl!Range(queue') = {d \in Callers : request'[d] = "limited"}
  <1>1. CASE ready /\ tokens >= Cost
    <2>1. tokens' = tokens - Cost /\ queue' = queue /\ request' = [request EXCEPT ![c] = "sent"]
      BY <1>1 DEF Hl!Acquire
    <2>2. tokens' \in Nat
      BY <1>1, <2>1, ClientAssumption DEF ClientIInv
    <2>3. QED
      BY <2>1, <2>2 DEF ClientIInv, States
  <1>2. CASE ~(ready /\ tokens >= Cost)
    <2>1. /\ tokens' = tokens /\ queue' = Append(queue, c)
          /\ request' = [request EXCEPT ![c] = "limited"]
      BY <1>2 DEF Hl!Acquire
    <2>2. c \notin Hl!Range(queue)
      BY DEF ClientIInv
    <2>3. /\ queue' \in Seq(Callers) /\ Once(queue')
          /\ Hl!Range(queue') = Hl!Range(queue) \cup {c}
      BY <2>1, <2>2, WithOne DEF ClientIInv
    <2>4. QED
      BY <2>1, <2>3 DEF ClientIInv, States
  <1>3. QED
    BY <1>1, <1>2

\* A request that was sent, or whose wait is over, ends.
LEMMA FinishKeeps ==
  ASSUME ClientIInv, NEW c \in Callers, Hl!Finish(c), tokens' = tokens,
         queue' \in Seq(Callers), Once(queue'), Hl!Range(queue') = Hl!Range(queue) \ {c},
         DOMAIN cached' = {"read", "post"},
         cached'.read # 0 => cached.read # 0 \/ (kind[c] = "read" /\ request[c] = "sent")
  PROVE  ClientIInv'
  <1> DEFINE all == IF kind[c] = "read" /\ c \in inflight THEN {c} \cup Hl!Sharing ELSE {c}
  <1>1. /\ request' = [d \in Callers |-> IF d \in all THEN "idle" ELSE request[d]]
        /\ inflight' = inflight \ {c} /\ kind' = kind
    BY DEF Hl!Finish
  <1>2. request' \in [Callers -> States]
    BY <1>1 DEF ClientIInv, States
  <1>3. \A d \in Callers : /\ request'[d] = "idle" \/ (request'[d] = request[d] /\ d # c)
                           /\ d # c /\ request[d] # "shared" => request'[d] = request[d]
    BY <1>1 DEF Hl!Sharing
  <1>4. request'[c] = "idle"
    BY <1>1
  <1>5. QED
    BY <1>1, <1>2, <1>3, <1>4 DEF ClientIInv

\* Every step of the client keeps the invariant.
LEMMA ClientStep == ClientIInv /\ [Hl!Next]_(Hl!hlVars) => ClientIInv'
  <1> SUFFICES ASSUME ClientIInv, [Hl!Next]_(Hl!hlVars) PROVE ClientIInv'
    OBVIOUS
  <1> USE DEF Hl!requestVars, Hl!bucketVars
  <1>1. CASE Hl!Refill
    <2>1. Hl!Smaller(Capacity, tokens + 1) \in Nat
      BY ClientAssumption DEF Hl!Smaller, ClientIInv
    <2>2. QED
      BY <1>1, <2>1, DrainKeeps DEF Hl!Refill
  <1>2. CASE Hl!StartupOver
    <2>1. tokens \in Nat
      BY DEF ClientIInv
    <2>2. QED
      BY <1>2, <2>1, DrainKeeps DEF Hl!StartupOver
  <1>3. CASE Hl!TryAcquire
    <2>1. tokens' \in Nat /\ UNCHANGED <<queue, request, kind, inflight, cached>>
      BY <1>3, ClientAssumption DEF Hl!TryAcquire, ClientIInv
    <2>2. QED
      BY <2>1 DEF ClientIInv
  <1>4. ASSUME NEW c \in Callers, NEW k \in Hl!Kinds, Hl!Ask(c, k) PROVE ClientIInv'
    <2>1. /\ request[c] = "idle" /\ kind' = [kind EXCEPT ![c] = k] /\ cached' = cached
          /\ k \in {"read", "post"} => cached[k] = 0
      BY <1>4 DEF Hl!Ask
    <2>2. CASE k = "read" /\ inflight # {}
      <3>1. request' = [request EXCEPT ![c] = "shared"] /\ UNCHANGED <<tokens, queue, inflight>>
        BY <1>4, <2>2 DEF Hl!Ask, Hl!shares
      <3>2. QED
        BY <2>1, <2>2, <3>1 DEF ClientIInv, States
    <2>3. CASE ~(k = "read" /\ inflight # {})
      <3>1. Hl!Acquire(c) /\ inflight' = IF k = "read" THEN {c} ELSE inflight
        BY <1>4, <2>3 DEF Hl!Ask, Hl!shares
      <3>2. QED
        BY <2>1, <2>3, <3>1, AcquireEffect DEF ClientIInv
    <2>4. QED
      BY <2>2, <2>3
  <1>5. ASSUME NEW c \in Callers, Hl!Answer(c) PROVE ClientIInv'
    <2>1. /\ request[c] = "sent" /\ Hl!Finish(c) /\ tokens' = tokens /\ queue' = queue
          /\ \/ cached' = cached
             \/ kind[c] # "order" /\ \E v : cached' = [cached EXCEPT ![kind[c]] = v]
      BY <1>5 DEF Hl!Answer
    <2>2. /\ DOMAIN cached' = {"read", "post"}
          /\ cached'.read # 0 => cached.read # 0 \/ kind[c] = "read"
      BY <2>1 DEF ClientIInv, Hl!Kinds
    <2>3. QED
      BY <2>1, <2>2, FinishKeeps DEF ClientIInv
  <1>6. ASSUME NEW c \in Callers, Hl!Fail(c) PROVE ClientIInv'
    BY <1>6, FinishKeeps DEF Hl!Fail, ClientIInv
  <1>7. ASSUME NEW c \in Callers, Hl!TooMany(c) PROVE ClientIInv'
    BY <1>7 DEF Hl!TooMany, ClientIInv, States
  <1>8. ASSUME NEW c \in Callers, Hl!AskAgain(c) PROVE ClientIInv'
    <2>1. CASE destroyed
      BY <1>8, <2>1, FinishKeeps DEF Hl!AskAgain, ClientIInv
    <2>2. CASE ~destroyed
      <3>1. request[c] = "backoff" /\ Hl!Acquire(c) /\ UNCHANGED <<kind, inflight, cached>>
        BY <1>8, <2>2 DEF Hl!AskAgain
      <3>2. QED
        BY <3>1, AcquireEffect DEF ClientIInv
    <2>3. QED
      BY <2>1, <2>2
  <1>9. ASSUME NEW c \in Callers, Hl!Abort(c) PROVE ClientIInv'
    <2>1. /\ Hl!Finish(c) /\ tokens' = tokens /\ cached' = cached
      BY <1>9 DEF Hl!Abort
    <2>2. PICK i \in 1..Len(queue) :
            queue[i] = c /\ queue' = SubSeq(queue, 1, i - 1) \o Hl!After(queue, i)
      BY <1>9 DEF Hl!Abort
    <2>3. /\ queue' \in Seq(Callers) /\ Once(queue')
          /\ Hl!Range(queue') = Hl!Range(queue) \ {c}
      BY <2>2, Without DEF ClientIInv
    <2>4. QED
      BY <2>1, <2>3, FinishKeeps DEF ClientIInv
  <1>10. CASE Hl!Destroy
    <2> DEFINE waiting == Hl!Range(queue)
               failed == IF inflight \cap waiting # {} THEN waiting \cup Hl!Sharing ELSE waiting
    <2>1. /\ queue' = <<>> /\ UNCHANGED <<tokens, kind>> /\ cached' = [read |-> 0, post |-> 0]
          /\ request' = [c \in Callers |-> IF c \in failed THEN "idle" ELSE request[c]]
          /\ inflight' = {c \in inflight : request[c] = "sent"}
      BY <1>10 DEF Hl!Destroy, Hl!rejectedByDestroy
    <2>2. queue' \in Seq(Callers) /\ Once(queue') /\ Hl!Range(queue') = {}
      BY <2>1, EmptySeq DEF Once, Hl!Range
    <2>3. \A c \in Callers : /\ request[c] = "limited" => request'[c] = "idle"
                             /\ request'[c] \in {"idle", request[c]}
                             /\ request[c] \in {"sent", "backoff"} => request'[c] = request[c]
      BY <2>1 DEF ClientIInv, Hl!Sharing
    <2>4. request' \in [Callers -> States]
      BY <2>1 DEF ClientIInv, States
    <2>5. QED
      BY <2>1, <2>2, <2>3, <2>4 DEF ClientIInv
  <1>11. CASE Hl!CacheExpires
    BY <1>11 DEF Hl!CacheExpires, ClientIInv
  <1>12. CASE Hl!WorldMoves
    BY <1>12 DEF Hl!WorldMoves, ClientIInv
  <1>13. CASE UNCHANGED Hl!hlVars
    BY <1>13 DEF Hl!hlVars, ClientIInv
  <1>14. QED
    BY <1>1, <1>2, <1>3, <1>4, <1>5, <1>6, <1>7, <1>8, <1>9, <1>10, <1>11, <1>12, <1>13
    DEF Hl!Next

\* However many callers ask, share, retry and give up, an answer that was asked for before the
\* cached one was read cannot replace it.
THEOREM ReadsGoForward == Safety => ReadNeverGoesBack
  <1>1. Hl!Init => ClientIInv
    <2> SUFFICES ASSUME Hl!Init PROVE ClientIInv
      OBVIOUS
    <2>1. queue \in Seq(Callers) /\ Once(queue) /\ Hl!Range(queue) = {}
      BY EmptySeq DEF Hl!Init, Once, Hl!Range
    <2>2. QED
      BY <2>1, ClientAssumption DEF Hl!Init, ClientIInv, States, Hl!Kinds
  <1>2. ClientIInv' =>
          (cached'.read # 0 => \A c \in Callers :
             request'[c] = "sent" /\ kind'[c] = "read" => since'[c] >= cached'.read)
    BY DEF ClientIInv
  <1>3. QED
    BY <1>1, <1>2, ClientStep, ClientRuns, PTL DEF ReadNeverGoesBack, Hl!ReadNeverGoesBack
==================================================================================
