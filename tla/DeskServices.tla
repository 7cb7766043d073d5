----------------------------- MODULE DeskServices -----------------------------
(***************************************************************************)
(* The services around the trading desk, each by itself.  A behaviour is   *)
(* one of one service, the one that "service" names; the variables of the  *)
(* others keep the value they have at rest.  The instances "agent",        *)
(* "faulty" and "boot" are all the agent runner: the pipeline with         *)
(* denials, the pipeline with publications that throw and a desk that      *)
(* changes its mode, and the journal with several symbols.  What the       *)
(* constants of a service mean, its module says.                           *)
(***************************************************************************)
EXTENDS Integers, Sequences, FiniteSets

CONSTANTS
  Services, \* those that behaviours are about
  \* EventBus
  Consumers, FromTail, MaxLens, BatchSize, MaxPublished, MaxBusFaults,
  \* OmsSim, with SimKeys its keys, and LiveOrders
  SimKeys, OrderKeys, Quantities, Prices, MaxPlaced, MaxRetries, MaxCalls, MaxLiveFaults,
  \* HlClient
  Callers, Capacity, Cost, MaxWorld, MaxLost,
  \* StateMirror
  DeskModes, MaxUpdates, MaxWrites, MaxRestarts,
  \* CommandGate, WsGateway, Entitlements
  GateCommands, MfaRequired, AgentTokens, MaxSubmitted, MaxOutages,
  Sockets, SocketActors, BanThreshold, RateLimit,
  ChallengeIds, Requests, Quota, PerMinute, FailureLimit, MaxStops,
  \* AgentRunner, with BootSymbols, BootBasket and BootUniverse those of "boot", and LlmCalls
  Symbols, FixedBasket, UniverseSize, ForceExitCodes, MaxQty, MaxPending, MaxFaults, MaxCrashes,
  InitialModes, MaxModes, BootSymbols, BootBasket, BootUniverse,
  Preferred, MaxAttempts, MaxLimits,
  \* DirectivePlan, with PlanSymbols its symbols
  PlanSymbols, Notionals, Caps, minLegUsd, Account, MaxLegs,
  \* RiskPolicy, with RestingPolicy its environment at rest, and MarketTicks
  Leverages, Drawdowns, EnvPolicies, RestingPolicy, Worths, MinWorth, MaxGross, MaxPatches, MaxBoots,
  MidTtl, BookTtl, ClientTtl, StaleData, Flight, BookRetries, MaxNow

(***************************************************************************)
(* What the theorems about the services take from their constants.         *)
(***************************************************************************)
ASSUME BusAssumption == MaxPublished \in Nat /\ BatchSize \in Nat \ {0}
ASSUME OmsAssumption == Quantities \cup Prices \subseteq Nat
\* A request takes one token, and the bucket fills up to its capacity in refills.
ASSUME ClientAssumption == Capacity \in Nat /\ Cost \in Nat \ {0}
ASSUME QuotaAssumption == Quota \in Nat
\* Every field of a policy is positive, and a value of the account is not negative.
ASSUME PolicyAssumption ==
  /\ EnvPolicies \subseteq [{"maxLeverage", "targetLeverage", "maxDrawdownPct"} -> Nat \ {0}]
  /\ Leverages \cup Drawdowns \subseteq Nat \ {0}
  /\ Worths \subseteq Nat
\* Notionals are in the unit that a proposal rounds to; a minimum of 0 is allowed.
ASSUME PlanAssumption ==
  /\ IsFiniteSet(PlanSymbols) /\ Notionals \cup Caps \subseteq Nat
  /\ minLegUsd \in Nat /\ Account \in Nat /\ MaxLegs \in Nat
ASSUME TicksAssumption == StaleData \in Nat /\ ClientTtl \in Nat \ {0} /\ Flight \in Nat

VARIABLES
  service,
  \* EventBus
  maxLen, first, last, malformed, phase, running, from, cursor, rows, delivered, archiving,
  archived, busFaults,
  \* OmsSim, LiveOrders
  orders, remembered, inLatency, position, realized, cash, bookedOf, withdrawn, placed,
  exch, flying, late, call, tries, told, calls, staleSet, cancelling, cancelFailed, liveFaults,
  \* HlClient
  tokens, ready, destroyed, queue, request, kind, retried, since, inflight, cached, world, lost,
  \* StateMirror
  rtMode, announced, updates, apiPhase, readTo, snapshot, hydrated, writes, newest, restarts,
  \* CommandGate, WsGateway, Entitlements
  token, socket, stream, verdict, attached, outages,
  clients, sent, abuse, bannedActors, commands,
  issued, challenges, overdue, expired, cache, row, upserts, verified, usage, banned, gate, paid,
  served, stops,
  \* AgentRunner, LlmCalls, DirectivePlan
  book, deskMode, decisions, messages, outbox, lastMode, lastPositions, lastRiskDecision,
  lastStateRiskMessage, openTrades, flushing, file, activeBasket, basketFresh, activeDirective,
  lastExitProposalSignature, lastStrategyProposalSignature, lastResearchReport, pc, hadFresh,
  recovery, proposal, deniedSinceCall, lastSent, faults, crashes, modes,
  installed, commandPathCache, codexDisabled, stage, asked, isFallback, attempt, child, limitHit,
  limits,
  rawPlan, grossCap, netCap, marked,
  \* RiskPolicy, MarketTicks
  env, policy, account, cachedWorth, peak, gross, candidate, highest, patches, boots,
  now, seeded, viaClient, mids, lastFetchAt, fetching, bookCache, clientBook, at, askedAt, readAt,
  retries, tick, shared

busVars == <<maxLen, first, last, malformed, phase, running, from, cursor, rows, delivered,
  archiving, archived, busFaults>>
simVars == <<orders, remembered, inLatency, position, realized, cash, bookedOf, withdrawn,
  placed>>
liveVars == <<exch, flying, late, call, tries, told, calls, staleSet, cancelling, cancelFailed,
  liveFaults>>
hlVars == <<tokens, ready, destroyed, queue, request, kind, retried, since, inflight, cached,
  world, lost>>
mirrorVars == <<rtMode, announced, updates, apiPhase, readTo, snapshot, hydrated, writes, newest,
  restarts>>
gateVars == <<token, socket, stream, verdict, attached, outages>>
wsVars == <<clients, sent, abuse, bannedActors, commands>>
entVars == <<issued, challenges, overdue, expired, cache, row, upserts, verified, usage, banned,
  gate, paid, served, stops>>
agentVars == <<book, deskMode, decisions, messages, outbox, lastMode, lastPositions,
  lastRiskDecision, lastStateRiskMessage, openTrades, flushing, file, activeBasket, basketFresh,
  activeDirective, lastExitProposalSignature, lastStrategyProposalSignature, lastResearchReport,
  pc, hadFresh, recovery, proposal, deniedSinceCall, lastSent, faults, crashes, modes>>
llmVars == <<installed, commandPathCache, codexDisabled, stage, asked, isFallback, attempt, child,
  limitHit, limits>>
planVars == <<rawPlan, grossCap, netCap, marked>>
policyVars == <<env, policy, account, cachedWorth, peak, gross, candidate, highest, patches, boots>>
tickVars == <<now, seeded, viaClient, mids, lastFetchAt, fetching, bookCache, clientBook, at, askedAt,
  readAt, retries, tick, shared>>

Bus == INSTANCE EventBus
Sim == INSTANCE OmsSim WITH OrderKeys <- SimKeys
Live == INSTANCE LiveOrders
Hl == INSTANCE HlClient
Mirror == INSTANCE StateMirror
Gate == INSTANCE CommandGate
Ws == INSTANCE WsGateway
Ent == INSTANCE Entitlements
\* RunnerProofs is AgentRunner with its theorems, so that they can be cited of each instance.
Agent == INSTANCE RunnerProofs WITH PipelineRuns <- TRUE, JournalRuns <- FALSE, MaxFaults <- 0,
                                    MaxCrashes <- 0, MaxModes <- 0
Faulty == INSTANCE RunnerProofs WITH PipelineRuns <- TRUE, JournalRuns <- FALSE, MaxCrashes <- 0,
                                     ForceExitCodes <- {}
Boot == INSTANCE RunnerProofs WITH PipelineRuns <- FALSE, JournalRuns <- TRUE, MaxFaults <- 0,
                                   MaxModes <- 0, Symbols <- BootSymbols, FixedBasket <- BootBasket,
                                   UniverseSize <- BootUniverse
Llm == INSTANCE LlmCalls
Plan == INSTANCE DirectivePlan WITH Symbols <- PlanSymbols
Policy == INSTANCE RiskPolicy
Ticks == INSTANCE MarketTicks

On(s) == service = s

\* Where a service may begin in several states, it rests in one of them.
Resting(s, state) == On(s) \/ state

MCInit ==
  /\ service \in Services
  /\ Resting("bus", maxLen = 0) /\ Bus!Init
  /\ Sim!Init /\ Live!Init
  /\ Resting("client", ready = TRUE) /\ Hl!Init
  /\ Resting("mirror", rtMode = "READY") /\ Mirror!Init
  /\ Gate!GateInit /\ Ws!WsInit /\ Ent!EntInit
  /\ Resting("boot", book = Agent!Flat /\ outbox = Agent!NoProposal)
  /\ CASE On("boot") -> Boot!Init [] On("faulty") -> Faulty!Init [] OTHER -> Agent!Init
  /\ Resting("llm", installed = {"claude", "codex"}) /\ Llm!Init
  /\ Resting("plan", rawPlan = <<>> /\ grossCap = 0 /\ netCap = 0 /\ marked = FALSE)
  /\ (On("plan") => Plan!Init)
  /\ Resting("policy", env = RestingPolicy /\ account = 0)
  /\ Policy!Init
  /\ Resting("ticks", seeded = TRUE /\ viaClient = TRUE) /\ Ticks!Init

\* Every other service rests.
Rest(s) ==
  /\ UNCHANGED service
  /\ s = "bus" \/ UNCHANGED busVars
  /\ s = "sim" \/ UNCHANGED simVars
  /\ s = "live" \/ UNCHANGED liveVars
  /\ s = "client" \/ UNCHANGED hlVars
  /\ s = "mirror" \/ UNCHANGED mirrorVars
  /\ s = "gate" \/ UNCHANGED gateVars
  /\ s = "gateway" \/ UNCHANGED wsVars
  /\ s = "payments" \/ UNCHANGED entVars
  /\ s \in {"agent", "faulty", "boot"} \/ UNCHANGED agentVars
  /\ s = "llm" \/ UNCHANGED llmVars
  /\ s = "plan" \/ UNCHANGED planVars
  /\ s = "policy" \/ UNCHANGED policyVars
  /\ s = "ticks" \/ UNCHANGED tickVars

MCNext ==
  \/ On("bus") /\ Bus!Next /\ Rest("bus")
  \/ On("sim") /\ Sim!Next /\ Rest("sim")
  \/ On("live") /\ Live!Next /\ Rest("live")
  \/ On("client") /\ Hl!Next /\ Rest("client")
  \/ On("mirror") /\ Mirror!Next /\ Rest("mirror")
  \/ On("gate") /\ Gate!GateNext /\ Rest("gate")
  \/ On("gateway") /\ Ws!WsNext /\ Rest("gateway")
  \/ On("payments") /\ Ent!EntNext /\ Rest("payments")
  \/ On("agent") /\ Agent!Next /\ Rest("agent")
  \/ On("faulty") /\ Faulty!Next /\ Rest("faulty")
  \/ On("boot") /\ Boot!Next /\ Rest("boot")
  \/ On("llm") /\ Llm!Next /\ Rest("llm")
  \/ On("plan") /\ Plan!Next /\ Rest("plan")
  \/ On("policy") /\ Policy!PolicyNext /\ Rest("policy")
  \/ On("ticks") /\ Ticks!TickNext /\ Rest("ticks")

mcVars == <<service, busVars, simVars, liveVars, hlVars, mirrorVars, gateVars,
            wsVars, entVars, agentVars, llmVars, planVars, policyVars, tickVars>>

Safety == MCInit /\ [][MCNext]_mcVars

(***************************************************************************)
(* The fairness of each service, where the behaviour is one of its.        *)
(***************************************************************************)
MCFairness ==
  /\ \A c \in Consumers : WF_busVars(On("bus") /\ Bus!Consume(c))
  /\ WF_liveVars(On("live") /\ Live!Reconcile)
  /\ \A o \in Live!Oids : WF_liveVars(On("live") /\ Live!Cancelling(o))
  /\ WF_hlVars(On("client") /\ Hl!Refill) /\ WF_hlVars(On("client") /\ Hl!StartupOver)
  /\ \A c \in Callers : WF_hlVars(On("client") /\ (Hl!Answer(c) \/ Hl!AskAgain(c)))
  /\ WF_mirrorVars(On("mirror") /\ Mirror!Publish)
  /\ WF_mirrorVars(On("mirror") /\ Mirror!Cycle)
  /\ WF_mirrorVars(On("mirror") /\ Mirror!Consume)
  /\ WF_mirrorVars(On("mirror") /\ Mirror!Connected)
  /\ WF_mirrorVars(On("mirror") /\ Mirror!Hydrate)
  /\ WF_mirrorVars(On("mirror") /\ Mirror!Insert)
  /\ WF_agentVars(On("agent") /\ Agent!Agent) /\ WF_agentVars(On("agent") /\ Agent!Handlers)
  /\ WF_agentVars(On("agent") /\ Agent!Restart)
  /\ WF_agentVars(On("agent") /\ Agent!RecoveryExpires)
  /\ WF_agentVars(On("faulty") /\ Faulty!Agent) /\ WF_agentVars(On("faulty") /\ Faulty!Handlers)
  /\ WF_llmVars(On("llm") /\ Llm!Step)

FairSpec == Safety /\ MCFairness

(***************************************************************************)
(* Properties of the services, under their names.                          *)
(***************************************************************************)
\* A living consumer of a stream gets every entry after its start once, in the loop of consume().
DeliveredOnce == On("bus") => Bus!DeliveredOnce
\* The audit archive cuts nothing it has not stored.
ArchivedBeforeCut == On("bus") => Bus!ArchivedBeforeCut
\* The simulated adapter's position and realized profit account for all cash paid.
BooksBalance == On("sim") => Sim!BooksBalance
\* A simulated order trades once at most, and never after its cancel.
CancelledBeforeFillNeverTrades == On("sim") => Sim!CancelledBeforeFillNeverTrades
\* A live order that is asked for again does not trade again.
TradesOncePerKey == On("live") => Live!TradesOncePerKey
\* The stored mode is the desk's once the API has caught up.
RowIsModeWhenCaughtUp == On("mirror") => Mirror!RowIsModeWhenCaughtUp
\* The runtime refuses no change that a door has acknowledged.
AcknowledgedIsAccepted == On("gate") => Gate!AcknowledgedIsAccepted
\* The runtime makes changes for administrators and the desk's own agent only.
DeskChangedByAdminsOnly == On("gate") => Gate!DeskChangedByAdminsOnly
\* The gateway sends what is not sanitized to operators only.
RawEventsStayInside == On("gateway") => Ws!RawEventsStayInside
\* The payment gate serves what was paid for, and within the quota.
ServedAsPaidFor == On("payments") => Ent!ServedAsPaidFor
\* A denial in force turns the strategist's answer into an exit.
RecoveryOverridesStrategist == /\ On("agent") => Agent!RecoveryOverridesStrategist
                               /\ On("faulty") => Faulty!RecoveryOverridesStrategist
\* The agent hands no proposal to the stream twice in a row.
NoProposalTwice == /\ On("agent") => Agent!NoProposalTwice
                   /\ On("faulty") => Faulty!NoProposalTwice
\* A proposal's protective levels are on the right sides of the mark.
GuardsOnRightSide == On("plan") => Plan!GuardsOnRightSide
\* A normalised plan is within the risk budget.
PlanWithinCaps == On("plan") => Plan!PlanWithinCaps
\* What the desk reports as held has an open trade in the agent's journal.
JournalCoversPositions == On("boot") => Boot!JournalCoversPositions

\* A book that passes the risk engine is recent.
CheckedBookIsRecent == On("ticks") => Ticks!CheckedBookIsRecent

\* An entry is within the limits of a consistent policy.
EntryWithinLimits == Policy!EntryWithinLimits
\* The client's cache never goes back to an older answer.
ReadNeverGoesBack == Hl!ReadNeverGoesBack
\* Every entry of a stream arrives.
EntryArrives == Bus!EntryArrives
\* A stale order leaves the book, or its cancel has failed.
StaleOrderLeaves == Live!StaleOrderLeaves
\* Every caller of the exchange is answered or refused.
CallerIsSettled == Hl!CallerIsSettled
\* The API's mode follows the desk's.
MirrorFollows == Mirror!MirrorFollows
\* The agent's pipeline ends, also where a publication throws.
PipelineEnds == Agent!PipelineEnds
\* The agent does not exit for ever.
ExitIsNotForEver == Agent!ExitIsNotForEver
\* A call of a model ends.
CallEnds == Llm!CallEnds
===============================================================================
