---------------------------- MODULE AgentRunner ----------------------------
(***************************************************************************)
(* The agent runner (apps/agent-runner/src/index.ts): the hourly pipeline  *)
(* research -> risk -> strategist -> scribe, the handlers of the three     *)
(* streams that interrupt it at every await, and the trade journal those   *)
(* handlers keep.  A label of pc is an await.  What a model answers, how   *)
(* long it takes and whether it answers at all is the environment's choice,*)
(* as is what the trading desk does with a proposal.                       *)
(*                                                                         *)
(* Positions are quantities of one side.  The in-flight locks of           *)
(* maybeSelectBasket and of maybeRefreshStrategistDirective are left out,  *)
(* because every caller is awaited by the one main loop, as is             *)
(* basketPivot, which is never set.                                        *)
(***************************************************************************)
EXTENDS Integers, Sequences, FiniteSets

CONSTANTS
  Symbols,
  FixedBasket,     \* BASKET_SYMBOLS; empty: a model selects the universe
  UniverseSize,    \* AGENT_UNIVERSE_SIZE
  PipelineRuns,    \* FALSE: only the boot and the handlers
  JournalRuns,     \* FALSE: no trade is journalled; the pipeline does not read the journal
  ForceExitCodes,  \* RISK_RECOVERY_FORCE_EXIT_CODES and UNSPECIFIED_DENY
  MaxQty,          \* bound: the largest position
  MaxPending,      \* bound: undelivered denials of a stream
  MaxFaults,       \* bound: publications that throw
  MaxCrashes,      \* bound: restarts of the agent
  InitialModes,    \* modes the desk may be in when the agent starts
  MaxModes         \* bound: mode changes of the desk

VARIABLES
  book, deskMode,                     \* the desk: positions and mode
  decisions, messages, outbox,        \* denials on their way, and the proposal
  lastMode, lastPositions, lastRiskDecision, lastStateRiskMessage,
  openTrades, flushing, file,         \* the trade journal and its file
  activeBasket, basketFresh,
  activeDirective, lastExitProposalSignature, lastStrategyProposalSignature,
  lastResearchReport,
  pc, hadFresh, recovery, proposal,   \* locals of the running pipeline
  deniedSinceCall,                    \* history: a denial is in force since the call
  lastSent,                           \* history: the last proposal handed to the stream
  faults, crashes, modes

deskVars == <<book, deskMode, modes>>
busVars == <<decisions, messages, outbox, lastSent>>
feedVars == <<lastMode, lastPositions, lastRiskDecision, lastStateRiskMessage>>
journalVars == <<openTrades, flushing, file>>
basketVars == <<activeBasket, basketFresh>>
signatures == <<lastExitProposalSignature, lastStrategyProposalSignature>>
cycleVars == <<hadFresh, recovery, proposal>>
boundVars == <<faults, crashes>>
history == deniedSinceCall
vars == <<deskVars, busVars, feedVars, journalVars, basketVars, activeDirective,
          signatures, lastResearchReport, pc, cycleVars, history, boundVars>>

Books == [Symbols -> 0..MaxQty]
Flat == [s \in Symbols |-> 0]
HeldIn(positions) == {s \in Symbols : positions[s] > 0}

NoPlan == [legs |-> {}, guarded |-> FALSE]
Plans == [legs : SUBSET Symbols \ {{}}, guarded : BOOLEAN]
Directive(decision, plan) == [decision |-> decision, plan |-> plan]
NoSignature == [none |-> TRUE]
NoProposal == [type |-> "NONE", legs |-> Flat, risk |-> {}]

\* A position's bucket in renderLegSummary: two quantities share one.
bucketNotional(q) == (q + 1) \div 2

\* proposalSignature: the codes of the recovery, the decision and the legs
\* with their sizes rounded to a bucket.
proposalSignature(p) ==
  [risk |-> p.risk, type |-> p.type, legs |-> [s \in Symbols |-> bucketNotional(p.legs[s])]]

\* shouldForceRiskRecovery: the codes of the last decision and of the last
\* state message that still force an exit.
shouldForceRiskRecovery == {lastRiskDecision, lastStateRiskMessage} \cap ForceExitCodes

Denied == shouldForceRiskRecovery # {}

hasFreshUniverse == activeBasket # {} /\ basketFresh

\* What an earlier process may have left with the desk.
EarlierProposals ==
  {NoProposal} \cup {[type |-> "ENTER", legs |-> legs, risk |-> {}] : legs \in Books \ {Flat}}

Init ==
  /\ book \in Books /\ deskMode \in InitialModes /\ modes = 0
  /\ decisions = <<>> /\ messages = <<>> /\ outbox \in EarlierProposals /\ lastSent = NoSignature
  /\ lastMode = "INIT" /\ lastPositions = Flat
  /\ lastRiskDecision = "NONE" /\ lastStateRiskMessage = "NONE"
  /\ openTrades = {} /\ flushing = FALSE /\ file = {}
  /\ activeBasket = {} /\ basketFresh = FALSE
  /\ activeDirective = Directive("HOLD", NoPlan)
  /\ lastExitProposalSignature = NoSignature
  /\ lastStrategyProposalSignature = NoSignature
  /\ lastResearchReport = FALSE
  /\ pc = "loading" /\ hadFresh = FALSE /\ recovery = {} /\ proposal = NoProposal
  /\ deniedSinceCall = FALSE /\ faults = 0 /\ crashes = 0

(***************************************************************************)
(* Handlers of the streams: each runs to its end without an await.         *)
(***************************************************************************)
\* The desk reports its state all the time; the agent's copy is as old as
\* the last report it has handled.  A message without a code does not
\* withdraw the code of an earlier one.
stateRiskMessage == IF messages = <<>> THEN lastStateRiskMessage ELSE Head(messages)

OnStateUpdate ==
  /\ pc # "dead"
  /\ lastMode' = deskMode
  /\ lastStateRiskMessage' = stateRiskMessage
  /\ messages' = IF messages = <<>> THEN messages ELSE Tail(messages)
  /\ UNCHANGED <<deskVars, decisions, outbox, lastSent, lastPositions, lastRiskDecision,
                 journalVars, basketVars, activeDirective, signatures, lastResearchReport, pc,
                 cycleVars, history, boundVars>>

\* syncActiveBasketFromPositions
syncActiveBasket(positions) == activeBasket \cup HeldIn(positions)

\* An update without positions returns before the journal is reconciled.
OnNoPositions ==
  /\ pc # "dead" /\ book = Flat
  /\ lastPositions' = Flat
  /\ UNCHANGED <<deskVars, busVars, lastMode, lastRiskDecision, lastStateRiskMessage,
                 journalVars, basketVars, activeDirective, signatures, lastResearchReport, pc,
                 cycleVars, history, boundVars>>

\* tradeJournal.openTrade of every symbol not held before, then reconcile
\* closes what is not held now.
reconciled(positions, prev) ==
  LET opened == openTrades \cup (HeldIn(positions) \ HeldIn(prev))
  IN opened \cap HeldIn(positions)

OnPositions ==
  /\ pc # "dead" /\ book # Flat
  /\ lastPositions' = book
  /\ activeBasket' = syncActiveBasket(book)
  /\ IF JournalRuns
     THEN /\ openTrades' = reconciled(book, lastPositions)
          /\ flushing' = (flushing \/ openTrades \ HeldIn(book) # {})
     ELSE UNCHANGED <<openTrades, flushing>>
  /\ UNCHANGED <<deskVars, busVars, lastMode, lastRiskDecision, lastStateRiskMessage, file,
                 basketFresh, activeDirective, signatures, lastResearchReport, pc, cycleVars,
                 history, boundVars>>

OnRiskDecision ==
  /\ pc # "dead"
  /\ decisions # <<>> /\ decisions' = Tail(decisions)
  /\ lastRiskDecision' = Head(decisions)
  /\ UNCHANGED <<deskVars, messages, outbox, lastSent, lastMode, lastPositions,
                 lastStateRiskMessage, journalVars, basketVars, activeDirective, signatures,
                 lastResearchReport, pc, cycleVars, boundVars>>
  /\ deniedSinceCall' = (deniedSinceCall /\ Denied')

\* closeTrade starts the write and does not wait for it.
FlushLands ==
  /\ flushing /\ pc # "dead"
  /\ flushing' = FALSE /\ file' = openTrades
  /\ UNCHANGED <<deskVars, busVars, feedVars, openTrades, basketVars, activeDirective,
                 signatures, lastResearchReport, pc, cycleVars, history, boundVars>>

(***************************************************************************)
(* Start of the process: the consumers are attached first, the journal is  *)
(* loaded over what they already opened, then a universe is selected.      *)
(***************************************************************************)
\* Mutant: the loaded trades replace those opened since the consumers started.
loadReplacing == file
load == openTrades \cup file

Load ==
  /\ pc = "loading" /\ pc' = "boot"
  /\ openTrades' = load
  /\ UNCHANGED <<deskVars, busVars, feedVars, flushing, file, basketVars, activeDirective,
                 signatures, lastResearchReport, cycleVars, history, boundVars>>

(***************************************************************************)
(* maybeSelectBasket, awaited at boot, at the start of the pipeline and    *)
(* twice in the strategist's cycle.  A failed fetch, two failed models and *)
(* an empty answer keep the basket and its age.  The features fetched for  *)
(* the candidates only feed prompts.                                       *)
(***************************************************************************)
AfterBasket == [boot |-> "idle", universe |-> "research", basket |-> "directive",
                entryBasket |-> "build"]

\* What the exchange lists, and what of it has the volume the budget asks for.
Assets == {a \in [listed : SUBSET Symbols, liquid : SUBSET Symbols] : a.liquid \subseteq a.listed}

\* The filter is dropped when it leaves fewer symbols than the universe has.
buildBasketCandidates(assets) ==
  IF Cardinality(assets.liquid) >= UniverseSize THEN assets.liquid ELSE assets.listed

\* A model may name symbols nobody has offered.
generateBasketSelection == SUBSET (Symbols \cup {"unlisted"})

\* Of the requested symbols that are candidates, as many as the universe has.
validateBasketSelection(requested, allowed) ==
  LET known == requested \cap allowed
      size == IF Cardinality(known) < UniverseSize THEN Cardinality(known) ELSE UniverseSize
  IN {picked \in SUBSET known : Cardinality(picked) = size}

SelectFixed(assets) == FixedBasket \cap assets.listed # {} /\ activeBasket' = FixedBasket \cap assets.listed

SelectUniverse(assets) ==
  /\ FixedBasket \cap assets.listed = {}
  /\ \E requested \in generateBasketSelection :
       activeBasket' \in validateBasketSelection(requested, buildBasketCandidates(assets)) \ {{}}

BasketSelected ==
  /\ pc \in DOMAIN AfterBasket /\ pc' = AfterBasket[pc]
  /\ \E assets \in Assets : SelectFixed(assets) \/ SelectUniverse(assets)
  /\ basketFresh' = TRUE
  /\ deniedSinceCall' = (deniedSinceCall \/ (pc' = "directive" /\ Denied))
  /\ UNCHANGED <<deskVars, busVars, feedVars, journalVars, activeDirective, signatures,
                 lastResearchReport, cycleVars, boundVars>>

\* Mutant: an entry that finds no universe starts the cycle over.
BasketKeptAgain ==
  /\ pc \in DOMAIN AfterBasket /\ pc' = IF pc = "entryBasket" THEN "basket" ELSE AfterBasket[pc]
  /\ deniedSinceCall' = (deniedSinceCall \/ (pc' = "directive" /\ Denied))
  /\ UNCHANGED <<deskVars, busVars, feedVars, journalVars, basketVars, activeDirective,
                 signatures, lastResearchReport, cycleVars, boundVars>>

BasketKept ==
  /\ pc \in DOMAIN AfterBasket /\ pc' = AfterBasket[pc]
  /\ deniedSinceCall' = (deniedSinceCall \/ (pc' = "directive" /\ Denied))
  /\ UNCHANGED <<deskVars, busVars, feedVars, journalVars, basketVars, activeDirective,
                 signatures, lastResearchReport, cycleVars, boundVars>>

UniverseAges ==
  /\ basketFresh /\ basketFresh' = FALSE
  /\ UNCHANGED <<deskVars, busVars, feedVars, journalVars, activeBasket, activeDirective,
                 signatures, lastResearchReport, pc, cycleVars, history, boundVars>>

(***************************************************************************)
(* The pipeline up to the strategist.                                      *)
(***************************************************************************)
StartPipeline ==
  /\ PipelineRuns /\ pc = "idle"
  /\ pc' = IF ~hasFreshUniverse /\ lastMode # "HALT" THEN "universe" ELSE "research"
  /\ UNCHANGED <<deskVars, busVars, feedVars, journalVars, basketVars, activeDirective,
                 signatures, lastResearchReport, cycleVars, history, boundVars>>

\* Whether there is a report after the model and its fallback have been asked:
\* whatever one of them answers is cut and clamped into a report.
generateResearchReport == {lastResearchReport, TRUE}

\* runResearchAgent: without a report, new or old, the cycle stops here.
ResearchDone ==
  /\ pc = "research"
  /\ lastResearchReport' \in generateResearchReport
  /\ pc' = IF lastResearchReport' THEN "risk" ELSE "idle"
  /\ UNCHANGED <<deskVars, busVars, feedVars, journalVars, basketVars, activeDirective,
                 signatures, cycleVars, history, boundVars>>

\* runRiskAgent: its report only feeds prompts; the /risk-policy command it
\* may send is the desk's business.
RiskDone ==
  /\ pc = "risk" /\ pc' = "strategist"
  /\ UNCHANGED <<deskVars, busVars, feedVars, journalVars, basketVars, activeDirective,
                 signatures, lastResearchReport, cycleVars, history, boundVars>>

(***************************************************************************)
(* runStrategistCycle                                                      *)
(***************************************************************************)
BeginCycle ==
  /\ pc = "strategist"
  /\ IF lastMode = "HALT"
     THEN /\ pc' = "scribe"
          /\ UNCHANGED <<activeBasket, hadFresh>>
     ELSE /\ hadFresh' = hasFreshUniverse
          /\ activeBasket' = syncActiveBasket(lastPositions)
          /\ pc' = IF hadFresh' THEN "directive" ELSE "basket"
  /\ deniedSinceCall' = (pc' = "directive" /\ Denied)
  /\ UNCHANGED <<deskVars, busVars, feedVars, journalVars, basketFresh, activeDirective,
                 signatures, lastResearchReport, recovery, proposal, boundVars>>

\* Legs outside a nonempty basket are dropped, and the plan with its last leg.
withinBasket(plan) ==
  LET legs == IF activeBasket = {} THEN plan.legs ELSE plan.legs \cap activeBasket
  IN IF legs = {} THEN NoPlan ELSE [plan EXCEPT !.legs = legs]

\* The directives an answer becomes: an unknown decision is HOLD, only OPEN
\* keeps a plan, and it may be without one.
generateStrategistDirective ==
  {Directive(decision, NoPlan) : decision \in {"HOLD", "EXIT", "OPEN"}}
    \cup {Directive("OPEN", plan) : plan \in Plans}

\* maybeRefreshStrategistDirective: both models failed and the directive is
\* held, or it is replaced.
DirectiveDone ==
  /\ pc = "directive" /\ pc' = "decide"
  /\ \/ UNCHANGED activeDirective
     \/ \E raw \in generateStrategistDirective :
          activeDirective' = [raw EXCEPT !.plan = withinBasket(raw.plan)]
  /\ UNCHANGED <<deskVars, busVars, feedVars, journalVars, basketVars, signatures,
                 lastResearchReport, cycleVars, history, boundVars>>

\* An active recovery replaces whatever the strategist decided.
Forced(codes) == IF codes = {} THEN activeDirective
                 ELSE IF activeDirective.decision = "EXIT" THEN activeDirective
                 ELSE Directive("EXIT", NoPlan)

\* The locals of the cycle, once nothing reads them any more.
EndOfLocals == /\ hadFresh' = FALSE /\ recovery' = {} /\ proposal' = NoProposal
               /\ deniedSinceCall' = FALSE

NoAction == pc' = "scribe" /\ EndOfLocals /\ UNCHANGED lastStrategyProposalSignature

Goto(place, p) == /\ pc' = place /\ proposal' = p
                  /\ hadFresh' = FALSE /\ recovery' = {} /\ UNCHANGED deniedSinceCall

\* Mutant: the signature is left as it was.
AnnounceUnrecorded(p) ==
  IF proposalSignature(p) = lastStrategyProposalSignature THEN NoAction
  ELSE Goto("announce", p) /\ UNCHANGED lastStrategyProposalSignature

\* The same signature as the last proposal's ends the cycle; a new one is
\* recorded before anything is published.
Announce(p) ==
  IF proposalSignature(p) = lastStrategyProposalSignature THEN NoAction
  ELSE Goto("announce", p) /\ lastStrategyProposalSignature' = proposalSignature(p)

\* Mutant: the directive is left to the next model call.
ExitWhenFlatKept(codes) ==
  /\ Forced(codes).decision = "EXIT" /\ lastPositions = Flat
  /\ activeDirective' = Forced(codes) /\ lastExitProposalSignature' = Flat
  /\ NoAction

ExitWhenFlat(codes) ==
  /\ Forced(codes).decision = "EXIT" /\ lastPositions = Flat
  /\ IF codes = {} /\ lastMode \notin {"SAFE_MODE", "HALT"}
     THEN /\ activeDirective' = Directive("HOLD", NoPlan)
          /\ lastExitProposalSignature' = NoSignature
     ELSE activeDirective' = Forced(codes) /\ lastExitProposalSignature' = Flat
  /\ NoAction

\* buildExitProposal: everything the agent believes held.
buildExitProposal(codes) == [type |-> "EXIT", legs |-> lastPositions, risk |-> codes]

ExitPositions(codes) ==
  /\ Forced(codes).decision = "EXIT" /\ lastPositions # Flat
  /\ activeDirective' = Forced(codes)
  /\ lastExitProposalSignature' = lastPositions
  /\ IF lastExitProposalSignature = lastPositions THEN NoAction
     ELSE Announce(buildExitProposal(codes))

\* buildDiscretionaryProposal: every leg has half the account, and a leg
\* without SL and TP refuses the proposal.
BuildEntry(plan) ==
  IF ~plan.guarded THEN NoAction
  ELSE Announce([type |-> "ENTER", risk |-> {},
                 legs |-> [s \in Symbols |-> IF s \in plan.legs THEN 1 ELSE 0]])

Open(codes) ==
  /\ Forced(codes).decision = "OPEN"
  /\ lastExitProposalSignature' = NoSignature
  /\ UNCHANGED activeDirective
  /\ CASE activeDirective.plan = NoPlan -> NoAction
       [] activeDirective.plan # NoPlan /\ lastPositions = Flat /\ ~hadFresh ->
            Goto("entryBasket", NoProposal) /\ UNCHANGED lastStrategyProposalSignature
       [] OTHER -> BuildEntry(activeDirective.plan)

Hold(codes) ==
  /\ Forced(codes).decision = "HOLD"
  /\ lastExitProposalSignature' = NoSignature
  /\ NoAction /\ UNCHANGED activeDirective

ProposeUnder(codes) == ExitWhenFlat(codes) \/ ExitPositions(codes) \/ Open(codes) \/ Hold(codes)

\* Mutant: the codes are not looked at.
CheckRecoverySkipped ==
  /\ pc = "decide" /\ ProposeUnder({})
  /\ UNCHANGED <<deskVars, busVars, feedVars, journalVars, basketVars, lastResearchReport, boundVars>>

\* The recovery is computed after the refresh; an active one publishes its
\* notice, which is an await, without one the cycle goes on.
CheckRecovery ==
  /\ pc = "decide"
  /\ \/ shouldForceRiskRecovery = {} /\ ProposeUnder({})
     \/ /\ shouldForceRiskRecovery # {}
        /\ pc' = "propose" /\ recovery' = shouldForceRiskRecovery
        /\ UNCHANGED <<activeDirective, signatures, hadFresh, proposal, history>>
  /\ UNCHANGED <<deskVars, busVars, feedVars, journalVars, basketVars, lastResearchReport, boundVars>>

Propose ==
  /\ pc = "propose" /\ ProposeUnder(recovery)
  /\ UNCHANGED <<deskVars, busVars, feedVars, journalVars, basketVars, lastResearchReport, boundVars>>

\* The entry of a flat book whose universe was stale, after a second
\* selection; the plan is not filtered again.
ProposeAfterSelection ==
  /\ pc = "build"
  /\ IF activeBasket = {} THEN NoAction ELSE BuildEntry(activeDirective.plan)
  /\ UNCHANGED <<deskVars, busVars, feedVars, journalVars, basketVars, activeDirective,
                 lastExitProposalSignature, lastResearchReport, boundVars>>

\* What the desk reads of a proposal.
Sent == [proposal EXCEPT !.risk = {}]

PublishProposal ==
  /\ pc = "announce" /\ pc' = "report"
  /\ outbox' = Sent /\ lastSent' = proposalSignature(proposal)
  /\ EndOfLocals
  /\ UNCHANGED <<deskVars, decisions, messages, feedVars, journalVars, basketVars, activeDirective,
                 signatures, lastResearchReport, boundVars>>

\* The audit and the tape of the proposal.
ReportDone ==
  /\ pc = "report" /\ pc' = "scribe"
  /\ UNCHANGED <<deskVars, busVars, feedVars, journalVars, basketVars, activeDirective,
                 signatures, lastResearchReport, cycleVars, history, boundVars>>

\* runScribeAnalysis, of a new proposal or of the last one once there is newer
\* research: nothing but prompts depends on what it finds.
ScribeDone ==
  /\ pc = "scribe" /\ pc' = "idle"
  /\ UNCHANGED <<deskVars, busVars, feedVars, journalVars, basketVars, activeDirective,
                 signatures, lastResearchReport, cycleVars, history, boundVars>>

\* A publication that throws ends the pipeline at any of its awaits; what
\* was assigned stays, and the proposal itself may have reached the stream.
PublishThrows ==
  /\ pc \notin {"dead", "loading", "idle"}
  /\ faults < MaxFaults /\ faults' = faults + 1
  /\ pc' = "idle"
  /\ lastSent' = IF pc = "announce" THEN proposalSignature(proposal) ELSE lastSent
  /\ outbox' \in IF pc = "announce" THEN {outbox, Sent} ELSE {outbox}
  /\ EndOfLocals
  /\ UNCHANGED <<deskVars, decisions, messages, feedVars, journalVars, basketVars, activeDirective,
                 signatures, lastResearchReport, crashes>>

Pipeline == \/ StartPipeline \/ ResearchDone \/ RiskDone \/ BeginCycle \/ DirectiveDone
            \/ CheckRecovery \/ Propose \/ ProposeAfterSelection \/ PublishProposal
            \/ ReportDone \/ ScribeDone

(***************************************************************************)
(* Restart: memory is lost, the consumers start at the streams' ends.      *)
(***************************************************************************)
Crash ==
  /\ pc # "dead" /\ crashes < MaxCrashes /\ crashes' = crashes + 1
  /\ pc' = "dead"
  /\ decisions' = <<>> /\ messages' = <<>> /\ lastSent' = NoSignature
  /\ lastMode' = "INIT" /\ lastPositions' = Flat
  /\ lastRiskDecision' = "NONE" /\ lastStateRiskMessage' = "NONE"
  /\ openTrades' = {} /\ flushing' = FALSE
  /\ activeBasket' = {} /\ basketFresh' = FALSE
  /\ activeDirective' = Directive("HOLD", NoPlan)
  /\ lastExitProposalSignature' = NoSignature
  /\ lastStrategyProposalSignature' = NoSignature
  /\ lastResearchReport' = FALSE
  /\ EndOfLocals
  /\ UNCHANGED <<deskVars, outbox, file, faults>>

Restart ==
  /\ pc = "dead" /\ pc' = "loading"
  /\ UNCHANGED <<deskVars, busVars, feedVars, journalVars, basketVars, activeDirective,
                 signatures, lastResearchReport, cycleVars, history, boundVars>>

(***************************************************************************)
(* The desk and the clock.                                                 *)
(***************************************************************************)
\* A consumer that is not running starts at the stream's end.
Send(queue, message) == IF pc = "dead" THEN queue ELSE Append(queue, message)

agentVars == <<lastSent, feedVars, journalVars, basketVars, activeDirective, signatures,
               lastResearchReport, pc, cycleVars, history, boundVars>>

\* The decision that allows a proposal, or denies it for a reason that forces
\* nothing, withdraws an earlier one.  An entry may fill leg by leg, an exit
\* in part; either may be dropped.
DeskTakesProposal ==
  /\ outbox # NoProposal /\ outbox' = NoProposal
  /\ Len(decisions) < MaxPending /\ decisions' = Send(decisions, "NONE")
  /\ LET legs == outbox.legs
         between(s) == IF legs[s] = 0 THEN {book[s]}
                       ELSE IF outbox.type = "EXIT" THEN 0..book[s]
                       ELSE book[s]..MaxQty
     IN book' \in {b \in Books : \A s \in Symbols : b[s] \in between(s)}
  /\ UNCHANGED <<deskMode, modes, messages, agentVars>>

\* A denial reaches the agent as a decision and as a state message.
DeskDenies ==
  /\ outbox # NoProposal /\ outbox' = NoProposal
  /\ Len(messages) < MaxPending /\ Len(decisions) < MaxPending
  /\ \E code \in ForceExitCodes : /\ decisions' = Send(decisions, code)
                                  /\ messages' = Send(messages, code)
  /\ UNCHANGED <<deskVars, agentVars>>

TriggerFires ==
  /\ \E s \in Symbols : book[s] > 0 /\ book' = [book EXCEPT ![s] = 0]
  /\ UNCHANGED <<deskMode, modes, decisions, messages, outbox, agentVars>>

ModeChanges ==
  /\ modes < MaxModes /\ modes' = modes + 1
  /\ deskMode' \in {"READY", "SAFE_MODE", "HALT"} \ {deskMode}
  /\ UNCHANGED <<book, decisions, messages, outbox, agentVars>>

\* RISK_RECOVERY_TTL_MS runs for the decision and for the message.
RecoveryExpires ==
  /\ \/ lastRiskDecision # "NONE" /\ lastRiskDecision' = "NONE" /\ UNCHANGED lastStateRiskMessage
     \/ lastStateRiskMessage # "NONE" /\ lastStateRiskMessage' = "NONE" /\ UNCHANGED lastRiskDecision
  /\ deniedSinceCall' = (deniedSinceCall /\ Denied')
  /\ UNCHANGED <<deskVars, busVars, lastMode, lastPositions, journalVars, basketVars,
                 activeDirective, signatures, lastResearchReport, pc, cycleVars, boundVars>>

Handlers == OnStateUpdate \/ OnNoPositions \/ OnPositions \/ OnRiskDecision

Agent == Load \/ BasketSelected \/ BasketKept \/ Pipeline \/ FlushLands

Environment == \/ UniverseAges \/ DeskTakesProposal \/ DeskDenies
               \/ TriggerFires \/ ModeChanges \/ RecoveryExpires

Next == Handlers \/ Agent \/ PublishThrows \/ Crash \/ Restart \/ Environment

\* Every model call ends, if only by its timeout, every handler runs, the
\* process is restarted, a denial ages, and the desk reports its mode.
Fairness ==
  /\ WF_vars(Agent) /\ WF_vars(Handlers) /\ WF_vars(Restart) /\ WF_vars(RecoveryExpires)

Spec == Init /\ [][Next]_vars /\ Fairness

(***************************************************************************)
(* Properties.                                                             *)
(***************************************************************************)
\* A denial that came before the strategist was asked and is still in force
\* when its answer is turned into a proposal never lets an entry out, whatever
\* the model answers and however long it takes (index.ts:4783-4817).
RecoveryOverridesStrategist == pc = "announce" /\ deniedSinceCall => proposal.type = "EXIT"

\* A symbol held according to the desk's last report has an open trade in
\* the journal, across a load that finishes after the first reports and
\* across restarts (index.ts:5350-5366, trade-journal.ts:47).
JournalCoversPositions == JournalRuns => HeldIn(lastPositions) \subseteq openTrades

\* Between two starts of the agent no proposal is handed to the stream twice
\* in a row, also when a publication throws after the message has landed: the
\* desk would trade it twice (index.ts:4981-4990).
NoProposalTwice == pc = "announce" => proposalSignature(proposal) # lastSent

\* Every pipeline ends, whatever the models answer and also when a publication
\* throws, so that the next one can start (index.ts:5443).
PipelineEnds == []<>(pc \in {"loading", "boot", "idle", "dead"})

\* An exit is not the strategist's last word for ever: when the desk is flat
\* and ready, the agent has heard so and no denial is in force, the directive
\* leaves EXIT again and again, also when no model answers (index.ts:4850).
Recovered == /\ pc # "dead" /\ lastPositions = Flat /\ lastMode = "READY"
             /\ shouldForceRiskRecovery = {}
ExitIsNotForEver == <>[]Recovered => []<>(activeDirective.decision # "EXIT")
=============================================================================
