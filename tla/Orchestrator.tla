----------------------------- MODULE Orchestrator -----------------------------
(***************************************************************************)
(* The runtime's trading loop in live mode: createRuntime of               *)
(* apps/runtime/src/orchestrator/state.ts with its state machine           *)
(* (state-machine.ts), the risk engine it calls, the mode it persists      *)
(* (db/persistence.ts) and the exchange it trades on.                      *)
(*                                                                         *)
(* Two asynchronous activities share one process and interleave at every   *)
(* await: the trading cycle (runCycle, at most one at a time) and the      *)
(* operator's command consumer (handleCommand, one command at a time).     *)
(* pc and cpc say at which await each of them is suspended; one action is  *)
(* the code from that await to the next.  The exchange is an environment   *)
(* that both of them change, and that they read through the response cache *)
(* of packages/hl-client when the runtime is given the shared client.      *)
(*                                                                         *)
(* What fails (an exchange call, a bus publish, a health check, a database *)
(* write) fails at most MaxFaults times in a behaviour, the process        *)
(* crashes at most MaxCrashes times, the operator sends at most            *)
(* MaxCommands commands and exchange-side triggers fire at most MaxFires   *)
(* times.  The account value crosses the minimum as often as it likes.     *)
(***************************************************************************)
EXTENDS RiskEngine

CONSTANTS Proposals,      \* the proposals the agent may submit, each of them once
          NoProposal,     \* the empty slot (null)
          RiskConfig,     \* the risk policy in force
          Account,        \* the account: [value, peak]
          Ticks,          \* market data: [Symbols -> [fresh, bid, ask]]
          Commands,       \* the operator commands in use
          ErrorThreshold, \* SAFE_MODE_ERROR_THRESHOLD
          Cached,         \* the runtime is given hlClient: snapshots go through its cache
          StartBooks,     \* the books the exchange may hold when the runtime is first started
          Fundings,       \* whether the account value may reach the minimum: a subset of BOOLEAN
          MaxFaults, MaxCrashes, MaxCommands, MaxFires

ASSUME NoProposalAssumption == NoProposal \notin Proposals
ASSUME ThresholdAssumption == ErrorThreshold \in Nat \ {0}
ASSUME BoundsAssumption ==
    MaxFaults \in Nat /\ MaxCrashes \in Nat /\ MaxCommands \in Nat /\ MaxFires \in Nat
ASSUME CachedAssumption == Cached \in BOOLEAN
ASSUME CommandsAssumption == Commands \subseteq {"/halt", "/resume", "/flatten"}

\* What the proposal schema of packages/contracts lets through, dust-free and in live mode.
\* guards says which of its SL and TP prices a leg names.
Both == {"SL", "TP"}
Leg == [symbol : Symbols, side : {"BUY", "SELL"}, usd : Nat \ {0}, guards : SUBSET Both]
Action == [type : {"ENTER", "EXIT", "HOLD"}, slippage : Nat, legs : SUBSET Leg \ {{}}]
ASSUME ProposalsAssumption ==
    \A p \in Proposals :
      /\ p.actions \in Seq(Action) \ {<<>>}
      /\ \A i \in DOMAIN p.actions : IsFiniteSet(p.actions[i].legs)
ASSUME StartBooksAssumption ==
    StartBooks \subseteq [pos : [Symbols -> Int], trig : [Symbols -> SUBSET Both]] /\ StartBooks # {}
ASSUME FundingsAssumption == Fundings \subseteq BOOLEAN /\ Fundings # {}

VARIABLES
  mode,    \* state.mode
  stored,  \* the state of the newest row of system_state, "none" if there is no row
  pend,    \* per activity, the mode its suspended saveSystemState call writes, or "none";
           \* "obsolete" once a row with a newer updatedAt is in the table
  newest,  \* the activity that made the newest saveSystemState call
  lost,    \* the newest saveSystemState call failed
  slot,    \* pendingAgentProposal, while it is fresh
  sent,    \* the proposals the agent has submitted
  pc,      \* where the trading cycle is
  prop,    \* the proposal the cycle works on
  healthy, \* dependenciesHealthy of the evaluation
  dec,     \* risk.decision
  prev,    \* previousMode
  act,     \* index of the action execute() works on
  todo,    \* the eligible legs of that action whose place() has not reached the exchange
  keys,    \* idempotency keys the exchange has seen for this proposal
  unguarded, \* legs whose SL/TP are still to be placed
  snap,    \* what the cycle last read from the exchange (or, in SAFE_MODE repair,
           \* the positions it set out to protect)
  view,    \* state.positions
  errs,    \* consecutiveCycleErrors
  cpc,     \* where the command consumer is
  csnap,   \* what the /flatten command last read from the exchange
  cleft,   \* positions /flatten has still to close
  pos,     \* positions on the exchange
  trig,    \* per symbol, the SL/TP orders on the exchange that would close its position
  funded,  \* the account value last fetched reaches minLiveAccountValueUsd()
  held,    \* the response cache holds a copy of the exchange's answers
  copy,    \* that copy, while held
  used     \* how much of each bound the environment has used

modeVars  == <<mode, pend, newest, lost>>
planVars  == <<prop, healthy, dec, prev, act, todo, keys, unguarded>>
cycleVars == <<pc, planVars, snap, errs>>
inboxVars == <<slot, sent>>
commandVars == <<cpc, csnap, cleft>>
bookVars == <<pos, trig, funded>>
cacheVars == <<held, copy>>
exchangeVars == <<bookVars, cacheVars>>
vars == <<modeVars, stored, inboxVars, cycleVars, view, commandVars, exchangeVars, used>>

Activities == {"cycle", "command"}
Unprotected == [s \in Symbols |-> {}]
Legs == UNION {UNION {p.actions[i].legs : i \in DOMAIN p.actions} : p \in Proposals}

BootPcs == {"down", "boot", "warmup", "starting"}
CyclePcs == {"observed", "published", "alarm", "audited", "health", "verify", "repair",
             "recheck", "verified", "selected", "decided", "placing", "filled", "synced", "protect",
             "finish", "posture", "panic"}
Up == pc \notin BootPcs

-------------------------------------------------------------------------------
(* Modes and their persistence.                                            *)

\* Mutant: SAFE_MODE only ends in READY.
transitionsNoRecovery ==
    [INIT      |-> {"WARMUP"},
     WARMUP    |-> {"READY", "HALT", "SAFE_MODE"},
     READY     |-> {"IN_TRADE", "HALT", "SAFE_MODE"},
     IN_TRADE  |-> {"READY", "HALT", "SAFE_MODE"},
     HALT      |-> {"READY"},
     SAFE_MODE |-> {"READY", "HALT"}]

transitions ==
    [INIT      |-> {"WARMUP"},
     WARMUP    |-> {"READY", "HALT", "SAFE_MODE"},
     READY     |-> {"IN_TRADE", "HALT", "SAFE_MODE"},
     IN_TRADE  |-> {"READY", "HALT", "SAFE_MODE"},
     HALT      |-> {"READY"},
     SAFE_MODE |-> {"READY", "IN_TRADE", "HALT"}]

canTransition(from, to) == to \in transitions[from]

\* An activity that awaits saveSystemState goes no further until the call returns.
Ready(a) == pend[a] = "none"

\* Mutant: the mode is not written.
setModeUnsaved(a, m) ==
    IF canTransition(mode, m)
    THEN mode' = m /\ UNCHANGED <<pend, newest, lost>>
    ELSE UNCHANGED modeVars

\* setMode: the mode changes at once, the row is written later, and an illegal
\* transition is only audited.
setMode(a, m) ==
    IF canTransition(mode, m)
    THEN /\ mode' = m
         /\ pend' = [pend EXCEPT ![a] = m]
         /\ newest' = a
         /\ lost' = FALSE
    ELSE UNCHANGED modeVars

setModeIf(condition, a, m) == IF condition THEN setMode(a, m) ELSE UNCHANGED modeVars

\* Mutant: rows are ordered by the instant they land.
HiddenNever(a, b) == FALSE

\* Activity b's write is under way when the newest row, a's, lands.
Hidden(a, b) == a = newest /\ pend[b] # "none"

\* The INSERT lands.  Rows are ordered by the instant of the call, so the row of the
\* newest call hides the ones still under way.
saveSystemState(a) ==
    /\ pend[a] # "none"
    /\ stored' = IF pend[a] = "obsolete" THEN stored ELSE pend[a]
    /\ pend' = [b \in Activities |->
                  IF b = a THEN "none"
                  ELSE IF Hidden(a, b) THEN "obsolete" ELSE pend[b]]
    /\ UNCHANGED <<mode, newest, lost, inboxVars, cycleVars, view, commandVars, exchangeVars, used>>

Fault == used.faults < MaxFaults /\ used' = [used EXCEPT !.faults = @ + 1]
Costs(failed) == IF failed THEN Fault ELSE UNCHANGED used

\* setMode swallows a failed write; the boot's own write is not guarded (BootSaveFails).
saveFails(a) ==
    /\ pend[a] # "none"
    /\ pc # "boot"
    /\ Fault
    /\ pend' = [pend EXCEPT ![a] = "none"]
    /\ lost' = (lost \/ a = newest)
    /\ UNCHANGED <<mode, newest, stored, inboxVars, cycleVars, view, commandVars, exchangeVars>>

-------------------------------------------------------------------------------
(* The exchange.                                                           *)

SameSide(x, y) == (x > 0 /\ y > 0) \/ (x < 0 /\ y < 0)
Exposed(book) == \E s \in Symbols : book[s] # 0

NoBook == [pos |-> Flat, trig |-> Unprotected]

\* adapter.snapshot(): openOrders and clearinghouseState, answered by the cache for as long
\* as it holds an answer.
snapshot == IF held THEN copy ELSE [pos |-> pos, trig |-> trig]

\* The first read after an expiry fills the cache, for the next ones to be answered by it.
getOrFetch == held' = Cached /\ copy' = IF Cached THEN snapshot ELSE NoBook

\* The entries' four seconds are over.
CacheExpires ==
    /\ held
    /\ held' = FALSE /\ copy' = NoBook
    /\ UNCHANGED <<modeVars, stored, inboxVars, cycleVars, view, commandVars, bookVars, used>>

\* A fill of amount n on symbol s.  Reduce-only triggers do not outlive the position
\* they close: the exchange drops them when it goes flat or changes side.
Fill(s, n) ==
    /\ pos' = [pos EXCEPT ![s] = @ + n]
    /\ trig' = [trig EXCEPT ![s] = IF SameSide(pos[s], pos[s] + n) THEN @ ELSE {}]
    /\ UNCHANGED funded

\* The book's positions that lack an SL or a TP on the exchange, judged by closing side.
Naked(book) ==
    {s \in Symbols : book[s] # 0 /\ ~(SameSide(book[s], pos[s]) /\ trig[s] = Both)}

TriggerFires(s) ==
    /\ used.fires < MaxFires
    /\ trig[s] # {}
    /\ pos' = [pos EXCEPT ![s] = 0]
    /\ trig' = [trig EXCEPT ![s] = {}]
    /\ used' = [used EXCEPT !.fires = @ + 1]
    /\ UNCHANGED <<modeVars, stored, inboxVars, cycleVars, view, commandVars, cacheVars, funded>>

\* The account value last fetched crosses the minimum: a deposit, a loss, a first answer.
AccountMoves ==
    /\ funded' \in Fundings \ {funded}
    /\ UNCHANGED <<modeVars, stored, inboxVars, cycleVars, view, commandVars, pos, trig, cacheVars,
                   used>>

-------------------------------------------------------------------------------
(* Crash and boot.                                                         *)

NoPlan ==
    /\ prop' = NoProposal /\ healthy' = TRUE /\ dec' = "none" /\ prev' = "none"
    /\ act' = 0 /\ todo' = {} /\ keys' = {} /\ unguarded' = {}

\* The process ends: memory is gone, and each write under way lands or does not.
Die ==
    /\ pc' = "down" /\ mode' = "INIT"
    /\ stored' \in {stored} \cup ({pend[a] : a \in Activities} \ {"none", "obsolete"})
    /\ pend' = [a \in Activities |-> "none"]
    /\ newest' = "cycle" /\ lost' = FALSE
    /\ slot' = NoProposal /\ NoPlan
    /\ snap' = Flat /\ view' = Flat /\ errs' = 0
    /\ cpc' = "idle" /\ csnap' = NoBook /\ cleft' = {}
    /\ held' = FALSE /\ copy' = NoBook
    /\ UNCHANGED <<sent, bookVars>>

Crash ==
    /\ pc # "down"
    /\ used.crashes < MaxCrashes
    /\ used' = [used EXCEPT !.crashes = @ + 1]
    /\ Die

\* Mutant: no default for an empty table.
ResumedModeAsStored == stored
ResumedMode == IF stored = "none" THEN "INIT" ELSE stored

\* createRuntime reads the persisted mode, or starts in INIT, and writes it back.
BootRead ==
    /\ pc = "down"
    /\ mode' = ResumedMode
    /\ pend' = [pend EXCEPT !["cycle"] = mode']
    /\ pc' = "boot"
    /\ UNCHANGED <<newest, lost, stored, inboxVars, planVars, snap, errs, view, commandVars,
                   exchangeVars, used>>

BootSaveFails == pc = "boot" /\ ~Ready("cycle") /\ Fault /\ Die

\* Only a mode of INIT goes through WARMUP; any other persisted mode is resumed as it is.
BootWarmup ==
    /\ pc = "boot" /\ Ready("cycle")
    /\ pc' = IF mode = "INIT" THEN "warmup" ELSE "idle"
    /\ setModeIf(mode = "INIT", "cycle", "WARMUP")
    /\ UNCHANGED <<stored, inboxVars, planVars, snap, errs, view, commandVars, exchangeVars, used>>

BootReady ==
    /\ pc = "warmup" /\ Ready("cycle")
    /\ pc' = "starting"
    /\ setMode("cycle", "READY")
    /\ UNCHANGED <<stored, inboxVars, planVars, snap, errs, view, commandVars, exchangeVars, used>>

\* The consumers and the cycle timer start.
BootDone ==
    /\ pc = "starting" /\ Ready("cycle")
    /\ pc' = "idle"
    /\ UNCHANGED <<modeVars, stored, inboxVars, planVars, snap, errs, view, commandVars,
                   exchangeVars, used>>

Boot == BootRead \/ BootWarmup \/ BootReady \/ BootDone

-------------------------------------------------------------------------------
(* The agent's inbox: one slot, the last proposal wins.                    *)

Propose(p) ==
    /\ Up /\ p \notin sent
    /\ slot' = p
    /\ sent' = sent \cup {p}
    /\ UNCHANGED <<modeVars, stored, cycleVars, view, commandVars, exchangeVars, used>>

\* A proposal older than 60 s is no candidate any more.
Expire ==
    /\ slot # NoProposal
    /\ slot' = NoProposal
    /\ UNCHANGED <<modeVars, stored, sent, cycleVars, view, commandVars, exchangeVars, used>>

-------------------------------------------------------------------------------
(* The trading cycle up to its decision what to do.                        *)

At(p) == pc = p /\ Ready("cycle")
EndCycle == pc' = "idle" /\ NoPlan /\ snap' = Flat

\* adapter.snapshot() reads the exchange ...
Sync ==
    /\ At("idle")
    /\ snap' = snapshot.pos /\ getOrFetch
    /\ pc' = "observed"
    /\ UNCHANGED <<modeVars, stored, inboxVars, planVars, errs, view, commandVars, bookVars, used>>

\* ... and when it returns its result becomes state.positions; reaching mark-to-market
\* resets the error counter, before the first publish.
Mark ==
    /\ At("observed")
    /\ view' = snap
    /\ snap' = Flat
    /\ errs' = 0
    /\ pc' = "published"
    /\ UNCHANGED <<modeVars, stored, inboxVars, planVars, commandVars, exchangeVars, used>>

\* Mutant: only a desk that knows it is in a trade audits its positions.
AuditProtectionInTrade ==
    /\ At("published")
    /\ mode = "IN_TRADE"
    /\ pc' = IF Naked(view) = {} THEN "audited" ELSE "alarm"
    /\ UNCHANGED <<modeVars, stored, inboxVars, planVars, snap, errs, view, commandVars,
                   exchangeVars, used>>

\* The protection audit, which a cooldown may skip: Dispatch is enabled as well.
AuditProtection ==
    /\ At("published")
    /\ mode \notin {"HALT", "SAFE_MODE"}
    /\ pc' = IF Naked(view) = {} THEN "audited" ELSE "alarm"
    /\ UNCHANGED <<modeVars, stored, inboxVars, planVars, snap, errs, view, commandVars,
                   exchangeVars, used>>

RaiseAlarm ==
    /\ At("alarm")
    /\ setMode("cycle", "SAFE_MODE")
    /\ pc' = "audited"
    /\ UNCHANGED <<stored, inboxVars, planVars, snap, errs, view, commandVars, exchangeVars, used>>

\* The audit publish before setMode fails: the catch block goes on without SAFE_MODE.
AlarmLost ==
    /\ At("alarm") /\ Fault
    /\ pc' = "audited"
    /\ UNCHANGED <<modeVars, stored, inboxVars, planVars, snap, errs, view, commandVars, exchangeVars>>

Dispatching == (pc = "published" \/ pc = "audited") /\ Ready("cycle")

SkipHalted ==
    /\ Dispatching /\ mode = "HALT"
    /\ EndCycle
    /\ UNCHANGED <<modeVars, stored, inboxVars, errs, view, commandVars, exchangeVars, used>>

EnterSafeMode ==
    /\ Dispatching /\ mode = "SAFE_MODE"
    /\ pc' = "health"
    /\ UNCHANGED <<modeVars, stored, inboxVars, planVars, snap, errs, view, commandVars,
                   exchangeVars, used>>

Trading == Dispatching /\ mode \notin {"HALT", "SAFE_MODE"}

\* The funding gate: nothing open and too little account value ends every cycle here,
\* before the proposal is looked at and before the mode of a flat desk is.
AwaitFunding ==
    /\ Trading /\ ~Exposed(view) /\ ~funded
    /\ EndCycle
    /\ UNCHANGED <<modeVars, stored, inboxVars, errs, view, commandVars, exchangeVars, used>>

Funded == Trading /\ (Exposed(view) \/ funded)

\* Mutant: a cycle without a proposal leaves the mode alone.
NoCandidateKeepsMode ==
    /\ Funded /\ slot = NoProposal
    /\ EndCycle
    /\ UNCHANGED <<modeVars, stored, inboxVars, errs, view, commandVars, exchangeVars, used>>

NoCandidate ==
    /\ Funded /\ slot = NoProposal
    /\ setModeIf(~Exposed(view) /\ mode # "READY", "cycle", "READY")
    /\ EndCycle
    /\ UNCHANGED <<stored, inboxVars, errs, view, commandVars, exchangeVars, used>>

\* Mutant: the slot keeps the proposal.
TakeProposalTwice ==
    /\ Funded /\ slot # NoProposal
    /\ prop' = slot
    /\ pc' = "selected"
    /\ UNCHANGED <<modeVars, stored, inboxVars, healthy, dec, prev, act, todo, keys, unguarded,
                   snap, errs, view, commandVars, exchangeVars, used>>

TakeProposal ==
    /\ Funded /\ slot # NoProposal
    /\ prop' = slot
    /\ slot' = NoProposal
    /\ pc' = "selected"
    /\ UNCHANGED <<modeVars, stored, sent, healthy, dec, prev, act, todo, keys, unguarded, snap,
                   errs, view, commandVars, exchangeVars, used>>

-------------------------------------------------------------------------------
(* SAFE_MODE: hold, repair the protection, recover.                        *)

SafeModeHold ==
    /\ At("health") /\ Fault
    /\ EndCycle
    /\ UNCHANGED <<modeVars, stored, inboxVars, errs, view, commandVars, exchangeVars>>

\* SAFE_MODE ends: the mode after it follows state.positions.
Recover ==
    /\ setMode("cycle", IF Exposed(view) THEN "IN_TRADE" ELSE "READY")
    /\ errs' = 0
    /\ EndCycle

SafeModeFlat ==
    /\ At("health") /\ ~Exposed(view)
    /\ Recover
    /\ UNCHANGED <<stored, inboxVars, view, commandVars, exchangeVars, used>>

SafeModeExposed ==
    /\ At("health") /\ Exposed(view)
    /\ pc' = "verify"
    /\ UNCHANGED <<modeVars, stored, inboxVars, planVars, snap, errs, view, commandVars,
                   exchangeVars, used>>

\* Mutant: healthy dependencies are enough to leave SAFE_MODE.
VerifyNothing ==
    /\ At("verify")
    /\ pc' = "verified"
    /\ UNCHANGED <<modeVars, stored, inboxVars, planVars, snap, errs, view, commandVars,
                   exchangeVars, used>>

\* The answer to a query of the trigger orders is acted on later (RecoverVerified).
VerifyProtected ==
    /\ At("verify") /\ Naked(view) = {}
    /\ pc' = "verified"
    /\ UNCHANGED <<modeVars, stored, inboxVars, planVars, snap, errs, view, commandVars,
                   exchangeVars, used>>

VerifyNaked ==
    /\ At("verify")
    /\ Costs(Naked(view) = {})
    /\ pc' = "repair"
    /\ UNCHANGED <<modeVars, stored, inboxVars, planVars, snap, errs, view, commandVars, exchangeVars>>

\* Emergency SL/TP: what is missing is placed, as far as the exchange takes it.
Repair ==
    /\ At("repair")
    /\ snap' = view
    /\ \E placed \in [Symbols -> SUBSET Both] :
         /\ Costs(\E s \in Naked(view) : placed[s] # Both)
         /\ trig' = [s \in Symbols |->
                       IF s \in Naked(view) /\ SameSide(view[s], pos[s])
                       THEN trig[s] \cup placed[s] ELSE trig[s]]
    /\ pc' = "recheck"
    /\ UNCHANGED <<modeVars, stored, inboxVars, planVars, errs, view, commandVars, pos, funded,
                   cacheVars>>

RepairFails ==
    /\ At("repair") /\ Fault
    /\ EndCycle
    /\ UNCHANGED <<modeVars, stored, inboxVars, errs, view, commandVars, exchangeVars>>

RecheckProtected ==
    /\ At("recheck") /\ Naked(snap) = {}
    /\ pc' = "verified"
    /\ UNCHANGED <<modeVars, stored, inboxVars, planVars, snap, errs, view, commandVars,
                   exchangeVars, used>>

RecheckNaked ==
    /\ At("recheck")
    /\ Costs(Naked(snap) = {})
    /\ EndCycle
    /\ UNCHANGED <<modeVars, stored, inboxVars, errs, view, commandVars, exchangeVars>>

RecoverVerified ==
    /\ At("verified")
    /\ Recover
    /\ UNCHANGED <<stored, inboxVars, view, commandVars, exchangeVars, used>>

SafeModeCycle ==
    \/ SafeModeHold \/ SafeModeFlat \/ SafeModeExposed
    \/ VerifyProtected \/ VerifyNaked \/ Repair \/ RepairFails
    \/ RecheckProtected \/ RecheckNaked \/ RecoverVerified

-------------------------------------------------------------------------------
(* Evaluation and execution of a proposal.                                 *)

Evaluate ==
    /\ At("selected")
    /\ \E ok, fresh \in BOOLEAN :
         /\ Costs(~ok \/ ~fresh)
         /\ healthy' = ok
         /\ dec' = evaluateRisk(RiskConfig,
                     [state |-> mode, actorType |-> "system", proposal |-> prop,
                      accountValue |-> Account.value, peak |-> Account.peak,
                      positions |-> view, healthy |-> ok,
                      ticks |-> [s \in DOMAIN Ticks |->
                                   [Ticks[s] EXCEPT !.fresh = @ /\ fresh]]])
    /\ pc' = "decided"
    /\ UNCHANGED <<modeVars, stored, inboxVars, prop, prev, act, todo, keys, unguarded, snap,
                   errs, view, commandVars, exchangeVars>>

Deny ==
    /\ At("decided") /\ dec = "DENY"
    /\ setModeIf(~healthy, "cycle", "SAFE_MODE")
    /\ EndCycle
    /\ UNCHANGED <<stored, inboxVars, errs, view, commandVars, exchangeVars, used>>

Opposes(leg, book) == SameSide(-Signed(leg), book[leg.symbol])

\* Mutant: the mode is not read again before an action's legs.
EligibleUnderHalt(action) ==
    {leg \in action.legs :
       /\ leg.symbol \in DOMAIN Ticks
       /\ dec = "ALLOW_REDUCE_ONLY" => Opposes(leg, view)
       /\ action.type = "ENTER" => leg.guards = Both}

\* The legs of one action that will be placed: none under HALT, only legs against an open
\* position when the decision is reduce-only, and no ENTER leg without SL and TP prices.
Eligible(action) ==
    {leg \in action.legs :
       /\ mode # "HALT"
       /\ leg.symbol \in DOMAIN Ticks
       /\ dec = "ALLOW_REDUCE_ONLY" => Opposes(leg, view)
       /\ action.type = "ENTER" => leg.guards = Both}

\* The market may have left an ENTER leg's SL or TP on the wrong side of the price.
StartAction(i) ==
    /\ act' = i
    /\ \E inverted \in SUBSET Eligible(prop.actions[i]) :
         /\ inverted # {} => prop.actions[i].type = "ENTER"
         /\ todo' = Eligible(prop.actions[i]) \ inverted

StartExecution ==
    /\ At("decided") /\ dec # "DENY"
    /\ prev' = mode
    /\ StartAction(1)
    /\ pc' = "placing"
    /\ UNCHANGED <<modeVars, stored, inboxVars, prop, healthy, dec, keys, unguarded, snap, errs,
                   view, commandVars, exchangeVars, used>>

IdempotencyKey(leg) == <<leg.symbol, leg.side, prop.actions[act].type>>

\* Mutant: a leg whose answer is lost is sent again under no key, and both orders may fill.
PlaceLegAgain(leg) ==
    /\ pc = "placing" /\ leg \in todo
    /\ todo' = todo \ {leg}
    /\ \E qty \in 0 .. 2 * leg.usd : Fill(leg.symbol, IF leg.side = "BUY" THEN qty ELSE -qty)
    /\ UNCHANGED <<modeVars, stored, inboxVars, pc, prop, healthy, dec, prev, act, keys, unguarded,
                   snap, errs, view, commandVars, cacheVars, used>>

\* place() of one leg reaches the exchange, which fills any part of it.  An order the
\* exchange has already seen under the same key is not sent again.
PlaceLeg(leg) ==
    /\ pc = "placing" /\ leg \in todo
    /\ todo' = todo \ {leg}
    /\ keys' = keys \cup {IdempotencyKey(leg)}
    /\ \E qty \in 0 .. leg.usd :
         /\ IdempotencyKey(leg) \in keys => qty = 0
         /\ Fill(leg.symbol, IF leg.side = "BUY" THEN qty ELSE -qty)
    /\ UNCHANGED <<modeVars, stored, inboxVars, pc, prop, healthy, dec, prev, act, unguarded, snap,
                   errs, view, commandVars, cacheVars, used>>

NextAction ==
    /\ At("placing") /\ todo = {} /\ act < Len(prop.actions)
    /\ StartAction(act + 1)
    /\ UNCHANGED <<modeVars, stored, inboxVars, pc, prop, healthy, dec, prev, keys, unguarded, snap,
                   errs, view, commandVars, exchangeVars, used>>

Placed == At("placing") /\ todo = {} /\ act = Len(prop.actions)

ReadFills ==
    /\ Placed
    /\ snap' = snapshot.pos /\ getOrFetch
    /\ pc' = "filled"
    /\ UNCHANGED <<modeVars, stored, inboxVars, planVars, errs, view, commandVars, bookVars, used>>

AssignFills ==
    /\ At("filled")
    /\ view' = snap
    /\ snap' = Flat
    /\ pc' = "synced"
    /\ UNCHANGED <<modeVars, stored, inboxVars, planVars, errs, commandVars, exchangeVars, used>>

EnterLegs == UNION {prop.actions[i].legs : i \in {j \in DOMAIN prop.actions :
                                                    prop.actions[j].type = "ENTER"}}
LegsWithTpsl == {leg \in EnterLegs : leg.guards # {}}

\* A second snapshot says which of the ENTER legs have a position to protect.
StartProtection ==
    /\ At("synced") /\ LegsWithTpsl # {}
    /\ snap' = snapshot.pos /\ getOrFetch
    /\ unguarded' = LegsWithTpsl
    /\ pc' = "protect"
    /\ UNCHANGED <<modeVars, stored, inboxVars, prop, healthy, dec, prev, act, todo, keys, errs,
                   view, commandVars, bookVars, used>>

SkipProtection ==
    /\ At("synced")
    /\ Costs(LegsWithTpsl # {})
    /\ setModeIf(LegsWithTpsl # {}, "cycle", "SAFE_MODE")
    /\ pc' = "finish"
    /\ UNCHANGED <<stored, inboxVars, planVars, snap, errs, view, commandVars, exchangeVars>>

\* SL and TP of one leg: those still on the right side of the mark price are sent
\* (valid), the exchange takes some of them (placed) and confirms some (confirmed).
ProtectLeg(leg) ==
    /\ At("protect") /\ leg \in unguarded
    /\ unguarded' = unguarded \ {leg}
    /\ LET s == leg.symbol
       IN  IF snap[s] = 0
           THEN UNCHANGED <<modeVars, trig, used>>
           ELSE \E valid \in SUBSET leg.guards : \E placed \in SUBSET valid :
                \E confirmed \in SUBSET placed :
                  /\ Costs(confirmed # leg.guards)
                  /\ trig' = [trig EXCEPT ![s] = IF SameSide(snap[s], pos[s])
                                                 THEN @ \cup placed ELSE @]
                  /\ setModeIf(valid = {} \/ confirmed # valid, "cycle", "SAFE_MODE")
    /\ UNCHANGED <<stored, inboxVars, pc, prop, healthy, dec, prev, act, todo, keys, snap, errs,
                   view, commandVars, pos, funded, cacheVars>>

EndProtection ==
    /\ At("protect") /\ unguarded = {}
    /\ pc' = "finish"
    /\ snap' = Flat
    /\ UNCHANGED <<modeVars, stored, inboxVars, planVars, errs, view, commandVars, exchangeVars, used>>

\* The mode after execution follows the mode before it and state.positions.
ModeAfterExecution ==
    IF prev = "READY" /\ Exposed(view) THEN setMode("cycle", "IN_TRADE")
    ELSE setModeIf(~Exposed(view) /\ mode # "READY", "cycle", "READY")

Finish ==
    /\ At("finish")
    /\ ModeAfterExecution
    /\ pc' = "posture"
    /\ UNCHANGED <<stored, inboxVars, planVars, snap, errs, view, commandVars, exchangeVars, used>>

Posture ==
    /\ At("posture")
    /\ setModeIf(dec = "ALLOW_REDUCE_ONLY", "cycle", "SAFE_MODE")
    /\ EndCycle
    /\ UNCHANGED <<stored, inboxVars, errs, view, commandVars, exchangeVars, used>>

Execution ==
    \/ StartExecution \/ (\E leg \in Legs : PlaceLeg(leg)) \/ NextAction
    \/ ReadFills \/ AssignFills \/ StartProtection \/ SkipProtection
    \/ (\E leg \in Legs : ProtectLeg(leg)) \/ EndProtection \/ Finish \/ Posture

-------------------------------------------------------------------------------
(* A cycle that throws.                                                    *)

\* The awaits whose rejection reaches the catch block of runCycle: the snapshots and the
\* bus publishes, an action's audits included.
Throwing ==
    \/ pc \in {"idle", "published", "alarm", "selected", "decided", "synced", "protect",
               "finish", "posture"}
    \/ pc = "placing" /\ todo = {}

CycleThrows ==
    /\ Ready("cycle") /\ Throwing
    /\ Fault
    /\ errs' = IF errs < ErrorThreshold THEN errs + 1 ELSE errs
    /\ IF errs' = ErrorThreshold THEN pc' = "panic" ELSE pc' = "idle"
    /\ NoPlan /\ snap' = Flat
    /\ UNCHANGED <<modeVars, stored, inboxVars, view, commandVars, exchangeVars>>

\* The catch block awaits an audit publish of its own.  If that rejects too, the promise
\* of runCycle is rejected and nobody handles it: the process ends.
CatchThrows == Ready("cycle") /\ Throwing /\ Fault /\ Die

\* Mutant: the catch block insists on a legal transition.
PanicIfLegal ==
    /\ At("panic") /\ canTransition(mode, "SAFE_MODE")
    /\ setMode("cycle", "SAFE_MODE")
    /\ EndCycle
    /\ UNCHANGED <<stored, inboxVars, errs, view, commandVars, exchangeVars, used>>

Panic ==
    /\ At("panic")
    /\ setMode("cycle", "SAFE_MODE")
    /\ EndCycle
    /\ UNCHANGED <<stored, inboxVars, errs, view, commandVars, exchangeVars, used>>

-------------------------------------------------------------------------------
(* Operator commands, each already permitted by the command policy.        *)

Receive(command) ==
    /\ command \in Commands
    /\ Up /\ cpc = "idle" /\ Ready("command")
    /\ used.commands < MaxCommands
    /\ used' = [used EXCEPT !.commands = @ + 1]

Halt ==
    /\ Receive("/halt")
    /\ setMode("command", "HALT")
    /\ UNCHANGED <<stored, inboxVars, cycleVars, view, commandVars, exchangeVars>>

Resume ==
    /\ Receive("/resume")
    /\ setMode("command", "READY")
    /\ UNCHANGED <<stored, inboxVars, cycleVars, view, commandVars, exchangeVars>>

Flatten ==
    /\ Receive("/flatten")
    /\ csnap' = snapshot /\ getOrFetch
    /\ cpc' = "cancel"
    /\ UNCHANGED <<modeVars, stored, inboxVars, cycleVars, view, cleft, bookVars>>

NoCommand == cpc' = "idle" /\ csnap' = NoBook /\ cleft' = {}

\* Every open order of the snapshot is cancelled, the SL and TP orders included.
CancelOrders ==
    /\ cpc = "cancel"
    /\ trig' = [s \in Symbols |-> trig[s] \ csnap.trig[s]]
    /\ csnap' = [csnap EXCEPT !.trig = Unprotected]
    /\ cleft' = {s \in Symbols : csnap.pos[s] # 0}
    /\ cpc' = "close"
    /\ UNCHANGED <<modeVars, stored, inboxVars, cycleVars, view, pos, funded, cacheVars, used>>

\* A cancel that throws abandons the command with the orders before it cancelled.
CancelThrows ==
    /\ cpc = "cancel" /\ Fault
    /\ trig' \in {[s \in Symbols |-> IF s \in done THEN trig[s] \ csnap.trig[s] ELSE trig[s]] :
                    done \in SUBSET Symbols}
    /\ NoCommand
    /\ UNCHANGED <<modeVars, stored, inboxVars, cycleVars, view, pos, funded, cacheVars>>

\* The snapshot's notional is traded against the position, with an order that is not
\* reduce-only; a failed order is skipped.
ClosePosition(s) ==
    /\ cpc = "close" /\ s \in cleft
    /\ cleft' = cleft \ {s}
    /\ \E qty \in 0 .. Abs(csnap.pos[s]) : Fill(s, IF csnap.pos[s] > 0 THEN -qty ELSE qty)
    /\ UNCHANGED <<modeVars, stored, inboxVars, cycleVars, view, cpc, csnap, cacheVars, used>>

ReadFlattened ==
    /\ cpc = "close" /\ cleft = {}
    /\ csnap' = [snapshot EXCEPT !.trig = Unprotected] /\ getOrFetch
    /\ cpc' = "assign"
    /\ UNCHANGED <<modeVars, stored, inboxVars, cycleVars, view, cleft, bookVars, used>>

AssignFlattened ==
    /\ cpc = "assign"
    /\ view' = csnap.pos
    /\ csnap' = NoBook
    /\ cpc' = "settle"
    /\ UNCHANGED <<modeVars, stored, inboxVars, cycleVars, cleft, exchangeVars, used>>

Settle ==
    /\ cpc = "settle"
    /\ CASE mode = "HALT" -> UNCHANGED modeVars
         [] mode # "HALT" /\ Exposed(view) ->
              setModeIf(mode # "SAFE_MODE", "command", "SAFE_MODE")
         [] OTHER -> setModeIf(mode # "READY", "command", "READY")
    /\ NoCommand
    /\ UNCHANGED <<stored, inboxVars, cycleVars, view, exchangeVars, used>>

\* The closing snapshot or an audit publish throws.
FlattenThrows ==
    /\ cpc \in {"close", "settle"}
    /\ Fault
    /\ NoCommand
    /\ UNCHANGED <<modeVars, stored, inboxVars, cycleVars, view, exchangeVars>>

FlattenStep ==
    \/ CancelOrders \/ (\E s \in Symbols : ClosePosition(s))
    \/ ReadFlattened \/ AssignFlattened \/ Settle

Command == Halt \/ Resume \/ Flatten \/ FlattenStep \/ CancelThrows \/ FlattenThrows

-------------------------------------------------------------------------------
\* The table is empty or holds whatever an earlier life of the process wrote, and the
\* exchange holds whatever that life, or the owner of the account, left there.
Init ==
    /\ mode = "INIT" /\ stored \in TradeStates \cup {"none"}
    /\ pend = [a \in Activities |-> "none"]
    /\ newest = "cycle" /\ lost = FALSE
    /\ slot = NoProposal /\ sent = {}
    /\ pc = "down" /\ prop = NoProposal /\ healthy = TRUE /\ dec = "none" /\ prev = "none"
    /\ act = 0 /\ todo = {} /\ keys = {} /\ unguarded = {}
    /\ snap = Flat /\ view = Flat /\ errs = 0
    /\ cpc = "idle" /\ csnap = NoBook /\ cleft = {}
    /\ \E book \in StartBooks : pos = book.pos /\ trig = book.trig
    /\ funded \in Fundings /\ held = FALSE /\ copy = NoBook
    /\ used = [faults |-> 0, crashes |-> 0, commands |-> 0, fires |-> 0]

\* The trading cycle when nothing throws and the protection audit is not skipped.
CycleStep ==
    \/ Sync \/ Mark \/ AuditProtection \/ RaiseAlarm
    \/ SkipHalted \/ EnterSafeMode \/ AwaitFunding \/ NoCandidate \/ TakeProposal
    \/ SafeModeCycle \/ Evaluate \/ Deny \/ Execution \/ Panic

Persist == \E a \in Activities : saveSystemState(a)

Environment ==
    \/ Crash \/ BootSaveFails \/ AlarmLost \/ CycleThrows \/ CatchThrows
    \/ (\E a \in Activities : saveFails(a))
    \/ (\E p \in Proposals : Propose(p)) \/ Expire
    \/ (\E s \in Symbols : TriggerFires(s)) \/ CacheExpires \/ AccountMoves

Next == Boot \/ CycleStep \/ Persist \/ Command \/ Environment

Spec == Init /\ [][Next]_vars

\* The event loop runs what is ready to run: a suspended cycle, command or write goes on,
\* the process is restarted, a cached answer expires, and the audit's cooldown elapses over
\* and over.
Fairness ==
    /\ WF_vars(Boot) /\ WF_vars(CycleStep) /\ WF_vars(FlattenStep)
    /\ \A a \in Activities : WF_vars(saveSystemState(a))
    /\ WF_vars(CacheExpires) /\ SF_vars(AuditProtection)

FairSpec == Spec /\ Fairness
===============================================================================
