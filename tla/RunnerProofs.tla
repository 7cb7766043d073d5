------------------------------ MODULE RunnerProofs ------------------------------
(***************************************************************************)
(* Theorems about the agent runner.  They hold for every value of its      *)
(* constants: whatever symbols there are, which codes force an exit, how   *)
(* many publications throw, how often the process is restarted and how     *)
(* often the desk changes its mode.  AgentProofs applies them to the three *)
(* instances of the runner that DeskServices has.                          *)
(***************************************************************************)
EXTENDS AgentRunner, TLAPS

Behaviour == Init /\ [][Next]_vars

-------------------------------------------------------------------------------
(* A denial in force overrides the strategist                                 *)

\* The history variable says no more than that a denial is in force; so the recovery that is read
\* after the model has answered is not empty, the plan of an entry is reached without a denial,
\* and what is announced under one is an exit.
RecoveryIInv ==
  /\ messages \in Seq(ForceExitCodes)
  /\ deniedSinceCall \in BOOLEAN
  /\ deniedSinceCall => Denied
  /\ pc = "propose" => recovery # {}
  /\ pc \in {"entryBasket", "build"} => ~deniedSinceCall
  /\ RecoveryOverridesStrategist

\* Every agent starts with it.
LEMMA RecoveryInit == Init => RecoveryIInv
  <1>1. <<>> \in Seq(ForceExitCodes)
    OBVIOUS
  <1>2. QED
    BY <1>1 DEF Init, RecoveryIInv, RecoveryOverridesStrategist

\* Under a nonempty recovery only an exit is announced; without a denial nothing is claimed.
LEMMA ProposalUnderRecovery ==
  ASSUME NEW codes, ProposeUnder(codes), pc \in {"decide", "propose"},
         deniedSinceCall \in BOOLEAN, deniedSinceCall => codes # {}
  PROVE  /\ deniedSinceCall' \in BOOLEAN /\ (deniedSinceCall' => deniedSinceCall)
         /\ pc' \in {"scribe", "announce", "entryBasket"}
         /\ pc' = "entryBasket" => ~deniedSinceCall'
         /\ RecoveryOverridesStrategist'
  <1> USE DEF RecoveryOverridesStrategist, NoAction, EndOfLocals, Goto, Announce
  <1>1. CASE ExitWhenFlat(codes)
    BY <1>1 DEF ExitWhenFlat
  <1>2. CASE ExitPositions(codes)
    <2>1. NoAction \/ Announce(buildExitProposal(codes))
      BY <1>2 DEF ExitPositions
    <2>2. buildExitProposal(codes).type = "EXIT"
      BY DEF buildExitProposal
    <2>3. QED
      BY <2>1, <2>2
  <1>3. CASE Open(codes)
    <2>1. codes = {}
      BY <1>3 DEF Open, Forced, Directive
    <2>2. ~deniedSinceCall
      BY <2>1
    <2>3. \/ NoAction \/ Goto("entryBasket", NoProposal) \/ \E p : Goto("announce", p)
      BY <1>3 DEF Open, BuildEntry
    <2>4. /\ deniedSinceCall' = FALSE
          /\ pc' = "scribe" \/ pc' = "entryBasket" \/ pc' = "announce"
      BY <2>2, <2>3
    <2>5. QED
      BY <2>4
  <1>4. CASE Hold(codes)
    BY <1>4 DEF Hold
  <1>5. QED
    BY <1>1, <1>2, <1>3, <1>4 DEF ProposeUnder

\* Every step of the agent and of its environment keeps it.
LEMMA RecoveryStep == RecoveryIInv /\ [Next]_vars => RecoveryIInv'
  <1> SUFFICES ASSUME RecoveryIInv, [Next]_vars PROVE RecoveryIInv'
    OBVIOUS
  <1> USE DEF RecoveryIInv
  <1> DEFINE Kept == /\ messages' = messages /\ lastRiskDecision' = lastRiskDecision
                     /\ lastStateRiskMessage' = lastStateRiskMessage
  <1>1. Kept => Denied' = Denied
    BY DEF Denied, shouldForceRiskRecovery
  <1>2. CASE UNCHANGED vars
    BY <1>1, <1>2 DEF vars, feedVars, busVars, cycleVars, history, RecoveryOverridesStrategist
  <1>3. CASE OnStateUpdate
    <2>1. Denied => Denied'
      BY <1>3 DEF OnStateUpdate, stateRiskMessage, Denied, shouldForceRiskRecovery
    <2>2. messages' \in Seq(ForceExitCodes)
      BY <1>3 DEF OnStateUpdate
    <2>3. QED
      BY <1>3, <2>1, <2>2 DEF OnStateUpdate, cycleVars, history, RecoveryOverridesStrategist
  <1>4. CASE OnNoPositions \/ OnPositions
    BY <1>1, <1>4 DEF OnNoPositions, OnPositions, busVars, cycleVars, history,
                      RecoveryOverridesStrategist
  <1>5. CASE OnRiskDecision
    BY <1>5 DEF OnRiskDecision, cycleVars, RecoveryOverridesStrategist
  <1>6. CASE Load \/ FlushLands
    BY <1>1, <1>6 DEF Load, FlushLands, busVars, feedVars, cycleVars, history,
                      RecoveryOverridesStrategist
  <1>7. CASE BasketSelected \/ BasketKept
    <2>1. /\ Kept /\ pc \in DOMAIN AfterBasket /\ pc' = AfterBasket[pc]
          /\ deniedSinceCall' = (deniedSinceCall \/ (pc' = "directive" /\ Denied))
      BY <1>7 DEF BasketSelected, BasketKept, busVars, feedVars
    <2>2. pc' \in {"idle", "research", "directive", "build"}
          /\ (pc' = "build" => pc = "entryBasket")
      BY <2>1 DEF AfterBasket
    <2>3. QED
      BY <1>1, <2>1, <2>2 DEF RecoveryOverridesStrategist
  <1>8. CASE StartPipeline \/ ResearchDone \/ RiskDone \/ ReportDone \/ ScribeDone
    BY <1>1, <1>8 DEF StartPipeline, ResearchDone, RiskDone, ReportDone, ScribeDone, busVars,
                      feedVars, cycleVars, history, RecoveryOverridesStrategist
  <1>9. CASE BeginCycle
    BY <1>1, <1>9 DEF BeginCycle, busVars, feedVars, RecoveryOverridesStrategist
  <1>10. CASE DirectiveDone
    BY <1>1, <1>10 DEF DirectiveDone, busVars, feedVars, cycleVars, history,
                       RecoveryOverridesStrategist
  <1>11. CASE CheckRecovery
    <2>1. Kept /\ pc = "decide"
      BY <1>11 DEF CheckRecovery, busVars, feedVars
    <2>2. CASE shouldForceRiskRecovery = {} /\ ProposeUnder({})
      <3>1. ~deniedSinceCall
        BY <2>2 DEF Denied
      <3>2. QED
        BY <1>1, <2>1, <2>2, <3>1, ProposalUnderRecovery
    <2>3. CASE /\ shouldForceRiskRecovery # {} /\ pc' = "propose"
               /\ recovery' = shouldForceRiskRecovery /\ UNCHANGED history
      BY <1>1, <2>1, <2>3 DEF history, RecoveryOverridesStrategist
    <2>4. QED
      BY <1>11, <2>2, <2>3 DEF CheckRecovery
  <1>12. CASE Propose
    <2>1. Kept /\ pc = "propose" /\ ProposeUnder(recovery)
      BY <1>12 DEF Propose, busVars, feedVars
    <2>2. QED
      BY <1>1, <2>1, ProposalUnderRecovery
  <1>13. CASE ProposeAfterSelection
    <2>1. Kept /\ ~deniedSinceCall
      BY <1>13 DEF ProposeAfterSelection, busVars, feedVars
    <2>2. NoAction \/ \E p : Goto("announce", p)
      BY <1>13 DEF ProposeAfterSelection, BuildEntry, Announce
    <2>3. deniedSinceCall' = FALSE /\ (pc' = "scribe" \/ pc' = "announce")
      BY <2>1, <2>2 DEF NoAction, EndOfLocals, Goto
    <2>4. QED
      BY <2>1, <2>3 DEF RecoveryOverridesStrategist
  <1>14. CASE PublishProposal \/ PublishThrows
    BY <1>1, <1>14 DEF PublishProposal, PublishThrows, EndOfLocals, feedVars,
                       RecoveryOverridesStrategist
  <1>15. CASE Crash
    <2>1. <<>> \in Seq(ForceExitCodes)
      OBVIOUS
    <2>2. messages' = <<>> /\ pc' = "dead" /\ deniedSinceCall' = FALSE
      BY <1>15 DEF Crash, EndOfLocals
    <2>3. QED
      BY <2>1, <2>2 DEF RecoveryOverridesStrategist
  <1>16. CASE Restart \/ UniverseAges \/ ModeChanges \/ TriggerFires
    BY <1>1, <1>16 DEF Restart, UniverseAges, ModeChanges, TriggerFires, agentVars, busVars, feedVars,
                       cycleVars, history, RecoveryOverridesStrategist
  <1>17. CASE DeskTakesProposal
    BY <1>1, <1>17 DEF DeskTakesProposal, agentVars, feedVars, cycleVars, history,
                       RecoveryOverridesStrategist
  <1>18. CASE DeskDenies
    <2>1. messages' \in Seq(ForceExitCodes)
      BY <1>18 DEF DeskDenies, Send
    <2>2. Denied' = Denied
      BY <1>18 DEF DeskDenies, agentVars, feedVars, Denied, shouldForceRiskRecovery
    <2>3. QED
      BY <1>18, <2>1, <2>2 DEF DeskDenies, agentVars, cycleVars, history, RecoveryOverridesStrategist
  <1>19. CASE RecoveryExpires
    BY <1>19 DEF RecoveryExpires, busVars, cycleVars, RecoveryOverridesStrategist
  <1>20. QED
    BY <1>2, <1>3, <1>4, <1>5, <1>6, <1>7, <1>8, <1>9, <1>10, <1>11, <1>12, <1>13, <1>14, <1>15,
       <1>16, <1>17, <1>18, <1>19
    DEF Next, Handlers, Agent, Pipeline, Environment

\* A denial that came before the strategist was asked and is still in force when its answer is
\* turned into a proposal lets nothing but an exit out, whatever the model answers.
THEOREM RecoveryOverrides == Behaviour => []RecoveryOverridesStrategist
  <1>1. RecoveryIInv => RecoveryOverridesStrategist
    BY DEF RecoveryIInv
  <1>2. QED
    BY <1>1, RecoveryInit, RecoveryStep, PTL DEF Behaviour

-------------------------------------------------------------------------------
(* No proposal twice                                                          *)

\* Between two proposals the signature that is kept is the one of the last message handed to the
\* stream, or nothing has been handed to it yet; it changes before the next message is handed over
\* and not with it, so that a publication that throws leaves it right.
SignatureIInv ==
  /\ IF pc = "announce" THEN lastStrategyProposalSignature = proposalSignature(proposal)
     ELSE lastSent \in {NoSignature, lastStrategyProposalSignature}
  /\ NoProposalTwice

\* Every agent starts with it.
LEMMA SignatureInit == Init => SignatureIInv
  BY DEF Init, SignatureIInv, NoProposalTwice

\* The signature of a proposal is not the absence of one.
LEMMA SignatureIsOne == \A p : proposalSignature(p) # NoSignature
  <1>1. \A p : "type" \in DOMAIN proposalSignature(p)
    BY DEF proposalSignature
  <1>2. "type" \notin DOMAIN NoSignature
    BY DEF NoSignature
  <1>3. QED
    BY <1>1, <1>2

\* What is announced has a new signature, which is kept.
LEMMA AnnouncementIsNew ==
  ASSUME NEW p, Announce(p), UNCHANGED lastSent, SignatureIInv, pc # "announce"
  PROVE  SignatureIInv'
  <1>1. CASE NoAction
    BY <1>1 DEF SignatureIInv, NoProposalTwice, NoAction
  <1>2. CASE Goto("announce", p) /\ lastStrategyProposalSignature' = proposalSignature(p)
             /\ proposalSignature(p) # lastStrategyProposalSignature
    <2>1. proposal' = p /\ pc' = "announce" /\ lastSent' = lastSent
      BY <1>2 DEF Goto
    <2>2. lastSent # proposalSignature(p)
      BY <1>2, SignatureIsOne DEF SignatureIInv
    <2>3. proposalSignature(proposal)' = proposalSignature(p)
      BY <2>1 DEF proposalSignature
    <2>4. QED
      BY <1>2, <2>1, <2>2, <2>3 DEF SignatureIInv, NoProposalTwice
  <1>3. QED
    BY <1>1, <1>2 DEF Announce

\* A decision that is not announced keeps it as well.
LEMMA ProposalIsNew ==
  ASSUME NEW codes, ProposeUnder(codes), UNCHANGED lastSent, SignatureIInv, pc # "announce"
  PROVE  SignatureIInv'
  <1>1. \/ NoAction
        \/ Goto("entryBasket", NoProposal) /\ UNCHANGED lastStrategyProposalSignature
        \/ \E p : Announce(p)
    BY DEF ProposeUnder, ExitWhenFlat, ExitPositions, Open, Hold, BuildEntry
  <1>2. CASE \/ NoAction
             \/ Goto("entryBasket", NoProposal) /\ UNCHANGED lastStrategyProposalSignature
    BY <1>2 DEF SignatureIInv, NoProposalTwice, NoAction, Goto
  <1>3. ASSUME NEW p, Announce(p) PROVE SignatureIInv'
    BY <1>3, AnnouncementIsNew
  <1>4. QED
    BY <1>1, <1>2, <1>3

\* Every step of the agent and of its environment keeps it.
LEMMA SignatureStep == SignatureIInv /\ [Next]_vars => SignatureIInv'
  <1> SUFFICES ASSUME SignatureIInv, [Next]_vars PROVE SignatureIInv'
    OBVIOUS
  <1> DEFINE Kept == /\ lastSent' = lastSent /\ proposal' = proposal
                     /\ lastStrategyProposalSignature' = lastStrategyProposalSignature
             Still == Kept /\ (pc' = pc \/ "announce" \notin {pc, pc'})
  <1>1. ASSUME Still PROVE SignatureIInv'
    BY <1>1 DEF SignatureIInv, NoProposalTwice, proposalSignature
  <1>2. CASE UNCHANGED vars
    BY <1>1, <1>2 DEF vars, busVars, cycleVars, signatures
  <1>3. CASE Handlers \/ Load \/ FlushLands \/ Restart
    BY <1>1, <1>3 DEF Handlers, OnStateUpdate, OnNoPositions, OnPositions, OnRiskDecision, Load,
                      FlushLands, Restart, busVars, cycleVars, signatures
  <1>4. CASE BasketSelected \/ BasketKept
    <2>1. Kept /\ pc \in DOMAIN AfterBasket /\ pc' = AfterBasket[pc]
      BY <1>4 DEF BasketSelected, BasketKept, busVars, cycleVars, signatures
    <2>2. pc # "announce" /\ pc' # "announce"
      BY <2>1 DEF AfterBasket
    <2>3. QED
      BY <1>1, <2>1, <2>2
  <1>5. CASE StartPipeline \/ ResearchDone \/ RiskDone \/ BeginCycle \/ DirectiveDone
             \/ ReportDone \/ ScribeDone
    BY <1>1, <1>5 DEF StartPipeline, ResearchDone, RiskDone, BeginCycle, DirectiveDone, ReportDone,
                      ScribeDone, busVars, cycleVars, signatures
  <1>6. CASE CheckRecovery
    <2>1. UNCHANGED lastSent /\ pc = "decide"
      BY <1>6 DEF CheckRecovery, busVars
    <2>2. CASE ProposeUnder({})
      BY <2>1, <2>2, ProposalIsNew
    <2>3. CASE pc' = "propose" /\ UNCHANGED <<signatures, proposal>>
      BY <1>1, <2>1, <2>3 DEF signatures
    <2>4. QED
      BY <1>6, <2>2, <2>3 DEF CheckRecovery
  <1>7. CASE Propose
    <2>1. UNCHANGED lastSent /\ pc = "propose" /\ ProposeUnder(recovery)
      BY <1>7 DEF Propose, busVars
    <2>2. QED
      BY <2>1, ProposalIsNew
  <1>8. CASE ProposeAfterSelection
    <2>1. UNCHANGED lastSent /\ pc = "build" /\ (NoAction \/ \E p : Announce(p))
      BY <1>8 DEF ProposeAfterSelection, busVars, BuildEntry
    <2>2. CASE NoAction
      BY <2>1, <2>2 DEF SignatureIInv, NoProposalTwice, NoAction
    <2>3. ASSUME NEW p, Announce(p) PROVE SignatureIInv'
      BY <2>1, <2>3, AnnouncementIsNew
    <2>4. QED
      BY <2>1, <2>2, <2>3
  <1>9. CASE PublishProposal \/ PublishThrows
    BY <1>9 DEF PublishProposal, PublishThrows, signatures, SignatureIInv, NoProposalTwice
  <1>10. CASE Crash
    BY <1>10 DEF Crash, SignatureIInv, NoProposalTwice
  <1>11. CASE Environment
    BY <1>1, <1>11 DEF Environment, UniverseAges, DeskTakesProposal, DeskDenies, TriggerFires,
                       ModeChanges, RecoveryExpires, agentVars, busVars, cycleVars, signatures
  <1>12. QED
    BY <1>2, <1>3, <1>4, <1>5, <1>6, <1>7, <1>8, <1>9, <1>10, <1>11 DEF Next, Agent, Pipeline

\* Between two starts of the agent no proposal is handed to the stream twice in a row, also when a
\* publication throws after its message has landed.
THEOREM ProposalsDiffer == Behaviour => []NoProposalTwice
  <1>1. SignatureIInv => NoProposalTwice
    BY DEF SignatureIInv
  <1>2. QED
    BY <1>1, SignatureInit, SignatureStep, PTL DEF Behaviour

-------------------------------------------------------------------------------
(* The journal covers the positions                                           *)

\* Every agent starts with it.
LEMMA JournalInit == Init => JournalCoversPositions
  BY DEF Init, JournalCoversPositions, HeldIn, Flat

\* It is inductive as it stands: a load adds to what the first reports have opened, and what a
\* report opens or closes is decided against the report before.
LEMMA JournalStep == JournalCoversPositions /\ [Next]_vars => JournalCoversPositions'
  <1> SUFFICES ASSUME JournalCoversPositions, JournalRuns, [Next]_vars
               PROVE  (HeldIn(lastPositions) \subseteq openTrades)'
    BY DEF JournalCoversPositions
  <1>1. HeldIn(lastPositions) \subseteq openTrades
    BY DEF JournalCoversPositions
  <1>2. ASSUME lastPositions' = lastPositions, openTrades \subseteq openTrades'
        PROVE  (HeldIn(lastPositions) \subseteq openTrades)'
    BY <1>1, <1>2 DEF HeldIn
  <1>3. ASSUME lastPositions' = Flat PROVE (HeldIn(lastPositions) \subseteq openTrades)'
    BY <1>3 DEF HeldIn, Flat
  <1>4. CASE OnPositions
    <2>1. lastPositions' = book /\ openTrades' = reconciled(book, lastPositions)
      BY <1>4 DEF OnPositions
    <2>2. HeldIn(book) \subseteq reconciled(book, lastPositions)
      BY <1>1 DEF reconciled
    <2>3. QED
      BY <2>1, <2>2 DEF HeldIn
  <1>5. CASE OnNoPositions \/ Crash
    BY <1>3, <1>5 DEF OnNoPositions, Crash
  <1>6. CASE UNCHANGED vars \/ OnStateUpdate \/ OnRiskDecision \/ Load \/ FlushLands \/ BasketSelected
             \/ BasketKept \/ Restart
    BY <1>2, <1>6 DEF vars, OnStateUpdate, OnRiskDecision, Load, load, FlushLands, BasketSelected,
                      BasketKept, Restart, feedVars, journalVars
  <1>7. CASE Pipeline \/ PublishThrows
    BY <1>2, <1>7 DEF Pipeline, StartPipeline, ResearchDone, RiskDone, BeginCycle, DirectiveDone,
                      CheckRecovery, Propose, ProposeAfterSelection, PublishProposal, ReportDone,
                      ScribeDone, PublishThrows, feedVars, journalVars
  <1>8. CASE Environment
    BY <1>2, <1>8 DEF Environment, UniverseAges, DeskTakesProposal, DeskDenies, TriggerFires,
                      ModeChanges, RecoveryExpires, agentVars, feedVars, journalVars
  <1>9. QED
    BY <1>4, <1>5, <1>6, <1>7, <1>8 DEF Next, Handlers, Agent

\* A symbol held in the last report has an open trade, across a load that ends after the first
\* reports and across restarts.
THEOREM JournalCovers == Behaviour => []JournalCoversPositions
  BY JournalInit, JournalStep, PTL DEF Behaviour
================================================================================
