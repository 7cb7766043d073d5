------------------------------ MODULE DeskProofs ------------------------------
(***************************************************************************)
(* Theorems about the trading loop of Orchestrator, for every set of       *)
(* symbols and proposals, every risk policy and every bound.               *)
(***************************************************************************)
EXTENDS DeskHistory, SumProofs, TLAPS

\* While a cycle works on a proposal it has one, and while it places legs it has an action.
Working == {"selected", "decided", "placing", "filled", "synced"}
PlanKept ==
    /\ pc \in Working => prop \in Proposals
    /\ pc = "placing" => act \in DOMAIN prop.actions
IInv == TypeOK /\ PlanKept

-------------------------------------------------------------------------------
(* Facts about the operators of the model.                                 *)

\* The risk engine answers with one of its three decisions.
LEMMA DecisionType == \A config, ctx : evaluateRisk(config, ctx) \in Decisions
  BY DEF evaluateRisk, Decisions

\* Every leg the cycle may hold is a leg of the proposal schema.
LEMMA LegType == \A p \in Proposals : \A i \in DOMAIN p.actions :
                    /\ p.actions[i].legs \subseteq Leg
                    /\ p.actions[i].legs \subseteq Legs
  <1> SUFFICES ASSUME NEW p \in Proposals, NEW i \in DOMAIN p.actions
               PROVE  /\ p.actions[i].legs \subseteq Leg
                      /\ p.actions[i].legs \subseteq Legs
    OBVIOUS
  <1>1. p.actions[i] \in Action
    BY ProposalsAssumption
  <1>2. p.actions[i].legs \subseteq Leg
    BY <1>1 DEF Action
  <1>3. p.actions[i].legs \subseteq Legs
    BY DEF Legs
  <1>4. QED
    BY <1>2, <1>3

\* So is any leg of any proposal.
LEMMA LegsType == Legs \subseteq Leg
  <1> SUFFICES ASSUME NEW leg \in Legs PROVE leg \in Leg
    OBVIOUS
  <1>1. PICK p \in Proposals : \E i \in DOMAIN p.actions : leg \in p.actions[i].legs
    BY DEF Legs
  <1>2. QED
    BY <1>1, LegType

\* A proposal has a first action.
LEMMA FirstAction == \A p \in Proposals : Len(p.actions) \in Nat /\ 1 \in DOMAIN p.actions
  BY ProposalsAssumption

\* setMode leaves the mode variables well typed.
LEMMA SetModeType ==
  ASSUME ModesOK, NEW a \in Activities, NEW m \in TradeStates, setMode(a, m)
  PROVE  /\ mode' \in TradeStates /\ pend' \in [Activities -> ModeOrNone \cup {"obsolete"}]
         /\ newest' \in Activities /\ lost' \in BOOLEAN
  BY DEF ModesOK, setMode, modeVars, ModeOrNone

\* A fill leaves the books well typed.
LEMMA FillType ==
  ASSUME BooksOK, NEW s \in Symbols, NEW n \in Int, Fill(s, n)
  PROVE  pos' \in Books /\ trig' \in [Symbols -> SUBSET Both] /\ funded' \in BOOLEAN
  BY DEF BooksOK, Books, Fill

\* A fault or none leaves the counters well typed.
LEMMA CostsType ==
  ASSUME UsedOK
  PROVE  /\ Fault => UsedOK'
         /\ \A failed \in BOOLEAN : Costs(failed) => UsedOK'
  BY DEF UsedOK, Fault, Costs

\* The empty book and the empty set of triggers are well typed.
LEMMA FlatType == Flat \in Books /\ Unprotected \in [Symbols -> SUBSET Both]
  BY DEF Flat, Books, Unprotected

\* What a snapshot returns, and what it leaves in the cache, are well typed.
LEMMA SnapshotType ==
  ASSUME BooksOK
  PROVE  /\ snapshot \in [pos : Books, trig : [Symbols -> SUBSET Both]]
         /\ NoBook \in [pos : Books, trig : [Symbols -> SUBSET Both]]
         /\ getOrFetch => /\ held' \in BOOLEAN
                          /\ copy' \in [pos : Books, trig : [Symbols -> SUBSET Both]]
  BY FlatType, CachedAssumption DEF BooksOK, snapshot, NoBook, getOrFetch

\* A cycle that ends leaves no plan.
LEMMA EndCycleType ==
  ASSUME EndCycle, errs' \in 0 .. ErrorThreshold
  PROVE  PlanOK' /\ PlanKept' /\ snap' \in Books
  BY FlatType DEF EndCycle, NoPlan, PlanOK, PlanKept, Plans, ModeOrNone, Working

\* A process that ends leaves what a fresh one starts from.
LEMMA DieType ==
  ASSUME IInv, Die
  PROVE  ModesOK' /\ InboxOK' /\ PlanOK' /\ CommandOK' /\ BooksOK' /\ PlanKept'
  <1> USE DEF IInv, TypeOK
  <1>1. ModesOK'
    <2>1. mode' \in TradeStates /\ newest' \in Activities /\ lost' \in BOOLEAN
      BY DEF Die, TradeStates, Activities
    <2>2. pend' \in [Activities -> ModeOrNone \cup {"obsolete"}]
      BY DEF Die, ModeOrNone
    <2>3. stored' \in ModeOrNone
      BY DEF Die, ModesOK
    <2>4. QED
      BY <2>1, <2>2, <2>3 DEF ModesOK
  <1>2. InboxOK'
    BY DEF Die, InboxOK, Plans
  <1>3. PlanOK' /\ PlanKept'
    BY ThresholdAssumption DEF Die, NoPlan, PlanOK, PlanKept, Plans, ModeOrNone, Working,
       BootPcs
  <1>4. CommandOK'
    BY FlatType DEF Die, CommandOK, NoBook
  <1>5. BooksOK'
    BY FlatType DEF Die, BooksOK, NoBook, bookVars
  <1>6. QED
    BY <1>1, <1>2, <1>3, <1>4, <1>5

\* The mode that setModeIf sets, or the one there is, is well typed.
LEMMA SetModeIfType ==
  ASSUME ModesOK, NEW a \in Activities, NEW m \in TradeStates, NEW c \in BOOLEAN,
         setModeIf(c, a, m), stored' = stored
  PROVE  ModesOK'
  BY SetModeType DEF ModesOK, setModeIf, modeVars

-------------------------------------------------------------------------------
(* The inductive invariant, action by action.                              *)

\* Every step keeps the types and the plan.
LEMMA TypeStep == IInv /\ [Next]_vars => IInv'
  <1> SUFFICES ASSUME IInv, [Next]_vars PROVE IInv'
    OBVIOUS
  <1> USE DEF IInv, TypeOK, ModesOK, InboxOK, PlanOK, CommandOK, BooksOK, UsedOK, PlanKept,
     Working, modeVars, inboxVars, planVars, cycleVars, commandVars, bookVars,
     cacheVars, exchangeVars
  <1>1. CASE BootRead
    BY <1>1 DEF BootRead, ResumedMode, TradeStates, ModeOrNone, Activities, BootPcs
  <1>2. CASE BootWarmup
    BY <1>2, SetModeIfType DEF BootWarmup, TradeStates, Activities, BootPcs
  <1>3. CASE BootReady
    BY <1>3, SetModeType DEF BootReady, TradeStates, Activities, BootPcs
  <1>4. CASE BootDone
    BY <1>4 DEF BootDone
  <1>5. CASE Sync
    BY <1>5, SnapshotType DEF Sync, CyclePcs
  <1>6. CASE Mark
    BY <1>6, FlatType, ThresholdAssumption DEF Mark, CyclePcs
  <1>7. CASE AuditProtection
    BY <1>7 DEF AuditProtection, CyclePcs
  <1>8. CASE RaiseAlarm
    BY <1>8, SetModeType DEF RaiseAlarm, TradeStates, Activities, CyclePcs
  <1>9. CASE SkipHalted
    BY <1>9, EndCycleType DEF SkipHalted
  <1>10. CASE EnterSafeMode
    BY <1>10 DEF EnterSafeMode, CyclePcs
  <1>11. CASE AwaitFunding
    BY <1>11, EndCycleType, CostsType DEF AwaitFunding
  <1>12. CASE NoCandidate
    BY <1>12, EndCycleType, SetModeIfType DEF NoCandidate, TradeStates, Activities
  <1>13. CASE TakeProposal
    BY <1>13 DEF TakeProposal, CyclePcs, Plans
  <1>14. CASE SafeModeHold
    BY <1>14, EndCycleType, CostsType DEF SafeModeHold
  <1>15. CASE SafeModeFlat
    BY <1>15, EndCycleType, SetModeType, ThresholdAssumption DEF SafeModeFlat, Recover,
       TradeStates, Activities
  <1>16. CASE SafeModeExposed
    BY <1>16 DEF SafeModeExposed, CyclePcs
  <1>17. CASE VerifyProtected
    BY <1>17 DEF VerifyProtected, CyclePcs
  <1>18. CASE VerifyNaked
    BY <1>18, CostsType DEF VerifyNaked, CyclePcs
  <1>19. CASE Repair
    <2>1. UsedOK'
      BY <1>19, CostsType DEF Repair
    <2>2. BooksOK'
      BY <1>19 DEF Repair
    <2>3. ModesOK' /\ InboxOK' /\ PlanOK' /\ CommandOK' /\ PlanKept'
      BY <1>19 DEF Repair, CyclePcs
    <2>4. QED
      BY <2>1, <2>2, <2>3
  <1>20. CASE RepairFails
    BY <1>20, EndCycleType, CostsType DEF RepairFails
  <1>21. CASE RecheckProtected
    BY <1>21 DEF RecheckProtected, CyclePcs
  <1>22. CASE RecoverVerified
    BY <1>22, EndCycleType, SetModeType, ThresholdAssumption DEF RecoverVerified, Recover,
       TradeStates, Activities
  <1>23. CASE RecheckNaked
    BY <1>23, EndCycleType, CostsType DEF RecheckNaked
  <1>24. CASE Evaluate
    <2>1. UsedOK' /\ healthy' \in BOOLEAN
      BY <1>24, CostsType DEF Evaluate
    <2>2. dec' \in Decisions
      BY <1>24, DecisionType DEF Evaluate
    <2>3. PlanOK' /\ PlanKept'
      BY <1>24, <2>1, <2>2 DEF Evaluate, At, CyclePcs
    <2>4. ModesOK' /\ InboxOK' /\ CommandOK' /\ BooksOK'
      BY <1>24 DEF Evaluate
    <2>5. QED
      BY <2>1, <2>3, <2>4
  <1>25. CASE Deny
    BY <1>25, EndCycleType, SetModeIfType DEF Deny, TradeStates, Activities
  <1>26. CASE StartExecution
    <2>1. prop \in Proposals /\ 1 \in DOMAIN prop.actions
      BY <1>26, FirstAction DEF StartExecution, At
    <2>2. act' = 1 /\ todo' \subseteq Legs
      BY <1>26, <2>1, LegType DEF StartExecution, StartAction, Eligible
    <2>3. PlanOK' /\ PlanKept'
      BY <1>26, <2>1, <2>2 DEF StartExecution, CyclePcs, ModeOrNone
    <2>4. ModesOK' /\ InboxOK' /\ CommandOK' /\ BooksOK' /\ UsedOK'
      BY <1>26 DEF StartExecution
    <2>5. QED
      BY <2>3, <2>4
  <1>27. ASSUME NEW leg \in Legs, PlaceLeg(leg) PROVE IInv'
    BY <1>27, LegsType, FillType DEF PlaceLeg, Leg
  <1>28. CASE NextAction
    <2>1. prop \in Proposals /\ act + 1 \in DOMAIN prop.actions
      BY <1>28, ProposalsAssumption DEF NextAction, At
    <2>2. act' = act + 1 /\ todo' \subseteq Legs
      BY <1>28, <2>1, LegType DEF NextAction, StartAction, Eligible
    <2>3. PlanOK' /\ PlanKept'
      BY <1>28, <2>1, <2>2 DEF NextAction
    <2>4. ModesOK' /\ InboxOK' /\ CommandOK' /\ BooksOK' /\ UsedOK'
      BY <1>28 DEF NextAction
    <2>5. QED
      BY <2>3, <2>4
  <1>29. CASE ReadFills
    BY <1>29, SnapshotType DEF ReadFills, Placed, At, CyclePcs
  <1>30. CASE AssignFills
    BY <1>30, FlatType DEF AssignFills, At, CyclePcs
  <1>31. CASE StartProtection
    <2>1. prop \in Proposals
      BY <1>31 DEF StartProtection, At
    <2>2. EnterLegs \subseteq Legs
      BY <2>1, LegType DEF EnterLegs
    <2>3. PlanOK' /\ PlanKept'
      BY <1>31, <2>2 DEF StartProtection, LegsWithTpsl, CyclePcs
    <2>4. ModesOK' /\ InboxOK' /\ CommandOK' /\ BooksOK' /\ UsedOK'
      BY <1>31, SnapshotType DEF StartProtection
    <2>5. QED
      BY <2>3, <2>4
  <1>32. CASE SkipProtection
    BY <1>32, CostsType, SetModeIfType DEF SkipProtection, TradeStates, Activities, CyclePcs
  <1>33. ASSUME NEW leg \in Legs, ProtectLeg(leg) PROVE IInv'
    <2>1. leg.symbol \in Symbols /\ leg.guards \subseteq Both
      BY LegsType DEF Leg
    <2>2. CASE snap[leg.symbol] = 0
      BY <1>33, <2>2 DEF ProtectLeg, At
    <2>3. CASE snap[leg.symbol] # 0
      <3>1. PICK valid, placed, confirmed \in SUBSET leg.guards :
              /\ Costs(confirmed # leg.guards)
              /\ trig' = [trig EXCEPT ![leg.symbol] = IF SameSide(snap[leg.symbol], pos[leg.symbol])
                                                     THEN @ \cup placed ELSE @]
              /\ setModeIf(valid = {} \/ confirmed # valid, "cycle", "SAFE_MODE")
        BY <1>33, <2>3 DEF ProtectLeg
      <3>2. UsedOK'
        BY <3>1, CostsType
      <3>3. ModesOK'
        BY <1>33, <3>1, SetModeIfType DEF ProtectLeg, TradeStates, Activities
      <3>4. BooksOK'
        BY <1>33, <2>1, <3>1 DEF ProtectLeg
      <3>5. InboxOK' /\ PlanOK' /\ CommandOK' /\ PlanKept'
        BY <1>33 DEF ProtectLeg, At
      <3>6. QED
        BY <3>2, <3>3, <3>4, <3>5
    <2>4. QED
      BY <2>2, <2>3
  <1>34. CASE EndProtection
    BY <1>34, FlatType DEF EndProtection, CyclePcs
  <1>35. CASE Finish
    BY <1>35, SetModeType, SetModeIfType DEF Finish, ModeAfterExecution, TradeStates,
       Activities, CyclePcs
  <1>36. CASE Posture
    BY <1>36, EndCycleType, SetModeIfType DEF Posture, TradeStates, Activities
  <1>37. CASE Panic
    BY <1>37, EndCycleType, SetModeType DEF Panic, TradeStates, Activities
  <1>38. ASSUME NEW a \in Activities, saveSystemState(a) PROVE IInv'
    BY <1>38 DEF saveSystemState, ModeOrNone
  <1>39. CASE Halt
    BY <1>39, SetModeType DEF Halt, Receive, TradeStates, Activities
  <1>40. CASE Resume
    BY <1>40, SetModeType DEF Resume, Receive, TradeStates, Activities
  <1>41. CASE Flatten
    BY <1>41, SnapshotType DEF Flatten, Receive
  <1>42. CASE CancelOrders
    BY <1>42, FlatType DEF CancelOrders
  <1>43. ASSUME NEW s \in Symbols, ClosePosition(s) PROVE IInv'
    BY <1>43, FillType DEF ClosePosition, Books, Abs
  <1>44. CASE ReadFlattened
    BY <1>44, FlatType, SnapshotType DEF ReadFlattened
  <1>45. CASE AssignFlattened
    BY <1>45, SnapshotType DEF AssignFlattened
  <1>46. CASE Settle
    <2>1. ModesOK'
      <3>1. \/ UNCHANGED modeVars
            \/ \E c \in BOOLEAN, m \in {"SAFE_MODE", "READY"} : setModeIf(c, "command", m)
        BY <1>46 DEF Settle
      <3>2. QED
        BY <1>46, <3>1, SetModeIfType DEF Settle, TradeStates, Activities
    <2>2. QED
      BY <1>46, <2>1, SnapshotType DEF Settle, NoCommand
  <1>47. CASE CancelThrows
    BY <1>47, SnapshotType, CostsType DEF CancelThrows, NoCommand
  <1>48. CASE FlattenThrows
    BY <1>48, SnapshotType, CostsType DEF FlattenThrows, NoCommand
  <1>49. CASE Crash
    BY <1>49, DieType DEF Crash
  <1>50. CASE BootSaveFails
    BY <1>50, DieType, CostsType DEF BootSaveFails
  <1>51. CASE CatchThrows
    BY <1>51, DieType, CostsType DEF CatchThrows
  <1>52. CASE CycleThrows
    <2>1. errs' \in 0 .. ErrorThreshold
      BY <1>52, ThresholdAssumption DEF CycleThrows
    <2>2. PlanOK' /\ PlanKept'
      BY <1>52, <2>1 DEF CycleThrows, NoPlan, Plans, ModeOrNone, CyclePcs
    <2>3. BooksOK'
      BY <1>52, FlatType DEF CycleThrows
    <2>4. UsedOK'
      BY <1>52, CostsType DEF CycleThrows
    <2>5. ModesOK' /\ InboxOK' /\ CommandOK'
      BY <1>52 DEF CycleThrows
    <2>6. QED
      BY <2>2, <2>3, <2>4, <2>5
  <1>53. CASE AlarmLost
    BY <1>53, CostsType DEF AlarmLost, CyclePcs
  <1>54. ASSUME NEW a \in Activities, saveFails(a) PROVE IInv'
    BY <1>54, CostsType DEF saveFails, ModeOrNone
  <1>55. ASSUME NEW p \in Proposals, Propose(p) PROVE IInv'
    BY <1>55 DEF Propose, Plans
  <1>56. CASE Expire
    BY <1>56 DEF Expire, Plans
  <1>57. ASSUME NEW s \in Symbols, TriggerFires(s) PROVE IInv'
    BY <1>57 DEF TriggerFires, Books
  <1>58. CASE CacheExpires
    BY <1>58, SnapshotType DEF CacheExpires
  <1>59. CASE UNCHANGED vars
    BY <1>59 DEF vars
  <1>60. CASE AccountMoves
    BY <1>60, FundingsAssumption DEF AccountMoves
  <1>61. QED
    BY <1>1, <1>2, <1>3, <1>4, <1>5, <1>6, <1>7, <1>8, <1>9, <1>10, <1>11, <1>12, <1>13, <1>14,
       <1>15, <1>16, <1>17, <1>18, <1>19, <1>20, <1>21, <1>22, <1>23, <1>24, <1>25, <1>26,
       <1>27, <1>28, <1>29, <1>30, <1>31, <1>32, <1>33, <1>34, <1>35, <1>36, <1>37, <1>38,
       <1>39, <1>40, <1>41, <1>42, <1>43, <1>44, <1>45, <1>46, <1>47, <1>48, <1>49, <1>50,
       <1>51, <1>52, <1>53, <1>54, <1>55, <1>56, <1>57, <1>58, <1>59, <1>60
    DEF Next, Boot, CycleStep, SafeModeCycle, Execution, Persist, Command, FlattenStep,
       Environment

\* The runtime starts well typed and without a plan.
LEMMA InitTyped == Init => IInv
  <1> SUFFICES ASSUME Init PROVE IInv
    OBVIOUS
  <1>1. ModesOK
    BY DEF Init, ModesOK, TradeStates, ModeOrNone, Activities
  <1>2. InboxOK /\ PlanOK /\ PlanKept
    BY ThresholdAssumption DEF Init, InboxOK, PlanOK, PlanKept, Plans, BootPcs, ModeOrNone,
       Working
  <1>3. CommandOK /\ BooksOK
    BY FlatType, StartBooksAssumption, FundingsAssumption DEF Init, CommandOK, BooksOK, Books, NoBook
  <1>4. UsedOK
    BY DEF Init, UsedOK
  <1>5. QED
    BY <1>1, <1>2, <1>3, <1>4 DEF IInv, TypeOK

\* Every variable keeps its kind, whatever the agent, the operator, the exchange and the
\* faults do.
THEOREM TypeCorrect == Spec => []TypeOK
  <1>1. IInv => TypeOK
    BY DEF IInv
  <1>2. QED
    BY <1>1, InitTyped, TypeStep, PTL DEF Spec

-------------------------------------------------------------------------------
(* The persisted mode.                                                     *)

\* A process that is not running has no command under way, and its first write will be
\* the boot's.
DownIsFresh == pc = "down" => newest = "cycle" /\ cpc = "idle"
DurableInv == ModeWillBeDurable /\ DownIsFresh

\* A call of setMode makes its own write the newest.
LEMMA SetModeDurable ==
  ASSUME TypeOK, DurableInv, NEW a \in Activities, NEW m \in TradeStates,
         setMode(a, m), stored' = stored, pc # "down", pc' # "down"
  PROVE  DurableInv'
  <1>1. CASE canTransition(mode, m)
    BY <1>1 DEF TypeOK, ModesOK, DurableInv, DownIsFresh, ModeWillBeDurable, setMode,
       TradeStates
  <1>2. CASE ~canTransition(mode, m)
    BY <1>2 DEF DurableInv, DownIsFresh, ModeWillBeDurable, setMode, modeVars
  <1>3. QED
    BY <1>1, <1>2

\* A step that neither sets nor writes a mode keeps the invariant.
LEMMA KeepsDurable ==
  ASSUME DurableInv, UNCHANGED <<modeVars, stored>>, pc # "down", pc' # "down"
  PROVE  DurableInv'
  BY DEF DurableInv, DownIsFresh, ModeWillBeDurable, modeVars

\* setMode keeps the invariant: it makes its own write the newest.
LEMMA SetModeIfDurable ==
  ASSUME TypeOK, DurableInv, NEW a \in Activities, NEW m \in TradeStates, NEW c \in BOOLEAN,
         setModeIf(c, a, m), stored' = stored, pc # "down", pc' # "down"
  PROVE  DurableInv'
  BY SetModeDurable, KeepsDurable DEF setModeIf

\* A restart resumes one of the modes, row or no row.
LEMMA ResumedType == TypeOK => ResumedMode \in TradeStates
  BY DEF TypeOK, ModesOK, ModeOrNone, ResumedMode, TradeStates

\* A process that is down promises nothing.
LEMMA DieDurable == Die => DurableInv'
  BY DEF Die, DurableInv, DownIsFresh, ModeWillBeDurable

\* Every step keeps the newest write the one that counts.
LEMMA DurableStep == TypeOK /\ DurableInv /\ [Next]_vars => DurableInv'
  <1> SUFFICES ASSUME TypeOK, DurableInv, [Next]_vars PROVE DurableInv'
    OBVIOUS
  <1> USE DEF At, Dispatching, Trading, Funded, EndCycle, Placed, CyclePcs, BootPcs
  <1>1. CASE BootRead
    BY <1>1, ResumedType DEF BootRead, DurableInv, DownIsFresh, ModeWillBeDurable, TypeOK,
       ModesOK, TradeStates
  <1>2. CASE BootWarmup
    BY <1>2, SetModeIfDurable DEF BootWarmup, TradeStates, Activities
  <1>3. CASE BootReady
    BY <1>3, SetModeDurable DEF BootReady, TradeStates, Activities
  <1>4. CASE BootDone
    BY <1>4, KeepsDurable DEF BootDone
  <1>5. CASE Sync
    BY <1>5, KeepsDurable DEF Sync
  <1>6. CASE Mark
    BY <1>6, KeepsDurable DEF Mark
  <1>7. CASE AuditProtection
    BY <1>7, KeepsDurable DEF AuditProtection
  <1>8. CASE RaiseAlarm
    BY <1>8, SetModeDurable DEF RaiseAlarm, TradeStates, Activities
  <1>9. CASE SkipHalted
    BY <1>9, KeepsDurable DEF SkipHalted
  <1>10. CASE EnterSafeMode
    BY <1>10, KeepsDurable DEF EnterSafeMode
  <1>11. CASE AwaitFunding
    BY <1>11, KeepsDurable DEF AwaitFunding
  <1>12. CASE NoCandidate
    BY <1>12, SetModeIfDurable DEF NoCandidate, TradeStates, Activities
  <1>13. CASE TakeProposal
    BY <1>13, KeepsDurable DEF TakeProposal
  <1>14. CASE SafeModeHold
    BY <1>14, KeepsDurable DEF SafeModeHold
  <1>15. CASE SafeModeFlat
    BY <1>15, SetModeDurable DEF SafeModeFlat, Recover, TradeStates, Activities
  <1>16. CASE SafeModeExposed
    BY <1>16, KeepsDurable DEF SafeModeExposed
  <1>17. CASE VerifyProtected
    BY <1>17, KeepsDurable DEF VerifyProtected
  <1>18. CASE VerifyNaked
    BY <1>18, KeepsDurable DEF VerifyNaked
  <1>19. CASE Repair
    BY <1>19, KeepsDurable DEF Repair
  <1>20. CASE RepairFails
    BY <1>20, KeepsDurable DEF RepairFails
  <1>21. CASE RecheckProtected
    BY <1>21, KeepsDurable DEF RecheckProtected
  <1>22. CASE RecoverVerified
    BY <1>22, SetModeDurable DEF RecoverVerified, Recover, TradeStates, Activities
  <1>23. CASE RecheckNaked
    BY <1>23, KeepsDurable DEF RecheckNaked
  <1>24. CASE Evaluate
    BY <1>24, KeepsDurable DEF Evaluate
  <1>25. CASE Deny
    BY <1>25, SetModeIfDurable DEF Deny, TradeStates, Activities
  <1>26. CASE StartExecution
    BY <1>26, KeepsDurable DEF StartExecution
  <1>27. ASSUME NEW leg \in Legs, PlaceLeg(leg) PROVE DurableInv'
    BY <1>27, KeepsDurable DEF PlaceLeg
  <1>28. CASE NextAction
    BY <1>28, KeepsDurable DEF NextAction
  <1>29. CASE ReadFills
    BY <1>29, KeepsDurable DEF ReadFills
  <1>30. CASE AssignFills
    BY <1>30, KeepsDurable DEF AssignFills
  <1>31. CASE StartProtection
    BY <1>31, KeepsDurable DEF StartProtection
  <1>32. CASE SkipProtection
    BY <1>32, SetModeIfDurable DEF SkipProtection, TradeStates, Activities
  <1>33. ASSUME NEW leg \in Legs, ProtectLeg(leg) PROVE DurableInv'
    BY <1>33, SetModeIfDurable, KeepsDurable DEF ProtectLeg, TradeStates, Activities
  <1>34. CASE EndProtection
    BY <1>34, KeepsDurable DEF EndProtection
  <1>35. CASE Finish
    BY <1>35, SetModeDurable, SetModeIfDurable DEF Finish, ModeAfterExecution, TradeStates,
       Activities
  <1>36. CASE Posture
    BY <1>36, SetModeIfDurable DEF Posture, TradeStates, Activities
  <1>37. CASE Panic
    BY <1>37, SetModeDurable DEF Panic, TradeStates, Activities
  <1>38. ASSUME NEW a \in Activities, saveSystemState(a) PROVE DurableInv'
    BY <1>38 DEF saveSystemState, Hidden, cycleVars, commandVars, DurableInv, DownIsFresh,
       ModeWillBeDurable, TypeOK, ModesOK, TradeStates, Activities
  <1>39. CASE Halt
    BY <1>39, SetModeDurable DEF Halt, Receive, Up, cycleVars, TradeStates, Activities
  <1>40. CASE Resume
    BY <1>40, SetModeDurable DEF Resume, Receive, Up, cycleVars, TradeStates, Activities
  <1>41. CASE Flatten
    BY <1>41, KeepsDurable DEF Flatten, Receive, Up, cycleVars
  <1>42. CASE CancelOrders
    BY <1>42, KeepsDurable DEF CancelOrders, cycleVars, DurableInv, DownIsFresh
  <1>43. ASSUME NEW s \in Symbols, ClosePosition(s) PROVE DurableInv'
    BY <1>43, KeepsDurable DEF ClosePosition, cycleVars, DurableInv, DownIsFresh
  <1>44. CASE ReadFlattened
    BY <1>44, KeepsDurable DEF ReadFlattened, cycleVars, DurableInv, DownIsFresh
  <1>45. CASE AssignFlattened
    BY <1>45, KeepsDurable DEF AssignFlattened, cycleVars, DurableInv, DownIsFresh
  <1>46. CASE Settle
    BY <1>46, SetModeIfDurable, KeepsDurable DEF Settle, cycleVars, DurableInv, DownIsFresh,
       TradeStates, Activities
  <1>47. CASE CancelThrows
    BY <1>47, KeepsDurable DEF CancelThrows, cycleVars, DurableInv, DownIsFresh
  <1>48. CASE FlattenThrows
    BY <1>48, KeepsDurable DEF FlattenThrows, cycleVars, DurableInv, DownIsFresh
  <1>49. CASE Crash
    BY <1>49, DieDurable DEF Crash
  <1>50. CASE BootSaveFails
    BY <1>50, DieDurable DEF BootSaveFails
  <1>51. CASE CatchThrows
    BY <1>51, DieDurable DEF CatchThrows
  <1>52. CASE CycleThrows
    BY <1>52, KeepsDurable DEF CycleThrows, Throwing
  <1>53. CASE AlarmLost
    BY <1>53, KeepsDurable DEF AlarmLost
  <1>54. ASSUME NEW a \in Activities, saveFails(a) PROVE DurableInv'
    BY <1>54 DEF saveFails, Hidden, cycleVars, commandVars, DurableInv, DownIsFresh,
       ModeWillBeDurable, TypeOK, ModesOK, TradeStates, Activities
  <1>55. ASSUME NEW p \in Proposals, Propose(p) PROVE DurableInv'
    BY <1>55 DEF Propose, Up, cycleVars, commandVars, modeVars, DurableInv, DownIsFresh,
       ModeWillBeDurable
  <1>56. CASE Expire
    BY <1>56 DEF Expire, Up, cycleVars, commandVars, modeVars, DurableInv, DownIsFresh,
       ModeWillBeDurable
  <1>57. ASSUME NEW s \in Symbols, TriggerFires(s) PROVE DurableInv'
    BY <1>57 DEF TriggerFires, Up, cycleVars, commandVars, modeVars, DurableInv, DownIsFresh,
       ModeWillBeDurable
  <1>58. CASE CacheExpires
    BY <1>58 DEF CacheExpires, Up, cycleVars, commandVars, modeVars, DurableInv, DownIsFresh,
     ModeWillBeDurable
  <1>59. CASE UNCHANGED vars
    BY <1>59 DEF vars, modeVars, cycleVars, commandVars, DurableInv, DownIsFresh,
       ModeWillBeDurable
  <1>60. CASE AccountMoves
    BY <1>60 DEF AccountMoves, modeVars, cycleVars, commandVars, DurableInv, DownIsFresh,
       ModeWillBeDurable
  <1>61. QED
    BY <1>1, <1>2, <1>3, <1>4, <1>5, <1>6, <1>7, <1>8, <1>9, <1>10, <1>11, <1>12, <1>13, <1>14,
       <1>15, <1>16, <1>17, <1>18, <1>19, <1>20, <1>21, <1>22, <1>23, <1>24, <1>25, <1>26,
       <1>27, <1>28, <1>29, <1>30, <1>31, <1>32, <1>33, <1>34, <1>35, <1>36, <1>37, <1>38,
       <1>39, <1>40, <1>41, <1>42, <1>43, <1>44, <1>45, <1>46, <1>47, <1>48, <1>49, <1>50,
       <1>51, <1>52, <1>53, <1>54, <1>55, <1>56, <1>57, <1>58, <1>59, <1>60
    DEF Next, Boot, CycleStep, SafeModeCycle, Execution, Persist, Command, FlattenStep,
       Environment

\* The invariant holds in every reachable state.
LEMMA DurableAlways == Spec => []DurableInv
  <1>1. Init => DurableInv
    BY DEF Init, DurableInv, DownIsFresh, ModeWillBeDurable
  <1>2. QED
    BY <1>1, TypeCorrect, DurableStep, PTL DEF Spec

\* The newest mode write carries the mode, and once it has landed no older write can take
\* its place (setMode, saveSystemState, getSystemState).
THEOREM NewestWriteWins == Spec => []ModeWillBeDurable
  <1>1. DurableInv => ModeWillBeDurable
    BY DEF DurableInv
  <1>2. QED
    BY <1>1, DurableAlways, PTL

\* A restart resumes the mode the desk was in, when no write is under way and the newest
\* did not fail.
THEOREM ModeIsDurable == Spec => []DurableMode
  <1>1. TypeOK /\ DurableInv => DurableMode
    BY DEF TypeOK, ModesOK, DurableInv, ModeWillBeDurable, DurableMode, Up, BootPcs
  <1>2. QED
    BY <1>1, TypeCorrect, DurableAlways, PTL

-------------------------------------------------------------------------------
(* HALT and the legs of a proposal.                                        *)

\* Under HALT no action of the proposal in execution gets eligible legs.
LEMMA HaltedAction == \A i : mode = "HALT" /\ StartAction(i) => todo' = {}
  BY DEF StartAction, Eligible

\* HALT stops a proposal in execution before its next action: while the mode stays HALT no
\* leg is added to those that will be placed (execute reads state.mode for every action).
THEOREM HaltAdmitsNoLegs == Spec => NoNewLegsWhileHalted
  <1>1. [Next]_vars => (mode = "HALT" /\ mode' = "HALT" => todo' \subseteq todo)
    <2> SUFFICES ASSUME [Next]_vars, mode = "HALT" PROVE todo' \subseteq todo
      OBVIOUS
    <2> USE DEF EndCycle, NoPlan, Recover, Die, planVars, cycleVars
    <2>1. CASE BootRead
      BY <2>1 DEF BootRead
    <2>2. CASE BootWarmup
      BY <2>2 DEF BootWarmup
    <2>3. CASE BootReady
      BY <2>3 DEF BootReady
    <2>4. CASE BootDone
      BY <2>4 DEF BootDone
    <2>5. CASE Sync
      BY <2>5 DEF Sync
    <2>6. CASE Mark
      BY <2>6 DEF Mark
    <2>7. CASE AuditProtection
      BY <2>7 DEF AuditProtection
    <2>8. CASE RaiseAlarm
      BY <2>8 DEF RaiseAlarm
    <2>9. CASE SkipHalted
      BY <2>9 DEF SkipHalted
    <2>10. CASE EnterSafeMode
      BY <2>10 DEF EnterSafeMode
    <2>11. CASE AwaitFunding
      BY <2>11 DEF AwaitFunding
    <2>12. CASE NoCandidate
      BY <2>12 DEF NoCandidate
    <2>13. CASE TakeProposal
      BY <2>13 DEF TakeProposal
    <2>14. CASE SafeModeHold
      BY <2>14 DEF SafeModeHold
    <2>15. CASE SafeModeFlat
      BY <2>15 DEF SafeModeFlat
    <2>16. CASE SafeModeExposed
      BY <2>16 DEF SafeModeExposed
    <2>17. CASE VerifyProtected
      BY <2>17 DEF VerifyProtected
    <2>18. CASE VerifyNaked
      BY <2>18 DEF VerifyNaked
    <2>19. CASE Repair
      BY <2>19 DEF Repair
    <2>20. CASE RepairFails
      BY <2>20 DEF RepairFails
    <2>21. CASE RecheckProtected
      BY <2>21 DEF RecheckProtected
    <2>22. CASE RecoverVerified
      BY <2>22 DEF RecoverVerified
    <2>23. CASE RecheckNaked
      BY <2>23 DEF RecheckNaked
    <2>24. CASE Evaluate
      BY <2>24 DEF Evaluate
    <2>25. CASE Deny
      BY <2>25 DEF Deny
    <2>26. CASE StartExecution
      BY <2>26, HaltedAction DEF StartExecution
    <2>27. ASSUME NEW leg \in Legs, PlaceLeg(leg) PROVE todo' \subseteq todo
      BY <2>27 DEF PlaceLeg
    <2>28. CASE NextAction
      BY <2>28, HaltedAction DEF NextAction
    <2>29. CASE ReadFills
      BY <2>29 DEF ReadFills
    <2>30. CASE AssignFills
      BY <2>30 DEF AssignFills
    <2>31. CASE StartProtection
      BY <2>31 DEF StartProtection
    <2>32. CASE SkipProtection
      BY <2>32 DEF SkipProtection
    <2>33. ASSUME NEW leg \in Legs, ProtectLeg(leg) PROVE todo' \subseteq todo
      BY <2>33 DEF ProtectLeg
    <2>34. CASE EndProtection
      BY <2>34 DEF EndProtection
    <2>35. CASE Finish
      BY <2>35 DEF Finish
    <2>36. CASE Posture
      BY <2>36 DEF Posture
    <2>37. CASE Panic
      BY <2>37 DEF Panic
    <2>38. ASSUME NEW a \in Activities, saveSystemState(a) PROVE todo' \subseteq todo
      BY <2>38 DEF saveSystemState
    <2>39. CASE Halt
      BY <2>39 DEF Halt
    <2>40. CASE Resume
      BY <2>40 DEF Resume
    <2>41. CASE Flatten
      BY <2>41 DEF Flatten
    <2>42. CASE CancelOrders
      BY <2>42 DEF CancelOrders
    <2>43. ASSUME NEW s \in Symbols, ClosePosition(s) PROVE todo' \subseteq todo
      BY <2>43 DEF ClosePosition
    <2>44. CASE ReadFlattened
      BY <2>44 DEF ReadFlattened
    <2>45. CASE AssignFlattened
      BY <2>45 DEF AssignFlattened
    <2>46. CASE Settle
      BY <2>46 DEF Settle
    <2>47. CASE CancelThrows
      BY <2>47 DEF CancelThrows
    <2>48. CASE FlattenThrows
      BY <2>48 DEF FlattenThrows
    <2>49. CASE Crash
      BY <2>49 DEF Crash
    <2>50. CASE BootSaveFails
      BY <2>50 DEF BootSaveFails
    <2>51. CASE CatchThrows
      BY <2>51 DEF CatchThrows
    <2>52. CASE CycleThrows
      BY <2>52 DEF CycleThrows
    <2>53. CASE AlarmLost
      BY <2>53 DEF AlarmLost
    <2>54. ASSUME NEW a \in Activities, saveFails(a) PROVE todo' \subseteq todo
      BY <2>54 DEF saveFails
    <2>55. ASSUME NEW p \in Proposals, Propose(p) PROVE todo' \subseteq todo
      BY <2>55 DEF Propose
    <2>56. CASE Expire
      BY <2>56 DEF Expire
    <2>57. ASSUME NEW s \in Symbols, TriggerFires(s) PROVE todo' \subseteq todo
      BY <2>57 DEF TriggerFires
    <2>58. CASE CacheExpires
      BY <2>58 DEF CacheExpires
    <2>59. CASE UNCHANGED vars
      BY <2>59 DEF vars
    <2>60. CASE AccountMoves
      BY <2>60 DEF AccountMoves
    <2>61. QED
      BY <2>1, <2>2, <2>3, <2>4, <2>5, <2>6, <2>7, <2>8, <2>9, <2>10, <2>11, <2>12, <2>13,
         <2>14, <2>15, <2>16, <2>17, <2>18, <2>19, <2>20, <2>21, <2>22, <2>23, <2>24, <2>25,
         <2>26, <2>27, <2>28, <2>29, <2>30, <2>31, <2>32, <2>33, <2>34, <2>35, <2>36, <2>37,
         <2>38, <2>39, <2>40, <2>41, <2>42, <2>43, <2>44, <2>45, <2>46, <2>47, <2>48, <2>49,
         <2>50, <2>51, <2>52, <2>53, <2>54, <2>55, <2>56, <2>57, <2>58, <2>59,
         <2>60
      DEF Next, Boot, CycleStep, SafeModeCycle, Execution, Persist, Command, FlattenStep,
         Environment
  <1>2. QED
    BY <1>1, PTL DEF Spec, NoNewLegsWhileHalted
-------------------------------------------------------------------------------
(* The refinement of TradingDesk.                                          *)

\* A decided proposal keeps its decision to the end of its cycle; it is in the slot or
\* with the cycle, never both, and only there is it remembered after it was sent.
Placing == {"placing", "filled", "synced", "protect", "finish", "posture"}
LifeInv ==
    /\ slot # NoProposal => slot \in sent /\ slot # prop
    /\ prop # NoProposal => prop \in sent /\ pc \in {"selected", "decided"} \cup Placing
    /\ pc = "selected" \/ prop = NoProposal => dec = "none"
    /\ pc \in Placing => dec # "DENY"
    /\ pc = "placing" => todo \subseteq prop.actions[act].legs

\* A cycle without a plan, at an await before a proposal is chosen or in SAFE_MODE.
LEMMA NoPlanLives ==
  ASSUME LifeInv, prop' = NoProposal, dec' = "none", sent' = sent, slot' \in {slot, NoProposal},
         pc' \notin {"selected", "decided"} \cup Placing
  PROVE  LifeInv'
  BY DEF LifeInv, Placing

\* A step that leaves the inbox, the plan and the await alone.
LEMMA SamePlanLives ==
  ASSUME LifeInv, UNCHANGED <<inboxVars, planVars, pc>>
  PROVE  LifeInv'
  BY DEF LifeInv, inboxVars, planVars, Placing

\* An action's eligible legs are legs of that action.
LEMMA StartsOwnLegs ==
  \A i : StartAction(i) => act' = i /\ todo' \subseteq prop.actions[i].legs
  BY DEF StartAction, Eligible

\* Every step keeps a proposal in one place.
LEMMA LifeStep == IInv /\ LifeInv /\ [Next]_vars => LifeInv'
  <1> SUFFICES ASSUME IInv, LifeInv, [Next]_vars PROVE LifeInv'
    OBVIOUS
  <1> DEFINE Early == {"down", "boot", "warmup", "starting", "idle", "observed", "published",
                       "alarm", "audited", "health", "verify", "repair", "recheck", "verified",
                       "panic"}
  <1>1. pc \in Early => prop = NoProposal /\ dec = "none"
    BY DEF LifeInv, Placing
  <1>2. CASE \/ BootRead \/ BootWarmup \/ BootReady \/ BootDone \/ Sync \/ Mark
             \/ AuditProtection \/ RaiseAlarm \/ AlarmLost \/ EnterSafeMode \/ SafeModeExposed
             \/ VerifyProtected \/ VerifyNaked \/ RecheckProtected
    <2>1. /\ pc \in Early /\ pc' \in Early
          /\ UNCHANGED <<inboxVars, planVars>>
      BY <1>2 DEF BootRead, BootWarmup, BootReady, BootDone, Sync, Mark, AuditProtection,
         RaiseAlarm, AlarmLost, EnterSafeMode, SafeModeExposed, VerifyProtected, VerifyNaked,
         RecheckProtected, At, Dispatching
    <2>2. QED
      BY <1>1, <2>1, NoPlanLives DEF inboxVars, planVars, Placing
  <1>3. CASE Repair
    <2>1. pc = "repair" /\ pc' = "recheck" /\ UNCHANGED <<inboxVars, planVars>>
      BY <1>3 DEF Repair, At
    <2>2. QED
      BY <1>1, <2>1, NoPlanLives DEF inboxVars, planVars, Placing
  <1>4. CASE \/ SkipHalted \/ AwaitFunding \/ NoCandidate \/ SafeModeHold \/ SafeModeFlat
             \/ RepairFails \/ RecheckNaked \/ RecoverVerified \/ Deny \/ Posture \/ Panic
             \/ CycleThrows
    <2>1. /\ pc' \in {"idle", "panic"}
          /\ NoPlan /\ UNCHANGED inboxVars
      BY <1>4 DEF SkipHalted, AwaitFunding, NoCandidate, SafeModeHold, SafeModeFlat, Recover,
         RepairFails, RecheckNaked, RecoverVerified, Deny, Posture, Panic, CycleThrows, EndCycle
    <2>2. QED
      BY <2>1, NoPlanLives DEF inboxVars, NoPlan, Placing
  <1>5. CASE Crash \/ BootSaveFails \/ CatchThrows
    BY <1>5, NoPlanLives DEF Crash, BootSaveFails, CatchThrows, Die, NoPlan, Placing
  <1>6. CASE TakeProposal
    <2>1. pc \in Early /\ slot # NoProposal
      BY <1>6 DEF TakeProposal, Funded, Trading, Dispatching
    <2>2. QED
      BY <1>1, <1>6, <2>1 DEF TakeProposal, LifeInv, Placing
  <1>7. CASE Evaluate
    <2>1. /\ pc = "selected" /\ pc' = "decided" /\ UNCHANGED <<inboxVars, prop>>
      BY <1>7 DEF Evaluate, At
    <2>2. prop \in Proposals
      BY <2>1 DEF IInv, PlanKept, Working
    <2>3. QED
      BY <2>1, <2>2, NoProposalAssumption DEF inboxVars, LifeInv, Placing
  <1>8. CASE StartExecution
    <2>1. /\ pc = "decided" /\ pc' = "placing" /\ UNCHANGED <<inboxVars, prop, dec>>
          /\ dec # "DENY" /\ StartAction(1)
      BY <1>8 DEF StartExecution, At
    <2>2. prop \in Proposals
      BY <2>1 DEF IInv, PlanKept, Working
    <2>3. QED
      BY <2>1, <2>2, StartsOwnLegs, NoProposalAssumption DEF inboxVars, LifeInv, Placing
  <1>9. ASSUME NEW leg \in Legs, PlaceLeg(leg) PROVE LifeInv'
    BY <1>9 DEF PlaceLeg, inboxVars, LifeInv, Placing
  <1>10. CASE NextAction
    BY <1>10, StartsOwnLegs DEF NextAction, At, inboxVars, LifeInv, Placing
  <1>11. CASE ReadFills \/ AssignFills \/ SkipProtection \/ EndProtection \/ Finish
    <2>1. pc \in Placing /\ pc' \in Placing \ {"placing"} /\ UNCHANGED <<inboxVars, planVars>>
      BY <1>11 DEF ReadFills, Placed, AssignFills, SkipProtection, EndProtection, Finish, At,
         Placing
    <2>2. QED
      BY <2>1 DEF inboxVars, planVars, LifeInv, Placing
  <1>12. CASE StartProtection
    BY <1>12 DEF StartProtection, At, inboxVars, LifeInv, Placing
  <1>13. ASSUME NEW leg \in Legs, ProtectLeg(leg) PROVE LifeInv'
    <2>1. UNCHANGED <<slot, sent, pc, prop, dec, act, todo>>
      BY <1>13 DEF ProtectLeg, inboxVars
    <2>2. QED
      BY <2>1 DEF LifeInv, Placing
  <1>14. ASSUME NEW a \in Activities, saveSystemState(a) \/ saveFails(a) PROVE LifeInv'
    BY <1>14, SamePlanLives DEF saveSystemState, saveFails, cycleVars
  <1>15. CASE \/ Halt \/ Resume \/ Flatten \/ CancelOrders \/ CancelThrows \/ ReadFlattened
              \/ AssignFlattened \/ Settle \/ FlattenThrows \/ CacheExpires \/ AccountMoves
    <2>1. UNCHANGED <<inboxVars, cycleVars>>
      BY <1>15 DEF Halt, Resume, Flatten, CancelOrders, CancelThrows, ReadFlattened,
         AssignFlattened, Settle, FlattenThrows, CacheExpires, AccountMoves
    <2>2. QED
      BY <2>1, SamePlanLives DEF cycleVars
  <1>16. ASSUME NEW s \in Symbols, ClosePosition(s) \/ TriggerFires(s) PROVE LifeInv'
    <2>1. UNCHANGED <<inboxVars, cycleVars>>
      BY <1>16 DEF ClosePosition, TriggerFires
    <2>2. QED
      BY <2>1, SamePlanLives DEF cycleVars
  <1>17. ASSUME NEW p \in Proposals, Propose(p) PROVE LifeInv'
    BY <1>17, NoProposalAssumption DEF Propose, cycleVars, planVars, LifeInv, Placing
  <1>18. CASE Expire
    BY <1>18 DEF Expire, cycleVars, planVars, LifeInv, Placing
  <1>19. CASE UNCHANGED vars
    BY <1>19, SamePlanLives DEF vars, cycleVars
  <1>20. QED
    BY <1>2, <1>3, <1>4, <1>5, <1>6, <1>7, <1>8, <1>9, <1>10, <1>11, <1>12, <1>13, <1>14,
       <1>15, <1>16, <1>17, <1>18, <1>19
    DEF Next, Boot, CycleStep, SafeModeCycle, Execution, Persist, Command, FlattenStep,
       Environment
\* The operators of the risk engine that TradingDesk brings with it are those of this module.
LEMMA SameRisk ==
  /\ \A p : AbstractDesk!LegsOf(p) = LegsOf(p)
  /\ \A book : AbstractDesk!currentGrossNotional(book) = currentGrossNotional(book)
  /\ \A book, p : AbstractDesk!projectedGrossNotional(book, p) = projectedGrossNotional(book, p)
  /\ AbstractDesk!Flat = Flat
  <1>1. \A p : AbstractDesk!LegsOf(p) = LegsOf(p)
    BY Zenon DEF AbstractDesk!LegsOf, LegsOf
  <1>2. \A n : AbstractDesk!Abs(n) = Abs(n)
    BY DEF AbstractDesk!Abs, Abs
  <1>3. \A f, S : AbstractDesk!SumFunctionOnSet(f, S) = SumFunctionOnSet(f, S)
    BY Zenon DEF AbstractDesk!SumFunctionOnSet, SumFunctionOnSet,
       AbstractDesk!FoldFunctionOnSet, FoldFunctionOnSet,
       AbstractDesk!MapThenFoldSet, MapThenFoldSet
  <1>4. \A book : AbstractDesk!currentGrossNotional(book) = currentGrossNotional(book)
    BY <1>3, Zenon DEF AbstractDesk!currentGrossNotional, currentGrossNotional, AbstractDesk!Abs, Abs
  <1>5. \A p, s : AbstractDesk!Delta(p, s) = Delta(p, s)
    BY <1>3, Zenon DEF AbstractDesk!Delta, Delta, AbstractDesk!LegsOf, LegsOf, AbstractDesk!Signed, Signed
  <1>6. \A book, p : AbstractDesk!Projected(book, p) = Projected(book, p)
    BY <1>5, Zenon DEF AbstractDesk!Projected, Projected
  <1>7. QED
    BY <1>1, <1>4, <1>6 DEF AbstractDesk!projectedGrossNotional, projectedGrossNotional,
       AbstractDesk!Flat, Flat

\* What the risk engine does not deny, it has checked against HALT, the exposure limit and
\* the posture of SAFE_MODE: an exit is excused from the drawdown only.
LEMMA ApprovalChecked ==
  \A config, ctx :
    evaluateRisk(config, ctx) # "DENY" =>
      /\ ctx.state # "HALT"
      /\ checkExposure(ctx.positions, ctx.proposal, config.maxExposure)
      /\ checkSafeModePosture(ctx.state, ctx.positions, ctx.proposal)
  <1> SUFFICES ASSUME NEW config, NEW ctx, evaluateRisk(config, ctx) # "DENY"
               PROVE  /\ ctx.state # "HALT"
                      /\ checkExposure(ctx.positions, ctx.proposal, config.maxExposure)
                      /\ checkSafeModePosture(ctx.state, ctx.positions, ctx.proposal)
    OBVIOUS
  <1>1. ~hasBlockers(config, ctx) /\ checkSafeModePosture(ctx.state, ctx.positions, ctx.proposal)
    BY DEF evaluateRisk, hasSafeModeBlocker
  <1>2. "SYSTEM_GATED" \notin Reasons(config, ctx) /\ "EXPOSURE" \notin Reasons(config, ctx)
    BY <1>1 DEF hasBlockers, blockingReasonCodes, waivedReasonCodes
  <1>3. ctx.state # "HALT" /\ checkExposure(ctx.positions, ctx.proposal, config.maxExposure)
    BY <1>2 DEF Reasons
  <1>4. QED
    BY <1>1, <1>3

\* setMode moves along the state machine of TradingDesk, once the desk has left INIT.
LEMMA SetModeSteps ==
  ASSUME ModesOK, NEW a \in Activities, NEW m \in {"READY", "IN_TRADE", "HALT", "SAFE_MODE"},
         setMode(a, m)
  PROVE  AbstractDesk!ModeStep
  BY DEF ModesOK, TradeStates, setMode, canTransition, transitions, modeVars,
     AbstractDesk!ModeStep

\* So does setModeIf.
LEMMA SetModeIfSteps ==
  ASSUME ModesOK, NEW a \in Activities, NEW m \in {"READY", "IN_TRADE", "HALT", "SAFE_MODE"},
         NEW c \in BOOLEAN, setModeIf(c, a, m)
  PROVE  AbstractDesk!ModeStep
  BY SetModeSteps DEF setModeIf, modeVars, AbstractDesk!ModeStep

\* Legs are open only while their proposal is approved.
LEMMA OpenIsApproved ==
  ASSUME IInv, LifeInv, AbstractDesk!Approved = {}
  PROVE  OpenLegs = {}
  <1> SUFFICES ASSUME OpenLegs # {} PROVE FALSE
    OBVIOUS
  <1>1. (pc = "decided" /\ dec # "DENY") \/ pc = "placing"
    BY DEF OpenLegs
  <1>2. prop \in Proposals /\ pc # "selected" /\ dec # "DENY"
    BY <1>1 DEF IInv, PlanKept, Working, LifeInv, Placing
  <1>3. prop \in sent /\ prop # slot
    BY <1>2, NoProposalAssumption DEF LifeInv
  <1>4. Fate(prop) = "approved"
    BY <1>2, <1>3 DEF Fate
  <1>5. QED
    BY <1>2, <1>4 DEF AbstractDesk!Approved

\* A step that leaves the inbox, the plan and the exchange's book alone gives up legs at most.
LEMMA ForgoStep ==
  ASSUME UNCHANGED <<slot, sent, prop, dec, pos>>, pc = "selected" <=> pc' = "selected",
         OpenLegs' \subseteq OpenLegs
  PROVE  AbstractDesk!Forgo
  BY DEF Fate, AbstractDesk!Forgo

\* A cycle that ends ends its proposal; the one in the slot stays pending or goes with it.
LEMMA FinishStep ==
  ASSUME IInv, LifeInv, prop' = NoProposal, slot' \in {slot, NoProposal},
         pc' \notin {"decided", "placing"}, UNCHANGED <<sent, pos>>
  PROVE  AbstractDesk!Finish
  <1> DEFINE over == {p \in Proposals : p # slot' /\ Fate(p) \in {"pending", "approved"}}
  <1>1. \A p \in Proposals : p # prop'
    BY NoProposalAssumption
  <1>2. \A p \in Proposals : Fate(p)' = IF p \in over THEN "over" ELSE Fate(p)
    BY <1>1, NoProposalAssumption DEF Fate
  <1>3. \A p \in Proposals : Fate(p) = "approved" => p # slot /\ p # slot'
    BY NoProposalAssumption DEF Fate
  <1>4. AbstractDesk!Approved \subseteq over
    BY <1>3 DEF AbstractDesk!Approved
  <1>5. OpenLegs' = {}
    BY DEF OpenLegs
  <1>6. /\ over \in SUBSET Proposals
        /\ \A p \in over : Fate(p) \in {"pending", "approved"}
    OBVIOUS
  <1> HIDE DEF over
  <1>7. QED
    BY <1>2, <1>4, <1>5, <1>6 DEF AbstractDesk!Finish

\* A step that changes neither the inbox nor the cycle, nor the book, is invisible but for
\* the mode, what the runtime observed and the command under way.
LEMMA QuietStep ==
  ASSUME UNCHANGED <<inboxVars, cycleVars, pos>>
  PROVE  AbstractDesk!Forgo
  <1>1. OpenLegs' = OpenLegs
    BY DEF cycleVars, planVars, OpenLegs
  <1>2. QED
    BY <1>1, ForgoStep DEF inboxVars, cycleVars, planVars

\* A fill changes the book in one symbol, by its amount.
LEMMA FillMoves ==
  ASSUME BooksOK, NEW s \in Symbols, NEW n \in Int, Fill(s, n)
  PROVE  pos'[s] = pos[s] + n /\ pos[s] \in Int /\ \A t \in Symbols \ {s} : pos'[t] = pos[t]
  BY DEF BooksOK, Books, Fill

\* A new proposal pushes out the one in the slot.
LEMMA ProposeStep ==
  ASSUME IInv, LifeInv, NEW p \in Proposals, Propose(p)
  PROVE  AbstractDesk!Submit
  <1>1. /\ p \notin sent /\ slot' = p /\ sent' = sent \cup {p} /\ Up
        /\ UNCHANGED <<pc, prop, dec, act, todo, pos>>
    BY DEF Propose, cycleVars, planVars, exchangeVars, bookVars
  <1>2. PICK q \in Proposals : IF slot = NoProposal THEN q = p ELSE q = slot
    BY DEF IInv, TypeOK, InboxOK, Plans
  <1>3. Fate(p) = "unsent" /\ Fate(p)' = "pending"
    BY <1>1 DEF Fate
  <1>4. \A r \in Proposals \ {p} :
          Fate(r)' = IF r = q /\ Fate(r) = "pending" THEN "over" ELSE Fate(r)
    <2> SUFFICES ASSUME NEW r \in Proposals \ {p}
                 PROVE  Fate(r)' = IF r = q /\ Fate(r) = "pending" THEN "over" ELSE Fate(r)
      OBVIOUS
    <2>1. CASE r = slot
      BY <1>1, <1>2, <2>1, NoProposalAssumption DEF Fate, LifeInv
    <2>2. CASE r # slot
      BY <1>1, <1>2, <2>2, NoProposalAssumption DEF Fate
    <2>3. QED
      BY <2>1, <2>2
  <1>5. UNCHANGED OpenLegs
    BY <1>1 DEF OpenLegs
  <1> DEFINE fate == [r \in Proposals |-> Fate(r)]
  <1>6. fate' = [fate EXCEPT ![q] = IF @ = "pending" THEN "over" ELSE @, ![p] = "pending"]
    BY <1>3, <1>4
  <1>7. QED
    BY <1>1, <1>2, <1>3, <1>5, <1>6 DEF AbstractDesk!Submit

\* A proposal that grows too old is dropped from the slot.
LEMMA ExpireStep ==
  ASSUME IInv, LifeInv, Expire
  PROVE  AbstractDesk!Finish
  <1>1. /\ slot \in Proposals /\ slot' = NoProposal
        /\ UNCHANGED <<sent, pc, prop, dec, act, todo, pos>>
    BY DEF Expire, cycleVars, planVars, exchangeVars, bookVars, IInv, TypeOK, InboxOK, Plans
  <1>2. Fate(slot) = "pending" /\ slot \in sent /\ slot # prop
    BY <1>1, NoProposalAssumption DEF LifeInv, Fate
  <1>3. \A p \in Proposals : Fate(p)' = IF p \in {slot} THEN "over" ELSE Fate(p)
    BY <1>1, <1>2, NoProposalAssumption DEF Fate
  <1>4. UNCHANGED OpenLegs
    BY <1>1 DEF OpenLegs
  <1>5. AbstractDesk!Approved \subseteq {slot} => AbstractDesk!Approved = {}
    BY <1>2 DEF AbstractDesk!Approved
  <1>6. AbstractDesk!Approved \subseteq {slot} => OpenLegs = {}
    BY <1>5, OpenIsApproved
  <1>7. QED
    BY <1>1, <1>2, <1>3, <1>4, <1>6 DEF AbstractDesk!Finish

\* A proposal that the risk engine lets through is approved as TradingDesk demands.
LEMMA EvaluateStep ==
  ASSUME IInv, LifeInv, Evaluate
  PROVE  AbstractDesk!Approve \/ AbstractDesk!Forgo
  <1>1. /\ pc = "selected" /\ pc' = "decided" /\ prop \in Proposals
        /\ UNCHANGED <<slot, sent, prop, pos>>
    BY DEF Evaluate, At, inboxVars, exchangeVars, bookVars, IInv, PlanKept, Working
  <1>2. prop \in sent /\ prop # slot
    BY <1>1, NoProposalAssumption DEF LifeInv
  <1>3. OpenLegs = {} /\ \A p \in Proposals : Fate(p) # "approved"
    BY <1>1 DEF OpenLegs, Fate
  <1>4. CASE dec' = "DENY"
    <2>1. OpenLegs' = {} /\ \A p \in Proposals : Fate(p)' = Fate(p)
      BY <1>1, <1>4 DEF OpenLegs, Fate
    <2>2. QED
      BY <1>1, <1>3, <2>1 DEF AbstractDesk!Forgo
  <1>5. CASE dec' # "DENY"
    <2>1. \E ctx : /\ ctx.state = mode /\ ctx.positions = view /\ ctx.proposal = prop
                   /\ dec' = evaluateRisk(RiskConfig, ctx)
      BY DEF Evaluate
    <2>2. /\ mode # "HALT"
          /\ projectedGrossNotional(view, prop) <= RiskConfig.maxExposure
          /\ mode = "SAFE_MODE" => projectedGrossNotional(view, prop) <= currentGrossNotional(view)
      BY <1>5, <2>1, ApprovalChecked DEF checkExposure, checkSafeModePosture
    <2>3. /\ OpenLegs' = LegsOf(prop) /\ Fate(prop) = "pending" /\ Fate(prop)' = "approved"
          /\ \A p \in Proposals \ {prop} : Fate(p)' = Fate(p)
      BY <1>1, <1>2, <1>5 DEF OpenLegs, Fate
    <2> DEFINE fate == [p \in Proposals |-> Fate(p)]
    <2>4. fate' = [fate EXCEPT ![prop] = "approved"]
      BY <1>1, <2>3
    <2>5. AbstractDesk!Approved = {}
      BY <1>3 DEF AbstractDesk!Approved
    <2>6. QED
      BY <1>1, <2>2, <2>3, <2>4, <2>5, SameRisk DEF AbstractDesk!Approve
  <1>6. QED
    BY <1>4, <1>5

\* A leg that reaches the exchange is an open one, and it trades no more than its size in
\* its own direction.
LEMMA PlaceOpens ==
  ASSUME IInv, LifeInv, NEW leg \in Legs, PlaceLeg(leg)
  PROVE  /\ <<act, leg>> \in OpenLegs /\ <<act, leg>> \in LegsOf(prop)
         /\ OpenLegs' = OpenLegs \ {<<act, leg>>}
         /\ \A t \in Symbols \ {leg.symbol} : pos'[t] = pos[t]
         /\ \E qty \in 0 .. leg.usd :
              pos'[leg.symbol] = pos[leg.symbol] + (IF leg.side = "BUY" THEN qty ELSE -qty)
  <1> DEFINE x == <<act, leg>>
  <1>1. /\ pc = "placing" /\ leg \in todo /\ todo' = todo \ {leg}
        /\ UNCHANGED <<pc, prop, dec, act>>
    BY DEF PlaceLeg
  <1>2. x \in LegsOf(prop)
    BY <1>1 DEF LegsOf, LifeInv, IInv, PlanKept
  <1>3. \A y \in LegsOf(prop) : y = <<y[1], y[2]>> /\ y[1] \in Nat
    <2>1. \A i \in DOMAIN prop.actions : i \in Nat
      BY <1>1, ProposalsAssumption DEF IInv, PlanKept, Working
    <2>2. QED
      BY <2>1 DEF LegsOf
  <1>4. x \in OpenLegs
    BY <1>1, <1>2 DEF OpenLegs
  <1>5. OpenLegs' = OpenLegs \ {x}
    <2>1. act \in Nat
      BY DEF IInv, TypeOK, PlanOK
    <2>2. QED
      BY <1>1, <1>3, <2>1 DEF OpenLegs
  <1>6. leg.symbol \in Symbols /\ leg.usd \in Nat
    BY LegsType DEF Leg
  <1>7. PICK qty \in 0 .. leg.usd : Fill(leg.symbol, IF leg.side = "BUY" THEN qty ELSE -qty)
    BY DEF PlaceLeg
  <1>8. /\ \A t \in Symbols \ {leg.symbol} : pos'[t] = pos[t]
        /\ pos'[leg.symbol] = pos[leg.symbol] + (IF leg.side = "BUY" THEN qty ELSE -qty)
    BY <1>6, <1>7, FillMoves DEF IInv, TypeOK
  <1>9. QED
    BY <1>2, <1>4, <1>5, <1>8

\* That is how TradingDesk trades a leg.
LEMMA PlaceStep ==
  ASSUME IInv, LifeInv, NEW leg \in Legs, PlaceLeg(leg)
  PROVE  AbstractDesk!TradeLeg
  <1> DEFINE x == <<act, leg>>
  <1>1. /\ leg.symbol \in Symbols /\ leg.usd \in Nat /\ leg.side \in {"BUY", "SELL"}
        /\ pos[leg.symbol] \in Int
    BY LegsType DEF Leg, IInv, TypeOK, BooksOK, Books
  <1>2. PICK qty \in 0 .. leg.usd :
          pos'[leg.symbol] = pos[leg.symbol] + (IF leg.side = "BUY" THEN qty ELSE -qty)
    BY PlaceOpens
  <1>3. IF leg.side = "BUY"
        THEN AbstractDesk!Between(pos'[leg.symbol], pos[leg.symbol], pos[leg.symbol] + leg.usd)
        ELSE AbstractDesk!Between(pos'[leg.symbol], pos[leg.symbol] - leg.usd, pos[leg.symbol])
    BY <1>1, <1>2 DEF AbstractDesk!Between
  <1>4. \A p \in Proposals : Fate(p)' = Fate(p)
    BY DEF Fate, PlaceLeg, inboxVars
  <1>5. /\ x \in OpenLegs /\ OpenLegs' = OpenLegs \ {x} /\ x[2] = leg
        /\ \A t \in Symbols \ {leg.symbol} : pos'[t] = pos[t]
    BY PlaceOpens
  <1> HIDE DEF x
  <1>6. QED
    BY <1>3, <1>4, <1>5 DEF AbstractDesk!TradeLeg

\* Choosing the next action's legs opens no leg.
LEMMA NextActionForgoes ==
  ASSUME IInv, NextAction
  PROVE  OpenLegs' \subseteq OpenLegs
  <1>1. /\ pc = "placing" /\ pc' = "placing" /\ prop' = prop /\ prop \in Proposals
        /\ act' = act + 1 /\ act \in Nat
    BY DEF NextAction, At, StartAction, IInv, TypeOK, PlanOK, PlanKept, Working
  <1>2. \A y \in LegsOf(prop) : y[1] \in Nat
    <2>1. \A i \in DOMAIN prop.actions : i \in Nat
      BY <1>1, ProposalsAssumption
    <2>2. QED
      BY <2>1 DEF LegsOf
  <1>3. QED
    BY <1>1, <1>2 DEF OpenLegs

\* Every step but a /flatten's trade moves a proposal, or a protective order, as TradingDesk
\* allows, and the mode with it.
LEMMA ProceedStep ==
  ASSUME IInv, LifeInv, [Next]_vars, \A s \in Symbols : ~ClosePosition(s)
  PROVE  AbstractDesk!Proceed /\ AbstractDesk!ModeStep
  <1>1. UNCHANGED mode => AbstractDesk!ModeStep
    BY DEF AbstractDesk!ModeStep
  <1>2. ~Up \/ ~Up' => AbstractDesk!ModeStep
    BY DEF AbstractDesk!ModeStep
  <1>3. ModesOK
    BY DEF IInv, TypeOK
  <1>4. pc \notin {"selected"} \cup Placing \cup {"decided"} => prop = NoProposal
    BY DEF LifeInv
  <1>5. CASE \/ BootRead \/ BootWarmup \/ BootReady \/ BootDone
    <2>1. ~Up /\ pc' \in BootPcs \cup {"idle"} /\ UNCHANGED <<inboxVars, planVars, pos>>
      BY <1>5 DEF BootRead, BootWarmup, BootReady, BootDone, Up, BootPcs, exchangeVars, bookVars
    <2>2. OpenLegs' = {} /\ pc # "selected" /\ pc' # "selected"
      BY <2>1 DEF Up, BootPcs, OpenLegs
    <2>3. AbstractDesk!Forgo
      BY <2>1, <2>2, ForgoStep DEF inboxVars, planVars
    <2>4. QED
      BY <1>2, <2>1, <2>3 DEF AbstractDesk!Proceed
  <1>6. CASE Crash \/ BootSaveFails \/ CatchThrows
    <2>1. /\ pc' = "down" /\ prop' = NoProposal /\ slot' = NoProposal /\ UNCHANGED <<sent, pos>>
      BY <1>6 DEF Crash, BootSaveFails, CatchThrows, Die, NoPlan, bookVars
    <2>2. ~Up'
      BY <2>1 DEF Up, BootPcs
    <2>3. AbstractDesk!Finish
      BY <2>1, FinishStep
    <2>4. QED
      BY <1>2, <2>2, <2>3 DEF AbstractDesk!Proceed
  <1>7. CASE \/ Sync \/ Mark \/ AuditProtection \/ RaiseAlarm \/ AlarmLost \/ EnterSafeMode
             \/ SafeModeExposed \/ VerifyProtected \/ VerifyNaked \/ RecheckProtected
    <2>1. /\ UNCHANGED <<inboxVars, planVars, pos>>
          /\ pc # "selected" /\ pc' \notin {"selected", "decided", "placing"}
      BY <1>7 DEF Sync, Mark, AuditProtection, RaiseAlarm, AlarmLost, EnterSafeMode,
         SafeModeExposed, VerifyProtected, VerifyNaked, RecheckProtected, At, Dispatching,
         exchangeVars, bookVars
    <2>2. OpenLegs' = {}
      BY <2>1 DEF OpenLegs
    <2>3. AbstractDesk!Forgo
      BY <2>1, <2>2, ForgoStep DEF inboxVars, planVars
    <2>4. AbstractDesk!ModeStep
      BY <1>1, <1>3, <1>7, SetModeSteps DEF Sync, Mark, AuditProtection, RaiseAlarm, AlarmLost,
         EnterSafeMode, SafeModeExposed, VerifyProtected, VerifyNaked, RecheckProtected,
         modeVars, Activities
    <2>5. QED
      BY <2>3, <2>4 DEF AbstractDesk!Proceed
  <1>8. CASE Repair
    <2>1. /\ UNCHANGED <<inboxVars, planVars, pos, mode>> /\ pc = "repair" /\ pc' = "recheck"
      BY <1>8 DEF Repair, At, modeVars
    <2>2. AbstractDesk!Forgo
      BY <2>1, ForgoStep DEF inboxVars, planVars, OpenLegs
    <2>3. QED
      BY <1>1, <2>1, <2>2 DEF AbstractDesk!Proceed
  <1>9. CASE \/ SkipHalted \/ AwaitFunding \/ NoCandidate \/ SafeModeHold \/ SafeModeFlat
             \/ RepairFails \/ RecheckNaked \/ RecoverVerified \/ Deny \/ Posture \/ Panic
             \/ CycleThrows
    <2>1. /\ pc' \in {"idle", "panic"} /\ prop' = NoProposal /\ UNCHANGED <<slot, sent, pos>>
      BY <1>9 DEF SkipHalted, AwaitFunding, NoCandidate, SafeModeHold, SafeModeFlat, Recover,
         RepairFails, RecheckNaked, RecoverVerified, Deny, Posture, Panic, CycleThrows, EndCycle,
         NoPlan, inboxVars, exchangeVars, bookVars
    <2>2. AbstractDesk!Finish
      BY <2>1, FinishStep
    <2>3. AbstractDesk!ModeStep
      <3>1. CASE \/ SkipHalted \/ AwaitFunding \/ SafeModeHold \/ RepairFails \/ RecheckNaked
                 \/ CycleThrows
        BY <1>1, <3>1 DEF SkipHalted, AwaitFunding, SafeModeHold, RepairFails, RecheckNaked,
           CycleThrows, modeVars
      <3>2. CASE NoCandidate \/ Deny \/ Posture
        BY <1>3, <3>2, SetModeIfSteps DEF NoCandidate, Deny, Posture, Activities, IInv, TypeOK,
           PlanOK
      <3>3. CASE SafeModeFlat \/ RecoverVerified \/ Panic
        BY <1>3, <3>3, SetModeSteps DEF SafeModeFlat, RecoverVerified, Recover, Panic, Activities
      <3>4. QED
        BY <1>9, <3>1, <3>2, <3>3
    <2>4. QED
      BY <2>2, <2>3 DEF AbstractDesk!Proceed
  <1>10. CASE TakeProposal
    <2>1. /\ slot # NoProposal /\ prop' = slot /\ slot' = NoProposal /\ prop = NoProposal
          /\ pc \in {"published", "audited"} /\ pc' = "selected"
          /\ UNCHANGED <<sent, pos, dec, mode>>
      BY <1>4, <1>10 DEF TakeProposal, Funded, Trading, Dispatching, Placing, exchangeVars,
         bookVars, modeVars
    <2>2. \A p \in Proposals : Fate(p)' = Fate(p)
      BY <2>1, NoProposalAssumption DEF Fate
    <2>3. OpenLegs' = {}
      BY <2>1 DEF OpenLegs
    <2>4. AbstractDesk!Forgo
      BY <2>1, <2>2, <2>3 DEF AbstractDesk!Forgo
    <2>5. QED
      BY <1>1, <2>1, <2>4 DEF AbstractDesk!Proceed
  <1>11. CASE Evaluate
    <2>1. UNCHANGED mode
      BY <1>11 DEF Evaluate, modeVars
    <2>2. QED
      BY <1>1, <1>11, <2>1, EvaluateStep DEF AbstractDesk!Proceed
  <1>12. CASE StartExecution \/ NextAction
    <2>1. /\ UNCHANGED <<slot, sent, prop, dec, pos, mode>> /\ pc \in {"decided", "placing"}
          /\ pc' = "placing" /\ dec # "DENY"
      BY <1>12 DEF StartExecution, NextAction, At, inboxVars, exchangeVars, bookVars, modeVars,
         LifeInv, Placing
    <2>2. OpenLegs' \subseteq OpenLegs
      <3>1. CASE StartExecution
        BY <2>1, <3>1 DEF StartExecution, At, OpenLegs
      <3>2. QED
        BY <1>12, <3>1, NextActionForgoes
    <2>3. AbstractDesk!Forgo
      BY <2>1, <2>2, ForgoStep
    <2>4. QED
      BY <1>1, <2>1, <2>3 DEF AbstractDesk!Proceed
  <1>13. ASSUME NEW leg \in Legs, PlaceLeg(leg) PROVE AbstractDesk!Proceed /\ AbstractDesk!ModeStep
    <2>1. UNCHANGED mode
      BY <1>13 DEF PlaceLeg, modeVars
    <2>2. QED
      BY <1>1, <1>13, <2>1, PlaceStep DEF AbstractDesk!Proceed
  <1>14. CASE \/ ReadFills \/ AssignFills \/ StartProtection \/ SkipProtection \/ EndProtection
              \/ Finish
    <2>1. /\ UNCHANGED <<slot, sent, prop, dec, pos>> /\ pc # "selected"
          /\ pc' \notin {"selected", "decided", "placing"}
      BY <1>14 DEF ReadFills, Placed, AssignFills, StartProtection, SkipProtection,
         EndProtection, Finish, At, inboxVars, planVars, exchangeVars, bookVars
    <2>2. AbstractDesk!Forgo
      BY <2>1, ForgoStep DEF OpenLegs
    <2>3. AbstractDesk!ModeStep
      <3>1. CASE ReadFills \/ AssignFills \/ StartProtection \/ EndProtection
        BY <1>1, <3>1 DEF ReadFills, AssignFills, StartProtection, EndProtection, modeVars
      <3>2. CASE SkipProtection \/ Finish
        BY <1>3, <3>2, SetModeSteps, SetModeIfSteps DEF SkipProtection, Finish,
           ModeAfterExecution, Activities
      <3>3. QED
        BY <1>14, <3>1, <3>2
    <2>4. QED
      BY <2>2, <2>3 DEF AbstractDesk!Proceed
  <1>15. ASSUME NEW leg \in Legs, ProtectLeg(leg) PROVE AbstractDesk!Proceed /\ AbstractDesk!ModeStep
    <2>1. /\ UNCHANGED <<slot, sent, prop, dec, pos>> /\ pc = "protect" /\ pc' = "protect"
      BY <1>15 DEF ProtectLeg, At, inboxVars
    <2>2. AbstractDesk!Forgo
      BY <2>1, ForgoStep DEF OpenLegs
    <2>3. UNCHANGED mode \/ \E c \in BOOLEAN : setModeIf(c, "cycle", "SAFE_MODE")
      BY <1>15 DEF ProtectLeg, modeVars
    <2>4. AbstractDesk!ModeStep
      BY <1>1, <1>3, <2>3, SetModeIfSteps DEF Activities
    <2>5. QED
      BY <2>2, <2>4 DEF AbstractDesk!Proceed
  <1>16. ASSUME NEW a \in Activities, saveSystemState(a) \/ saveFails(a) PROVE AbstractDesk!Proceed /\ AbstractDesk!ModeStep
    <2>1. UNCHANGED <<inboxVars, cycleVars, pos, mode>>
      BY <1>16 DEF saveSystemState, saveFails, exchangeVars, bookVars
    <2>2. QED
      BY <1>1, <2>1, QuietStep DEF AbstractDesk!Proceed
  <1>17. CASE \/ Halt \/ Resume \/ Flatten \/ CancelOrders \/ CancelThrows \/ ReadFlattened
              \/ AssignFlattened \/ Settle \/ FlattenThrows \/ CacheExpires
    <2>1. UNCHANGED <<inboxVars, cycleVars, pos>>
      BY <1>17 DEF Halt, Resume, Flatten, CancelOrders, CancelThrows, ReadFlattened,
         AssignFlattened, Settle, FlattenThrows, CacheExpires, exchangeVars, bookVars
    <2>2. AbstractDesk!ModeStep
      <3>1. CASE Halt \/ Resume
        BY <1>3, <3>1, SetModeSteps DEF Halt, Resume, Activities
      <3>2. CASE Settle
        BY <1>1, <1>3, <3>2, SetModeIfSteps DEF Settle, Activities, modeVars
      <3>3. CASE \/ Flatten \/ CancelOrders \/ CancelThrows \/ ReadFlattened
                 \/ AssignFlattened \/ FlattenThrows \/ CacheExpires
        BY <1>1, <3>3 DEF Flatten, CancelOrders, CancelThrows, ReadFlattened,
           AssignFlattened, FlattenThrows, CacheExpires, modeVars
      <3>4. QED
        BY <1>17, <3>1, <3>2, <3>3
    <2>3. QED
      BY <2>1, <2>2, QuietStep DEF AbstractDesk!Proceed
  <1>18. ASSUME NEW s \in Symbols, TriggerFires(s) PROVE AbstractDesk!Proceed /\ AbstractDesk!ModeStep
    <2>1. /\ UNCHANGED <<inboxVars, cycleVars, mode>>
          /\ pos' = [pos EXCEPT ![s] = 0] /\ pos \in Books
      BY <1>18 DEF TriggerFires, modeVars, IInv, TypeOK, BooksOK
    <2>2. pos'[s] = 0 /\ \A t \in Symbols \ {s} : pos'[t] = pos[t]
      BY <2>1 DEF Books
    <2>3. \A p \in Proposals : Fate(p)' = Fate(p)
      BY <2>1 DEF Fate, inboxVars, cycleVars, planVars
    <2>4. OpenLegs' = OpenLegs
      BY <2>1 DEF OpenLegs, cycleVars, planVars
    <2>5. AbstractDesk!Trigger
      BY <2>2, <2>3, <2>4 DEF AbstractDesk!Trigger
    <2>6. QED
      BY <1>1, <2>1, <2>5 DEF AbstractDesk!Proceed
  <1>19. ASSUME NEW p \in Proposals, Propose(p) PROVE AbstractDesk!Proceed /\ AbstractDesk!ModeStep
    <2>1. UNCHANGED mode
      BY <1>19 DEF Propose, modeVars
    <2>2. QED
      BY <1>1, <1>19, <2>1, ProposeStep DEF AbstractDesk!Proceed
  <1>20. CASE Expire
    <2>1. UNCHANGED mode
      BY <1>20 DEF Expire, modeVars
    <2>2. QED
      BY <1>1, <1>20, <2>1, ExpireStep DEF AbstractDesk!Proceed
  <1>21. CASE AccountMoves \/ UNCHANGED vars
    <2>1. UNCHANGED <<inboxVars, cycleVars, mode, pos>>
      BY <1>21 DEF AccountMoves, vars, modeVars, exchangeVars, bookVars
    <2>2. QED
      BY <1>1, <2>1, QuietStep DEF AbstractDesk!Proceed
  <1>22. QED
    BY <1>5, <1>6, <1>7, <1>8, <1>9, <1>10, <1>11, <1>12, <1>13, <1>14, <1>15, <1>16, <1>17,
       <1>18, <1>19, <1>20, <1>21
    DEF Next, Boot, CycleStep, SafeModeCycle, Execution, Persist, Command, FlattenStep,
       Environment

\* A step that observes only what the exchange has answered, or answers now.
LEMMA Observes ==
  ASSUME held' => copy'.pos \in Answers \cup {pos},
         pc' \in {"observed", "filled"} => snap' \in Answers \cup {pos},
         cpc' \in {"cancel", "close", "assign"} => csnap'.pos \in Answers \cup {pos},
         view' \in Answers \cup {view} \/ (~Up' /\ view' = Flat)
  PROVE  AbstractDesk!Observe
  <1>1. Answers' \subseteq Answers \cup {pos}
    BY DEF Answers
  <1>2. QED
    BY <1>1, SameRisk DEF AbstractDesk!Observe

\* What is kept and left alone is still an answer.
LEMMA AnswersKept ==
  /\ UNCHANGED cacheVars => (held' => copy'.pos \in Answers)
  /\ UNCHANGED <<pc, snap>> => (pc' \in {"observed", "filled"} => snap' \in Answers)
  /\ UNCHANGED commandVars => (cpc' \in {"cancel", "close", "assign"} => csnap'.pos \in Answers)
  BY DEF Answers, cacheVars, commandVars

\* A snapshot is an answer that was kept, or the book of this moment.
LEMMA SnapshotAnswers ==
  /\ snapshot.pos \in Answers \cup {pos}
  /\ getOrFetch => (held' => copy'.pos \in Answers \cup {pos})
  BY CachedAssumption DEF Answers, snapshot, getOrFetch

\* The runtime only ever observes what the exchange has answered.
LEMMA ObserveStep == IInv /\ [Next]_vars => AbstractDesk!Observe
  <1> SUFFICES ASSUME IInv, [Next]_vars PROVE AbstractDesk!Observe
    OBVIOUS
  <1> DEFINE Away == pc' \notin {"observed", "filled"} \/ UNCHANGED <<pc, snap>>
  <1>1. UNCHANGED <<cacheVars, commandVars, view>> /\ Away => AbstractDesk!Observe
    BY AnswersKept, Observes
  <1>2. CASE Crash \/ BootSaveFails \/ CatchThrows
    <2>1. pc' = "down" /\ ~held' /\ cpc' = "idle" /\ view' = Flat
      BY <1>2 DEF Crash, BootSaveFails, CatchThrows, Die
    <2>2. ~Up'
      BY <2>1 DEF Up, BootPcs
    <2>3. QED
      BY <2>1, <2>2, Observes
  <1>3. CASE Boot \/ AuditProtection \/ RaiseAlarm \/ AlarmLost \/ SkipHalted \/ EnterSafeMode
             \/ AwaitFunding \/ NoCandidate \/ TakeProposal
    BY <1>1, <1>3 DEF Boot, BootRead, BootWarmup, BootReady, BootDone, AuditProtection,
       RaiseAlarm, AlarmLost, SkipHalted, EnterSafeMode, AwaitFunding, NoCandidate,
       TakeProposal, EndCycle, exchangeVars
  <1>4. CASE SafeModeCycle
    BY <1>1, <1>4 DEF SafeModeCycle, SafeModeHold, SafeModeFlat, SafeModeExposed,
       VerifyProtected, VerifyNaked, Repair, RepairFails, RecheckProtected, RecheckNaked,
       RecoverVerified, Recover, EndCycle, exchangeVars
  <1>5. CASE Evaluate \/ Deny \/ StartExecution \/ NextAction \/ SkipProtection \/ EndProtection
             \/ Finish \/ Posture \/ Panic \/ CycleThrows
    BY <1>1, <1>5 DEF Evaluate, Deny, StartExecution, NextAction, At, SkipProtection,
       EndProtection, Finish, Posture, Panic, CycleThrows, EndCycle, exchangeVars
  <1>6. CASE \E leg \in Legs : PlaceLeg(leg) \/ ProtectLeg(leg)
    BY <1>1, <1>6 DEF PlaceLeg, ProtectLeg
  <1>7. CASE Sync \/ ReadFills \/ StartProtection
    <2>1. /\ UNCHANGED <<commandVars, view>> /\ getOrFetch
          /\ pc' \in {"observed", "filled"} => snap' = snapshot.pos
      BY <1>7 DEF Sync, ReadFills, StartProtection
    <2>2. QED
      BY <2>1, AnswersKept, SnapshotAnswers, Observes
  <1>8. CASE Mark \/ AssignFills
    <2>1. /\ UNCHANGED <<cacheVars, commandVars>> /\ pc' \in {"published", "synced"}
          /\ pc \in {"observed", "filled"} /\ view' = snap
      BY <1>8 DEF Mark, AssignFills, At, exchangeVars
    <2>2. view' \in Answers
      BY <2>1 DEF Answers
    <2>3. QED
      BY <2>1, <2>2, AnswersKept, Observes
  <1>9. CASE Flatten \/ ReadFlattened
    <2>1. /\ UNCHANGED <<cycleVars, view>> /\ getOrFetch /\ csnap'.pos = snapshot.pos
      BY <1>9, SnapshotType DEF Flatten, ReadFlattened, IInv, TypeOK
    <2>2. QED
      BY <2>1, AnswersKept, SnapshotAnswers, Observes DEF cycleVars
  <1>10. CASE CancelOrders \/ (\E s \in Symbols : ClosePosition(s))
    <2>1. /\ UNCHANGED <<cycleVars, view, cacheVars>>
          /\ csnap'.pos = csnap.pos /\ cpc \in {"cancel", "close"}
      BY <1>10 DEF CancelOrders, ClosePosition, IInv, TypeOK, CommandOK
    <2>2. csnap'.pos \in Answers
      BY <2>1 DEF Answers
    <2>3. QED
      BY <2>1, <2>2, AnswersKept, Observes DEF cycleVars
  <1>11. CASE AssignFlattened
    <2>1. /\ UNCHANGED <<cycleVars, cacheVars>> /\ view' = csnap.pos
          /\ cpc = "assign" /\ cpc' = "settle"
      BY <1>11 DEF AssignFlattened, exchangeVars
    <2>2. view' \in Answers
      BY <2>1 DEF Answers
    <2>3. QED
      BY <2>1, <2>2, AnswersKept, Observes DEF cycleVars
  <1>12. CASE Settle \/ CancelThrows \/ FlattenThrows
    <2>1. UNCHANGED <<cycleVars, view, cacheVars>> /\ cpc' = "idle"
      BY <1>12 DEF Settle, CancelThrows, FlattenThrows, NoCommand, exchangeVars
    <2>2. QED
      BY <2>1, AnswersKept, Observes DEF cycleVars
  <1>13. CASE CacheExpires
    <2>1. UNCHANGED <<cycleVars, view, commandVars>> /\ ~held'
      BY <1>13 DEF CacheExpires
    <2>2. QED
      BY <2>1, AnswersKept, Observes DEF cycleVars
  <1>14. CASE \/ Persist \/ (\E a \in Activities : saveFails(a)) \/ Halt \/ Resume
              \/ (\E p \in Proposals : Propose(p)) \/ Expire
              \/ (\E s \in Symbols : TriggerFires(s)) \/ AccountMoves \/ UNCHANGED vars
    <2>1. UNCHANGED <<cycleVars, view, commandVars, cacheVars>>
      BY <1>14 DEF Persist, saveSystemState, saveFails, Halt, Resume, Propose, Expire,
         TriggerFires, AccountMoves, vars, exchangeVars
    <2>2. QED
      BY <1>1, <2>1 DEF cycleVars
  <1>15. QED
    BY <1>2, <1>3, <1>4, <1>5, <1>6, <1>7, <1>8, <1>9, <1>10, <1>11, <1>12, <1>13, <1>14
    DEF Next, CycleStep, Execution, Command, FlattenStep, Environment

\* A /flatten has nothing left to trade against before it reads and after it has traded.
LEMMA NothingToClose ==
  /\ cpc \in {"idle", "assign", "settle"} => Closing = Flat
  /\ cpc = "close" /\ cleft = {} => Closing = Flat
  BY DEF Closing, Flat

\* A /flatten begins with an answer of the exchange, trades, and ends.
LEMMA OperateStep ==
  ASSUME IInv, [Next]_vars, \A s \in Symbols : ~ClosePosition(s)
  PROVE  AbstractDesk!Operate
  <1>1. UNCHANGED commandVars => AbstractDesk!Operate
    BY DEF commandVars, Closing, AbstractDesk!Operate
  <1>2. cpc' = "idle" => AbstractDesk!Operate
    <2>1. cpc' = "idle" => Closing' = Flat
      BY DEF Closing, Flat
    <2>2. QED
      BY <2>1, SameRisk DEF AbstractDesk!Operate
  <1>3. CASE Flatten
    <2>1. cpc = "idle" /\ cpc' = "cancel" /\ csnap' = snapshot
      BY <1>3 DEF Flatten, Receive
    <2>2. csnap'.pos \in Books
      BY <2>1, SnapshotType DEF IInv, TypeOK
    <2>3. Closing' = csnap'.pos
      BY <2>1, <2>2 DEF Closing, Books
    <2>4. csnap'.pos \in Answers'
      BY <2>1 DEF Answers
    <2>5. QED
      BY <2>1, <2>3, <2>4 DEF AbstractDesk!Operate
  <1>4. CASE CancelOrders
    <2>1. /\ cpc = "cancel" /\ cpc' = "close" /\ csnap'.pos = csnap.pos
          /\ cleft' = {s \in Symbols : csnap.pos[s] # 0}
      BY <1>4 DEF CancelOrders, IInv, TypeOK, CommandOK
    <2>2. Closing' = Closing
      BY <2>1 DEF Closing
    <2>3. QED
      BY <2>1, <2>2 DEF AbstractDesk!Operate
  <1>5. CASE ReadFlattened \/ AssignFlattened
    <2>1. /\ (cpc = "close" /\ cleft = {}) \/ cpc = "assign"
          /\ cpc' \in {"assign", "settle"}
      BY <1>5 DEF ReadFlattened, AssignFlattened
    <2>2. Closing = Flat /\ Closing' = Flat
      BY <2>1, NothingToClose DEF Closing, Flat
    <2>3. QED
      BY <2>1, <2>2 DEF AbstractDesk!Operate
  <1>6. CASE \/ Settle \/ CancelThrows \/ FlattenThrows \/ Crash \/ BootSaveFails \/ CatchThrows
    BY <1>2, <1>6 DEF Settle, CancelThrows, FlattenThrows, NoCommand, Crash, BootSaveFails,
       CatchThrows, Die
  <1>7. CASE \/ Boot \/ Persist \/ (\E a \in Activities : saveFails(a)) \/ Halt \/ Resume
             \/ (\E p \in Proposals : Propose(p)) \/ Expire \/ CacheExpires
             \/ (\E s \in Symbols : TriggerFires(s)) \/ AccountMoves \/ UNCHANGED vars
    BY <1>1, <1>7 DEF Boot, BootRead, BootWarmup, BootReady, BootDone, Persist, saveSystemState,
       saveFails, Halt, Resume, Propose, Expire, CacheExpires, TriggerFires, AccountMoves, vars
  <1>8. CASE \/ Sync \/ Mark \/ AuditProtection \/ RaiseAlarm \/ AlarmLost \/ SkipHalted
             \/ EnterSafeMode \/ AwaitFunding \/ NoCandidate \/ TakeProposal \/ SafeModeCycle
    BY <1>1, <1>8 DEF Sync, Mark, AuditProtection, RaiseAlarm, AlarmLost, SkipHalted,
       EnterSafeMode, AwaitFunding, NoCandidate, TakeProposal, SafeModeCycle, SafeModeHold,
       SafeModeFlat, SafeModeExposed, VerifyProtected, VerifyNaked, Repair, RepairFails,
       RecheckProtected, RecheckNaked, RecoverVerified
  <1>9. CASE Evaluate \/ Deny \/ Execution \/ Panic \/ CycleThrows
    BY <1>1, <1>9 DEF Evaluate, Deny, Execution, StartExecution, PlaceLeg, NextAction, ReadFills,
       AssignFills, StartProtection, SkipProtection, ProtectLeg, EndProtection, Finish, Posture,
       Panic, CycleThrows
  <1>10. QED
    BY <1>3, <1>4, <1>5, <1>6, <1>7, <1>8, <1>9
    DEF Next, CycleStep, Command, FlattenStep, Environment

\* A /flatten trades against a position of its snapshot by that position's size at most, and
\* not again.
LEMMA CloseStep ==
  ASSUME IInv, NEW s \in Symbols, ClosePosition(s)
  PROVE  AbstractDesk!Close /\ AbstractDesk!ModeStep
  <1>1. /\ cpc = "close" /\ s \in cleft /\ cleft' = cleft \ {s}
        /\ UNCHANGED <<inboxVars, cycleVars, mode, cpc, csnap>>
    BY DEF ClosePosition, modeVars
  <1>2. csnap.pos[s] \in Int /\ BooksOK
    BY DEF IInv, TypeOK, CommandOK, Books
  <1>3. PICK qty \in 0 .. Abs(csnap.pos[s]) : Fill(s, IF csnap.pos[s] > 0 THEN -qty ELSE qty)
    BY DEF ClosePosition
  <1>4. qty \in Int
    BY <1>2 DEF Abs
  <1>5. /\ pos'[s] = pos[s] + (IF csnap.pos[s] > 0 THEN -qty ELSE qty) /\ pos[s] \in Int
        /\ \A t \in Symbols \ {s} : pos'[t] = pos[t]
    BY <1>2, <1>3, <1>4, FillMoves
  <1>6. Closing[s] = csnap.pos[s] /\ Closing' = [Closing EXCEPT ![s] = 0]
    BY <1>1 DEF Closing
  <1>7. IF csnap.pos[s] > 0
        THEN AbstractDesk!Between(pos'[s], pos[s] - csnap.pos[s], pos[s])
        ELSE AbstractDesk!Between(pos'[s], pos[s], pos[s] - csnap.pos[s])
    BY <1>2, <1>4, <1>5 DEF AbstractDesk!Between, Abs
  <1>8. \A p \in Proposals : Fate(p)' = Fate(p)
    BY <1>1 DEF Fate, inboxVars, cycleVars, planVars
  <1>9. OpenLegs' = OpenLegs
    BY <1>1 DEF OpenLegs, cycleVars, planVars
  <1>10. AbstractDesk!Close
    BY <1>1, <1>5, <1>6, <1>7, <1>8, <1>9 DEF AbstractDesk!Close
  <1>11. QED
    BY <1>1, <1>10 DEF AbstractDesk!ModeStep

\* Every step of the trading loop is a step of TradingDesk.
LEMMA RefineStep == IInv /\ LifeInv /\ [Next]_vars => AbstractDesk!Next
  <1> SUFFICES ASSUME IInv, LifeInv, [Next]_vars PROVE AbstractDesk!Next
    OBVIOUS
  <1>1. AbstractDesk!Observe
    BY ObserveStep
  <1>2. CASE \E s \in Symbols : ClosePosition(s)
    BY <1>1, <1>2, CloseStep DEF AbstractDesk!Next
  <1>3. CASE \A s \in Symbols : ~ClosePosition(s)
    BY <1>1, <1>3, ProceedStep, OperateStep DEF AbstractDesk!Next
  <1>4. QED
    BY <1>2, <1>3

\* The trading loop implements TradingDesk: whatever crashes, throws, is delayed or is
\* commanded, a proposal reaches the exchange only between its approval and its end, once,
\* leg by leg, and it is approved only as HALT, the exposure limit and SAFE_MODE allow.
THEOREM DeskIsImplemented == Spec => ImplementsDesk
  <1>1. Init => LifeInv
    BY DEF Init, LifeInv, Placing
  <1>2. Init => AbstractDesk!Init
    <2> SUFFICES ASSUME Init PROVE AbstractDesk!Init
      OBVIOUS
    <2>1. /\ ~Up /\ OpenLegs = {} /\ cpc = "idle" /\ mode = "INIT"
          /\ \A p \in Proposals : Fate(p) = "unsent"
      BY DEF Init, Up, BootPcs, OpenLegs, Fate
    <2>2. view = AbstractDesk!Flat /\ Closing = AbstractDesk!Flat /\ Answers = {}
      BY <2>1, SameRisk, NothingToClose DEF Init, Answers
    <2>3. pos \in Books
      BY InitTyped DEF IInv, TypeOK, BooksOK
    <2>4. QED
      BY <2>1, <2>2, <2>3 DEF AbstractDesk!Init, Books
  <1>3. QED
    BY <1>1, <1>2, InitTyped, TypeStep, LifeStep, RefineStep, PTL
    DEF Spec, ImplementsDesk, AbstractDesk!Desk

-------------------------------------------------------------------------------
(* What a decision on an old answer is worth.                              *)

\* A book is the exchange's own, but for some symbols.
Current(book, except) == \A s \in Symbols \ except : book[s] = pos[s]

\* The answer the cache keeps, and the one a /flatten works with, are the exchange's book
\* but for what has moved since.
AnswersInv ==
    /\ ~held => since.kept = {}
    /\ held => Current(copy.pos, since.kept)
    /\ cpc \in {"cancel", "close", "assign"} => Current(csnap.pos, since.command)

\* A step leaves the copy in the cache alone, drops it, or puts the answer of a snapshot there.
LEMMA CopySteps ==
  ASSUME [Next]_vars
  PROVE  UNCHANGED cacheVars \/ ~held' \/ (copy' = snapshot /\ UNCHANGED <<pos, trig>>)
  <1> USE DEF exchangeVars, bookVars
  <1>1. getOrFetch => ~held' \/ copy' = snapshot
    BY DEF getOrFetch
  <1>2. CASE Sync \/ ReadFills \/ StartProtection \/ Flatten \/ ReadFlattened
    BY <1>1, <1>2 DEF Sync, ReadFills, StartProtection, Flatten, ReadFlattened
  <1>3. CASE Crash \/ BootSaveFails \/ CatchThrows \/ CacheExpires
    BY <1>3 DEF Crash, BootSaveFails, CatchThrows, Die, CacheExpires
  <1>4. CASE Boot \/ Mark \/ AuditProtection \/ RaiseAlarm \/ AlarmLost \/ SkipHalted
             \/ EnterSafeMode \/ AwaitFunding \/ NoCandidate \/ TakeProposal
    BY <1>4 DEF Boot, BootRead, BootWarmup, BootReady, BootDone, Mark, AuditProtection,
       RaiseAlarm, AlarmLost, SkipHalted, EnterSafeMode, AwaitFunding, NoCandidate, TakeProposal
  <1>5. CASE SafeModeCycle
    BY <1>5 DEF SafeModeCycle, SafeModeHold, SafeModeFlat, SafeModeExposed, VerifyProtected,
       VerifyNaked, Repair, RepairFails, RecheckProtected, RecheckNaked, RecoverVerified
  <1>6. CASE \/ Evaluate \/ Deny \/ StartExecution \/ NextAction \/ AssignFills \/ SkipProtection
             \/ EndProtection \/ Finish \/ Posture \/ Panic \/ CycleThrows
             \/ (\E leg \in Legs : PlaceLeg(leg) \/ ProtectLeg(leg))
    BY <1>6 DEF Evaluate, Deny, StartExecution, NextAction, AssignFills, SkipProtection,
       EndProtection, Finish, Posture, Panic, CycleThrows, PlaceLeg, ProtectLeg
  <1>7. CASE \/ CancelOrders \/ (\E s \in Symbols : ClosePosition(s)) \/ AssignFlattened \/ Settle
             \/ CancelThrows \/ FlattenThrows \/ Halt \/ Resume
    BY <1>7 DEF CancelOrders, ClosePosition, AssignFlattened, Settle, CancelThrows,
       FlattenThrows, Halt, Resume
  <1>8. CASE \/ Persist \/ (\E a \in Activities : saveFails(a)) \/ Expire \/ AccountMoves
             \/ (\E p \in Proposals : Propose(p)) \/ (\E s \in Symbols : TriggerFires(s))
             \/ UNCHANGED vars
    BY <1>8 DEF Persist, saveSystemState, saveFails, Expire, AccountMoves, Propose, TriggerFires,
       vars
  <1>9. QED
    BY <1>2, <1>3, <1>4, <1>5, <1>6, <1>7, <1>8
    DEF Next, CycleStep, Execution, Command, FlattenStep, Environment

\* A /flatten reads the exchange when it begins and when it has traded, and works with that
\* answer in between.
Reads == cpc = "idle" \/ (cpc = "close" /\ cpc' = "assign")
LEMMA CommandSteps ==
  ASSUME IInv, [Next]_vars, cpc' \in {"cancel", "close", "assign"}
  PROVE  \/ Reads /\ csnap'.pos = snapshot.pos /\ UNCHANGED <<pos, trig>>
         \/ ~Reads /\ cpc \in {"cancel", "close", "assign"} /\ csnap'.pos = csnap.pos
  <1>1. cpc \in {"idle", "cancel", "close", "assign", "settle"}
        /\ csnap \in [pos : Books, trig : [Symbols -> SUBSET Both]]
    BY DEF IInv, TypeOK, CommandOK
  <1>2. UNCHANGED commandVars => ~Reads /\ cpc \in {"cancel", "close", "assign"}
                                 /\ csnap' = csnap
    BY DEF commandVars, Reads
  <1>3. CASE Flatten \/ ReadFlattened
    <2>1. snapshot \in [pos : Books, trig : [Symbols -> SUBSET Both]]
      BY SnapshotType DEF IInv, TypeOK
    <2>2. QED
      BY <1>3, <2>1 DEF Flatten, ReadFlattened, Receive, Reads, bookVars
  <1>4. CASE CancelOrders \/ (\E s \in Symbols : ClosePosition(s))
    BY <1>1, <1>4 DEF CancelOrders, ClosePosition, Reads
  <1>5. CASE \/ AssignFlattened \/ Settle \/ CancelThrows \/ FlattenThrows \/ Crash
             \/ BootSaveFails \/ CatchThrows
    BY <1>5 DEF AssignFlattened, Settle, CancelThrows, FlattenThrows, NoCommand, Crash,
       BootSaveFails, CatchThrows, Die
  <1>6. CASE \/ Boot \/ Persist \/ (\E a \in Activities : saveFails(a)) \/ Halt \/ Resume
             \/ (\E p \in Proposals : Propose(p)) \/ Expire \/ CacheExpires
             \/ (\E s \in Symbols : TriggerFires(s)) \/ AccountMoves \/ UNCHANGED vars
    BY <1>2, <1>6 DEF Boot, BootRead, BootWarmup, BootReady, BootDone, Persist, saveSystemState,
       saveFails, Halt, Resume, Propose, Expire, CacheExpires, TriggerFires, AccountMoves, vars
  <1>7. CASE \/ Sync \/ Mark \/ AuditProtection \/ RaiseAlarm \/ AlarmLost \/ SkipHalted
             \/ EnterSafeMode \/ AwaitFunding \/ NoCandidate \/ TakeProposal \/ SafeModeCycle
    BY <1>2, <1>7 DEF Sync, Mark, AuditProtection, RaiseAlarm, AlarmLost, SkipHalted,
       EnterSafeMode, AwaitFunding, NoCandidate, TakeProposal, SafeModeCycle, SafeModeHold,
       SafeModeFlat, SafeModeExposed, VerifyProtected, VerifyNaked, Repair, RepairFails,
       RecheckProtected, RecheckNaked, RecoverVerified
  <1>8. CASE Evaluate \/ Deny \/ Execution \/ Panic \/ CycleThrows
    BY <1>2, <1>8 DEF Evaluate, Deny, Execution, StartExecution, PlaceLeg, NextAction, ReadFills,
       AssignFills, StartProtection, SkipProtection, ProtectLeg, EndProtection, Finish, Posture,
       Panic, CycleThrows
  <1>9. QED
    BY <1>3, <1>4, <1>5, <1>6, <1>7, <1>8
    DEF Next, CycleStep, Command, FlattenStep, Environment

\* What has not moved is where it was, with the orders it had.
LEMMA Unmoved ==
  \A s \in Symbols \ Moved : pos'[s] = pos[s] /\ trig[s] \subseteq trig'[s]
  BY DEF Moved

\* An answer given now, or kept, is current but for what has moved since it was kept.
LEMMA SnapshotCurrent ==
  ASSUME AnswersInv
  PROVE  Current(snapshot.pos, since.kept)
  BY DEF AnswersInv, Current, snapshot

\* Every step keeps the answers current but for what has moved.
LEMMA AnswersStep == IInv /\ AnswersInv /\ [HNext]_hvars => AnswersInv'
  <1> SUFFICES ASSUME IInv, AnswersInv, [HNext]_hvars PROVE AnswersInv'
    OBVIOUS
  <1>1. CASE UNCHANGED hvars
    BY <1>1 DEF hvars, vars, commandVars, exchangeVars, bookVars, cacheVars, AnswersInv, Current
  <1>2. CASE HNext
    <2>1. /\ [Next]_vars /\ since'.kept = KeptSince /\ since'.command = CommandSince
      BY <1>2 DEF HNext
    <2>2. ~held' => since'.kept = {}
      BY <2>1 DEF KeptSince
    <2>3. ASSUME held' PROVE Current(copy.pos, since.kept)'
      <3>1. since'.kept = since.kept \cup Moved
        BY <2>1, <2>3 DEF KeptSince
      <3>2. CASE UNCHANGED cacheVars
        BY <2>3, <3>1, <3>2, Unmoved DEF AnswersInv, Current, cacheVars
      <3>3. CASE copy' = snapshot /\ UNCHANGED <<pos, trig>>
        BY <3>1, <3>3, SnapshotCurrent DEF Current
      <3>4. QED
        BY <2>1, <2>3, <3>2, <3>3, CopySteps
    <2>4. ASSUME cpc' \in {"cancel", "close", "assign"} PROVE Current(csnap.pos, since.command)'
      <3>1. CASE Reads /\ csnap'.pos = snapshot.pos /\ UNCHANGED <<pos, trig>>
        <4>1. since'.command = since.kept
          BY <2>1, <2>4, <3>1 DEF CommandSince, Reads
        <4>2. QED
          BY <3>1, <4>1, SnapshotCurrent DEF Current
      <3>2. CASE ~Reads /\ cpc \in {"cancel", "close", "assign"} /\ csnap'.pos = csnap.pos
        <4>1. since'.command = since.command \cup Moved
          BY <2>1, <2>4, <3>2 DEF CommandSince, Reads
        <4>2. QED
          BY <3>2, <4>1, Unmoved DEF AnswersInv, Current
      <3>3. QED
        BY <2>1, <2>4, <3>1, <3>2, CommandSteps
    <2>5. QED
      BY <2>2, <2>3, <2>4 DEF AnswersInv
  <1>3. QED
    BY <1>1, <1>2

\* Until a cycle acts on state.positions they are the exchange's positions but for what has
\* moved, and so is the answer on its way there; what a recovery has verified is protected.
Viewing == {"published", "alarm", "audited", "health", "verify", "repair", "selected", "decided"}
Deciding == Viewing \cup {"observed", "recheck", "verified"}
Guarded(s) == pos[s] = 0 \/ trig[s] = Both
CycleInv ==
    /\ pc \in {"observed", "recheck"} => Current(snap, since.cycle)
    /\ pc \in Viewing => Current(view, since.cycle)
    /\ pc = "verified" => \A s \in Symbols \ since.cycle : Guarded(s)

\* A symbol that is not counted among those that moved has kept its position and its orders.
LEMMA CycleUnmoved ==
  ASSUME HNext, pc # "idle", pc' \in CyclePcs, ~OwnLeg
  PROVE  /\ \A s \in Symbols \ since'.cycle :
              s \notin since.cycle /\ pos'[s] = pos[s] /\ trig[s] \subseteq trig'[s]
         /\ cpc = "assign" /\ cpc' = "settle" => since.command \subseteq since'.cycle
  <1>1. since'.cycle = since.cycle \cup Moved
                         \cup (IF cpc = "assign" /\ cpc' = "settle" THEN since.command ELSE {})
    BY DEF HNext, CycleSince
  <1>2. QED
    BY <1>1, Unmoved

\* A symbol without a missing order is guarded, if the book is right about it.
LEMMA NotNaked ==
  ASSUME BooksOK, NEW book, NEW except, Current(book, except), Naked(book) = {}
  PROVE  \A s \in Symbols \ except : Guarded(s)
  BY DEF BooksOK, Books, Current, Naked, Guarded, SameSide

\* What is guarded and does not move stays guarded.
LEMMA StaysGuarded ==
  ASSUME BooksOK', NEW s \in Symbols, Guarded(s), pos'[s] = pos[s], trig[s] \subseteq trig'[s]
  PROVE  Guarded(s)'
  BY DEF BooksOK, Guarded

\* A step of the command consumer or of the environment does not change the cycle, and
\* assigns state.positions at the end of a /flatten only.
LEMMA OthersCycle ==
  ASSUME IInv, AnswersInv, CycleInv, IInv', HNext, pc \in Deciding, ~OwnLeg,
         UNCHANGED cycleVars, UNCHANGED view \/ AssignFlattened
  PROVE  CycleInv'
  <1>1. pc' = pc /\ snap' = snap /\ pc # "idle" /\ pc' \in CyclePcs
    BY DEF cycleVars, Deciding, Viewing, CyclePcs
  <1>2. \A s \in Symbols \ since'.cycle :
          s \notin since.cycle /\ pos'[s] = pos[s] /\ trig[s] \subseteq trig'[s]
    BY <1>1, CycleUnmoved
  <1>3. pc \in {"observed", "recheck"} => Current(snap, since.cycle)'
    BY <1>1, <1>2 DEF CycleInv, Current
  <1>4. ASSUME pc \in Viewing PROVE Current(view, since.cycle)'
    <2>1. CASE UNCHANGED view
      BY <1>2, <1>4, <2>1 DEF CycleInv, Current
    <2>2. CASE AssignFlattened
      <3>1. cpc = "assign" /\ cpc' = "settle" /\ view' = csnap.pos
        BY <2>2 DEF AssignFlattened
      <3>2. since.command \subseteq since'.cycle
        BY <1>1, <3>1, CycleUnmoved
      <3>3. QED
        BY <1>2, <3>1, <3>2 DEF AnswersInv, Current
    <2>3. QED
      BY <2>1, <2>2
  <1>5. ASSUME pc = "verified" PROVE (\A s \in Symbols \ since.cycle : Guarded(s))'
    <2>1. \A s \in Symbols \ since'.cycle : Guarded(s)
      BY <1>2, <1>5 DEF CycleInv
    <2>2. \A s \in Symbols \ since'.cycle : Guarded(s)'
      BY <1>2, <2>1, StaysGuarded DEF IInv, TypeOK
    <2>3. QED
      BY <2>2
  <1>6. QED
    BY <1>1, <1>3, <1>4, <1>5 DEF CycleInv

\* Every step keeps what a decision rests on.
LEMMA CycleStepKeeps ==
  IInv /\ AnswersInv /\ CycleInv /\ IInv' /\ [HNext]_hvars => CycleInv'
  <1> SUFFICES ASSUME IInv, AnswersInv, CycleInv, IInv', [HNext]_hvars PROVE CycleInv'
    OBVIOUS
  <1> USE DEF exchangeVars, bookVars
  <1>1. CASE UNCHANGED hvars
    BY <1>1 DEF hvars, vars, cycleVars, CycleInv, Current, Guarded
  <1>2. pc' \notin Deciding => CycleInv'
    BY DEF CycleInv, Deciding
  <1>3. CASE HNext /\ OwnLeg
    <2>1. pc' = "placing"
      BY <1>3 DEF OwnLeg, PlaceLeg
    <2>2. QED
      BY <1>2, <2>1 DEF Deciding, Viewing
  <1>4. ASSUME HNext, ~OwnLeg, pc' \in Deciding PROVE CycleInv'
    <2>1. pc' \in CyclePcs /\ since'.cycle = CycleSince
      BY <1>4 DEF Deciding, Viewing, CyclePcs, HNext
    <2>2. ASSUME pc # "idle"
          PROVE  \A s \in Symbols \ since'.cycle :
                   s \notin since.cycle /\ pos'[s] = pos[s] /\ trig[s] \subseteq trig'[s]
      BY <1>4, <2>1, <2>2, CycleUnmoved
    <2>3. CASE Sync
      <3>1. /\ pc = "idle" /\ pc' = "observed" /\ snap' = snapshot.pos /\ UNCHANGED pos
        BY <2>3 DEF Sync, At
      <3>2. since'.cycle = since.kept
        BY <2>1, <3>1 DEF CycleSince, CyclePcs
      <3>3. QED
        BY <3>1, <3>2, SnapshotCurrent DEF CycleInv, Current, Viewing
    <2>4. CASE Mark
      <3>1. pc = "observed" /\ pc' = "published" /\ view' = snap
        BY <2>4 DEF Mark, At
      <3>2. QED
        BY <2>2, <3>1 DEF CycleInv, Current, Viewing
    <2>5. CASE \/ AuditProtection \/ RaiseAlarm \/ AlarmLost \/ EnterSafeMode \/ SafeModeExposed
               \/ VerifyNaked \/ TakeProposal \/ Evaluate
      <3>1. pc \in Viewing /\ pc' \in Viewing /\ view' = view
        BY <2>5 DEF AuditProtection, RaiseAlarm, AlarmLost, EnterSafeMode, SafeModeExposed,
           VerifyNaked, TakeProposal, Evaluate, Funded, Trading, Dispatching, At, Viewing
      <3>2. QED
        BY <2>2, <3>1 DEF CycleInv, Current, Viewing
    <2>6. CASE Repair
      <3>1. pc = "repair" /\ pc' = "recheck" /\ snap' = view
        BY <2>6 DEF Repair, At
      <3>2. QED
        BY <2>2, <3>1 DEF CycleInv, Current, Viewing
    <2>7. CASE VerifyProtected \/ RecheckProtected
      <3>1. /\ pc \in {"verify", "recheck"} /\ pc' = "verified" /\ UNCHANGED <<pos, trig>>
            /\ pc = "verify" => Naked(view) = {}
            /\ pc = "recheck" => Naked(snap) = {}
        BY <2>7 DEF VerifyProtected, RecheckProtected, At
      <3>2. BooksOK
        BY DEF IInv, TypeOK
      <3>3. \A s \in Symbols \ since.cycle : Guarded(s)
        BY <3>1, <3>2, NotNaked DEF CycleInv, Viewing
      <3>4. QED
        BY <2>2, <3>1, <3>3 DEF CycleInv, Guarded, Viewing
    <2>8. CASE \/ Boot \/ Crash \/ BootSaveFails \/ CatchThrows \/ CycleThrows \/ SkipHalted
               \/ AwaitFunding \/ NoCandidate \/ Deny \/ Posture \/ Panic
      <3>1. pc' \in {"boot", "warmup", "starting", "idle", "panic", "down"}
        BY <2>8 DEF Boot, BootRead, BootWarmup, BootReady, BootDone, Crash, BootSaveFails,
           CatchThrows, Die, CycleThrows, SkipHalted, AwaitFunding, NoCandidate, Deny, Posture,
           Panic, EndCycle
      <3>2. QED
        BY <1>2, <3>1 DEF Deciding, Viewing
    <2>9. CASE SafeModeHold \/ SafeModeFlat \/ RepairFails \/ RecheckNaked \/ RecoverVerified
      <3>1. pc' = "idle"
        BY <2>9 DEF SafeModeHold, SafeModeFlat, RepairFails, RecheckNaked, RecoverVerified,
           Recover, EndCycle
      <3>2. QED
        BY <1>2, <3>1 DEF Deciding, Viewing
    <2>10. CASE \/ StartExecution \/ NextAction \/ ReadFills \/ AssignFills \/ StartProtection
                \/ SkipProtection \/ (\E leg \in Legs : ProtectLeg(leg)) \/ EndProtection \/ Finish
      <3>1. pc' \in {"placing", "filled", "synced", "protect", "finish", "posture"}
        BY <2>10 DEF StartExecution, NextAction, ReadFills, AssignFills, StartProtection,
           SkipProtection, ProtectLeg, EndProtection, Finish, At
      <3>2. QED
        BY <1>2, <3>1 DEF Deciding, Viewing
    <2>11. CASE \/ Persist \/ (\E a \in Activities : saveFails(a)) \/ Command \/ Expire
                \/ (\E p \in Proposals : Propose(p)) \/ CacheExpires
                \/ (\E s \in Symbols : TriggerFires(s)) \/ AccountMoves
      <3>1. UNCHANGED cycleVars /\ (UNCHANGED view \/ AssignFlattened)
        BY <2>11 DEF Persist, saveSystemState, saveFails, Command, Halt, Resume, Flatten,
           FlattenStep, CancelOrders, ClosePosition, ReadFlattened, Settle, CancelThrows,
           FlattenThrows, Expire, Propose, CacheExpires, TriggerFires, AccountMoves,
           AssignFlattened
      <3>2. pc \in Deciding
        BY <1>4, <3>1 DEF cycleVars
      <3>3. QED
        BY <1>4, <3>1, <3>2, OthersCycle
    <2>12. QED
      BY <1>4, <2>3, <2>4, <2>5, <2>6, <2>7, <2>8, <2>9, <2>10, <2>11
      DEF HNext, Next, CycleStep, SafeModeCycle, Execution, Environment, OwnLeg
  <1>5. QED
    BY <1>1, <1>2, <1>3, <1>4

\* With its history or without, the loop is the same loop.
LEMMA HistoryIsSpec == HSpec => Spec
  <1>1. HInit => Init
    BY DEF HInit
  <1>2. [HNext]_hvars => [Next]_vars
    BY DEF HNext, hvars
  <1>3. QED
    BY <1>1, <1>2, PTL DEF HSpec, Spec

\* What holds throughout of the loop and of its answers.
HistoryInv == IInv /\ LifeInv /\ AnswersInv /\ CycleInv
LEMMA HistoryAlways == HSpec => []HistoryInv
  <1>1. HInit => HistoryInv
    <2> SUFFICES ASSUME HInit PROVE HistoryInv
      OBVIOUS
    <2>1. Init /\ since = Still
      BY DEF HInit
    <2>2. IInv
      BY <2>1, InitTyped
    <2>3. LifeInv
      BY <2>1 DEF Init, LifeInv, Placing
    <2>4. AnswersInv /\ CycleInv
      BY <2>1 DEF Init, Still, AnswersInv, CycleInv, Viewing
    <2>5. QED
      BY <2>2, <2>3, <2>4 DEF HistoryInv
  <1>2. HistoryInv /\ [HNext]_hvars => HistoryInv'
    <2> SUFFICES ASSUME HistoryInv, [HNext]_hvars PROVE HistoryInv'
      OBVIOUS
    <2>1. [Next]_vars
      BY DEF HNext, hvars
    <2>2. IInv' /\ LifeInv'
      BY <2>1, TypeStep, LifeStep DEF HistoryInv
    <2>3. AnswersInv' /\ CycleInv'
      BY <2>2, AnswersStep, CycleStepKeeps DEF HistoryInv
    <2>4. QED
      BY <2>2, <2>3 DEF HistoryInv
  <1>3. QED
    BY <1>1, <1>2, PTL DEF HSpec

\* Whatever the cache answered, whatever a /flatten, a trigger, a fault or a crash did
\* meanwhile: a recovery from SAFE_MODE leaves only such positions without SL and TP as have
\* traded, or lost an order, since the exchange gave the answer it was decided on.
THEOREM RecoveryProtects == HSpec => RecoveryIsProtected
  <1>1. HistoryInv => (SafeModeFlat \/ RecoverVerified => Naked(pos) \subseteq since.cycle)
    <2> SUFFICES ASSUME HistoryInv, SafeModeFlat \/ RecoverVerified
                 PROVE  \A s \in Symbols \ since.cycle : Guarded(s)
      BY DEF Naked, Guarded, HistoryInv, IInv, TypeOK, BooksOK, Books, SameSide
    <2>1. CASE SafeModeFlat
      <3>1. pc = "health" /\ ~Exposed(view)
        BY <2>1 DEF SafeModeFlat, At
      <3>2. QED
        BY <3>1 DEF HistoryInv, CycleInv, Viewing, Current, Exposed, Guarded
    <2>2. CASE RecoverVerified
      BY <2>2 DEF RecoverVerified, At, HistoryInv, CycleInv
    <2>3. QED
      BY <2>1, <2>2
  <1>2. QED
    BY <1>1, HistoryAlways, PTL DEF HSpec, RecoveryIsProtected

-------------------------------------------------------------------------------
(* What the exchange holds while a proposal's legs are filled.             *)

\* The legs on one side of a symbol, and those of them that can trade no more: they have, in
\* part or whole, or were given up.
LegsOn(p, s, side) == {x \in LegsOf(p) : x[2].symbol = s /\ x[2].side = side}
size(p) == [x \in LegsOf(p) |-> x[2].usd]
Spent(s, side) == LegsOn(prop, s, side) \ OpenLegs
Taken(s, side) == Total(size(prop), Spent(s, side))

\* A position is between what the spent legs of either side can have made of the one seen.
FillsInv ==
    pc = "placing" =>
      \A s \in Symbols \ since.cycle :
        /\ pos[s] <= view[s] + Taken(s, "BUY")
        /\ pos[s] >= view[s] - Taken(s, "SELL")

\* A proposal has finitely many legs: it is a sequence of actions of finitely many each.
LEMMA LegsAreFinite == \A p \in Proposals : IsFiniteSet(LegsOf(p))
  <1> SUFFICES ASSUME NEW p \in Proposals PROVE IsFiniteSet(LegsOf(p))
    OBVIOUS
  <1> DEFINE I == DOMAIN p.actions
             f == [i \in I |-> p.actions[i].legs]
             T == {f[i] : i \in I}
  <1>1. IsFiniteSet(I)
    <2>1. I = 1 .. Len(p.actions) /\ Len(p.actions) \in Nat
      BY ProposalsAssumption
    <2>2. QED
      BY <2>1, FS_Interval
  <1>2. f \in Surjection(I, T)
    BY DEF Surjection
  <1>3. \A t \in T : IsFiniteSet(t)
    BY ProposalsAssumption
  <1>4. LegsOf(p) \subseteq I \X UNION T
    BY DEF LegsOf
  <1> HIDE DEF I, f, T
  <1>5. IsFiniteSet(T)
    BY <1>1, <1>2, FS_Surjection
  <1>6. IsFiniteSet(UNION T)
    BY <1>3, <1>5, FS_UNION
  <1>7. IsFiniteSet(I \X UNION T)
    BY <1>1, <1>6, FS_Product
  <1>8. QED
    BY <1>4, <1>7, FS_Subset

\* The legs on one side of a symbol are finitely many, of a positive size.
LEMMA LegsOnType ==
  ASSUME NEW p \in Proposals, NEW s, NEW side
  PROVE  /\ IsFiniteSet(LegsOn(p, s, side))
         /\ \A x \in LegsOn(p, s, side) :
              x \in LegsOf(p) /\ size(p)[x] = x[2].usd /\ x[2].usd \in Nat
  <1>1. LegsOn(p, s, side) \subseteq LegsOf(p) /\ IsFiniteSet(LegsOf(p))
    BY LegsAreFinite DEF LegsOn
  <1>2. IsFiniteSet(LegsOn(p, s, side))
    BY <1>1, FS_Subset
  <1>3. \A x \in LegsOf(p) : x[2] \in Leg
    BY LegType DEF LegsOf
  <1>4. QED
    BY <1>1, <1>2, <1>3 DEF size, Leg

\* More legs have a larger size.
LEMMA SizeGrows ==
  ASSUME NEW p \in Proposals, NEW s, NEW side,
         NEW T \in SUBSET LegsOn(p, s, side), NEW U \in SUBSET T
  PROVE  /\ Total(size(p), U) \in Nat /\ Total(size(p), T) \in Nat
         /\ Total(size(p), U) <= Total(size(p), T)
  <1>1. /\ IsFiniteSet(T) /\ IsFiniteSet(U) /\ IsFiniteSet(T \ U)
        /\ \A x \in T : size(p)[x] \in Nat
    BY LegsOnType, FS_Subset
  <1>2. \A R \in {T, U, T \ U} : Total(size(p), R) \in Nat
    <2> SUFFICES ASSUME NEW R \in {T, U, T \ U} PROVE Total(size(p), R) \in Nat
      OBVIOUS
    <2>1. IsFiniteSet(R) /\ \A x \in R : size(p)[x] \in Int /\ size(p)[x] >= 0
      BY <1>1
    <2>2. Total(size(p), R) \in Int /\ Total(size(p), R) >= 0
      BY <2>1, TotalType
    <2>3. QED
      BY <2>2
  <1>3. Total(size(p), T) = Total(size(p), U) + Total(size(p), T \ U)
    <2>1. \A x \in T : size(p)[x] \in Int
      BY <1>1
    <2>2. QED
      BY <1>1, <2>1, TotalSplit
  <1>4. QED
    BY <1>2, <1>3

\* What the spent legs have taken is a number; with fewer legs open it is no less.
LEMMA TakenGrows ==
  ASSUME pc = "placing", prop \in Proposals, NEW s, NEW side
  PROVE  /\ Taken(s, side) \in Nat
         /\ UNCHANGED prop /\ OpenLegs' \subseteq OpenLegs =>
              Taken(s, side)' \in Nat /\ Taken(s, side) <= Taken(s, side)'
  <1>1. Spent(s, side) \subseteq LegsOn(prop, s, side)
    BY DEF Spent
  <1>2. Taken(s, side) \in Nat
    BY <1>1, SizeGrows DEF Taken
  <1>3. ASSUME UNCHANGED prop, OpenLegs' \subseteq OpenLegs
        PROVE  Taken(s, side)' \in Nat /\ Taken(s, side) <= Taken(s, side)'
    <2>1. /\ Spent(s, side)' = LegsOn(prop, s, side) \ OpenLegs'
          /\ Taken(s, side)' = Total(size(prop), Spent(s, side)')
      BY <1>3 DEF Spent, LegsOn, Taken, size
    <2>2. Spent(s, side) \subseteq Spent(s, side)' /\ Spent(s, side)' \subseteq LegsOn(prop, s, side)
      BY <1>3, <2>1 DEF Spent
    <2>3. QED
      BY <2>1, <2>2, SizeGrows DEF Taken
  <1>4. QED
    BY <1>2, <1>3

\* A filled leg moves its position by its size at most, and is spent.
LEMMA FillsPlace ==
  ASSUME IInv, LifeInv, FillsInv, HNext, NEW leg \in Legs, PlaceLeg(leg)
  PROVE  FillsInv'
  <1> DEFINE x == <<act, leg>>
  <1>1. /\ pc = "placing" /\ pc' = "placing" /\ prop \in Proposals
        /\ prop' = prop /\ view' = view /\ cpc' = cpc
        /\ leg.symbol \in Symbols /\ leg.side \in {"BUY", "SELL"} /\ leg.usd \in Nat
    BY LegsType DEF PlaceLeg, IInv, PlanKept, Working, Leg, commandVars
  <1>2. /\ x \in OpenLegs /\ x \in LegsOf(prop) /\ OpenLegs' = OpenLegs \ {x}
        /\ \A t \in Symbols \ {leg.symbol} : pos'[t] = pos[t]
        /\ \E qty \in 0 .. leg.usd :
             pos'[leg.symbol] = pos[leg.symbol] + (IF leg.side = "BUY" THEN qty ELSE -qty)
    BY PlaceOpens
  <1>3. since.cycle \subseteq since'.cycle
    BY <1>1 DEF HNext, CycleSince, CyclePcs
  <1>4. x[2] = leg
    OBVIOUS
  <1> HIDE DEF x
  <1>5. Taken(leg.symbol, leg.side)' = leg.usd + Taken(leg.symbol, leg.side)
    <2> DEFINE s == leg.symbol
               side == leg.side
    <2>1. x \in LegsOn(prop, s, side)
      BY <1>2, <1>4 DEF LegsOn
    <2>2. /\ Spent(s, side)' = Spent(s, side) \cup {x} /\ x \notin Spent(s, side)
          /\ Spent(s, side)' \subseteq LegsOn(prop, s, side)
      BY <1>1, <1>2, <2>1 DEF Spent, LegsOn
    <2>3. /\ IsFiniteSet(Spent(s, side)') /\ \A y \in Spent(s, side)' : size(prop)[y] \in Int
          /\ size(prop)[x] = leg.usd
      BY <1>1, <1>4, <2>1, <2>2, LegsOnType, FS_Subset
    <2>4. Total(size(prop), Spent(s, side)') = leg.usd + Total(size(prop), Spent(s, side)' \ {x})
      BY <2>2, <2>3, TotalOfOther
    <2>5. Spent(s, side)' \ {x} = Spent(s, side)
      BY <2>2
    <2>6. Taken(s, side)' = Total(size(prop), Spent(s, side)')
      BY <1>1 DEF Taken, size
    <2>7. QED
      BY <2>4, <2>5, <2>6 DEF Taken
  <1>6. ASSUME NEW s \in Symbols \ since'.cycle
        PROVE  pos'[s] <= view[s] + Taken(s, "BUY")' /\ pos'[s] >= view[s] - Taken(s, "SELL")'
    <2>1. /\ pos[s] <= view[s] + Taken(s, "BUY") /\ pos[s] >= view[s] - Taken(s, "SELL")
          /\ pos[s] \in Int /\ view[s] \in Int
      BY <1>1, <1>3, <1>6 DEF FillsInv, IInv, TypeOK, BooksOK, Books
    <2>2. \A side \in {"BUY", "SELL"} :
            /\ Taken(s, side) \in Nat /\ Taken(s, side)' \in Nat
            /\ Taken(s, side) <= Taken(s, side)'
      BY <1>1, <1>2, TakenGrows
    <2>3. CASE s # leg.symbol
      BY <1>2, <1>6, <2>1, <2>2, <2>3
    <2>4. CASE s = leg.symbol
      <3>1. PICK qty \in 0 .. leg.usd :
              pos'[s] = pos[s] + (IF leg.side = "BUY" THEN qty ELSE -qty)
        BY <1>2, <2>4
      <3>2. CASE leg.side = "BUY"
        BY <1>1, <1>5, <2>1, <2>2, <2>4, <3>1, <3>2
      <3>3. CASE leg.side = "SELL"
        BY <1>1, <1>5, <2>1, <2>2, <2>4, <3>1, <3>3
      <3>4. QED
        BY <1>1, <3>2, <3>3
    <2>5. QED
      BY <2>3, <2>4
  <1>7. QED
    BY <1>1, <1>6 DEF FillsInv

\* Nothing has moved when the first action's legs are chosen.
LEMMA FillsStart ==
  ASSUME IInv, IInv', CycleInv, HNext, StartExecution
  PROVE  FillsInv'
  <1>1. /\ pc = "decided" /\ pc' = "placing" /\ prop' \in Proposals /\ UNCHANGED <<view, pos, cpc>>
    BY DEF StartExecution, At, exchangeVars, bookVars, commandVars, IInv, PlanKept, Working
  <1>2. since.cycle \subseteq since'.cycle
    BY <1>1 DEF HNext, CycleSince, CyclePcs
  <1>3. ASSUME NEW s, NEW side PROVE Taken(s, side)' \in Nat
    <2>1. /\ Taken(s, side)' = Total(size(prop'), Spent(s, side)')
          /\ Spent(s, side)' = LegsOn(prop', s, side) \ OpenLegs'
      BY DEF Taken, Spent, LegsOn, size
    <2>2. Spent(s, side)' \subseteq LegsOn(prop', s, side)
      BY <2>1
    <2>3. QED
      BY <1>1, <2>1, <2>2, SizeGrows
  <1>4. ASSUME NEW s \in Symbols \ since'.cycle
        PROVE  pos'[s] <= view'[s] + Taken(s, "BUY")' /\ pos'[s] >= view'[s] - Taken(s, "SELL")'
    <2>1. pos[s] = view[s] /\ pos[s] \in Int
      BY <1>1, <1>2, <1>4 DEF CycleInv, Viewing, Current, IInv, TypeOK, BooksOK, Books
    <2>2. Taken(s, "BUY")' \in Nat /\ Taken(s, "SELL")' \in Nat
      BY <1>3
    <2>3. QED
      BY <1>1, <2>1, <2>2
  <1>5. QED
    BY <1>4 DEF FillsInv

\* A step that trades no leg leaves the legs and the positions that count where they are, but
\* for what a /flatten assigns.
LEMMA FillsStay ==
  ASSUME IInv, AnswersInv, FillsInv, HNext, ~OwnLeg, pc = "placing", pc' = "placing",
         prop' = prop, OpenLegs' \subseteq OpenLegs, UNCHANGED view \/ AssignFlattened
  PROVE  FillsInv'
  <1>1. prop \in Proposals
    BY DEF IInv, PlanKept, Working
  <1>2. /\ \A s \in Symbols \ since'.cycle : s \notin since.cycle /\ pos'[s] = pos[s]
        /\ cpc = "assign" /\ cpc' = "settle" => since.command \subseteq since'.cycle
    BY CycleUnmoved DEF CyclePcs
  <1>3. ASSUME NEW s \in Symbols \ since'.cycle
        PROVE  pos'[s] <= view'[s] + Taken(s, "BUY")' /\ pos'[s] >= view'[s] - Taken(s, "SELL")'
    <2>1. /\ pos[s] <= view[s] + Taken(s, "BUY") /\ pos[s] >= view[s] - Taken(s, "SELL")
          /\ pos'[s] = pos[s] /\ pos[s] \in Int /\ view[s] \in Int
      BY <1>2, <1>3 DEF FillsInv, IInv, TypeOK, BooksOK, Books
    <2>2. \A side \in {"BUY", "SELL"} :
            /\ Taken(s, side) \in Nat /\ Taken(s, side)' \in Nat
            /\ Taken(s, side) <= Taken(s, side)'
      BY <1>1, TakenGrows
    <2>3. CASE UNCHANGED view
      BY <2>1, <2>2, <2>3
    <2>4. CASE AssignFlattened
      <3>1. cpc = "assign" /\ cpc' = "settle" /\ view' = csnap.pos
        BY <2>4 DEF AssignFlattened
      <3>2. view'[s] = pos[s]
        BY <1>2, <1>3, <3>1 DEF AnswersInv, Current
      <3>3. QED
        BY <2>1, <2>2, <3>2
    <2>5. QED
      BY <2>3, <2>4
  <1>4. QED
    BY <1>3 DEF FillsInv

\* Every step keeps the positions between their bounds.
LEMMA FillsStep == HistoryInv /\ HistoryInv' /\ FillsInv /\ [HNext]_hvars => FillsInv'
  <1> SUFFICES ASSUME HistoryInv, HistoryInv', FillsInv, [HNext]_hvars PROVE FillsInv'
    OBVIOUS
  <1> USE DEF HistoryInv
  <1>1. CASE UNCHANGED hvars
    <2>1. /\ UNCHANGED <<pc, prop, dec, act, todo, pos, view, since>>
      BY <1>1 DEF hvars, vars, cycleVars, planVars, exchangeVars, bookVars
    <2>2. UNCHANGED OpenLegs
      BY <2>1 DEF OpenLegs
    <2>3. QED
      BY <2>1, <2>2 DEF FillsInv, Taken, Spent, LegsOn, size
  <1>2. CASE HNext /\ OwnLeg
    BY <1>2, FillsPlace DEF OwnLeg
  <1>3. ASSUME HNext, ~OwnLeg, pc' = "placing" PROVE FillsInv'
    <2>1. CASE StartExecution
      BY <1>3, <2>1, FillsStart
    <2>2. CASE NextAction
      <3>1. pc = "placing" /\ UNCHANGED <<prop, view>>
        BY <2>2 DEF NextAction, At
      <3>2. QED
        BY <1>3, <2>2, <3>1, NextActionForgoes, FillsStay
    <2>3. CASE UNCHANGED cycleVars /\ (UNCHANGED view \/ AssignFlattened)
      <3>1. pc = "placing" /\ prop' = prop /\ OpenLegs' = OpenLegs
        BY <1>3, <2>3 DEF cycleVars, planVars, OpenLegs
      <3>2. QED
        BY <1>3, <2>3, <3>1, FillsStay
    <2>4. CASE \/ Boot \/ Crash \/ BootSaveFails \/ CatchThrows \/ CycleThrows \/ SkipHalted
               \/ AwaitFunding \/ NoCandidate \/ Deny \/ Posture \/ Panic \/ Sync \/ Mark
               \/ AuditProtection \/ RaiseAlarm \/ AlarmLost \/ EnterSafeMode \/ TakeProposal
               \/ Evaluate
      BY <1>3, <2>4 DEF Boot, BootRead, BootWarmup, BootReady, BootDone, Crash, BootSaveFails,
         CatchThrows, Die, CycleThrows, SkipHalted, AwaitFunding, NoCandidate, Deny, Posture,
         Panic, EndCycle, Sync, Mark, AuditProtection, RaiseAlarm, AlarmLost, EnterSafeMode,
         TakeProposal, Evaluate
    <2>5. CASE SafeModeCycle
      BY <1>3, <2>5 DEF SafeModeCycle, SafeModeHold, SafeModeFlat, SafeModeExposed,
         VerifyProtected, VerifyNaked, Repair, RepairFails, RecheckProtected, RecheckNaked,
         RecoverVerified, Recover, EndCycle
    <2>6. CASE \/ ReadFills \/ AssignFills \/ StartProtection \/ SkipProtection
               \/ (\E leg \in Legs : ProtectLeg(leg)) \/ EndProtection \/ Finish
      BY <1>3, <2>6 DEF ReadFills, AssignFills, StartProtection, SkipProtection, ProtectLeg,
         EndProtection, Finish, At
    <2>7. CASE \/ Persist \/ (\E a \in Activities : saveFails(a)) \/ Command \/ Expire
               \/ (\E p \in Proposals : Propose(p)) \/ CacheExpires
               \/ (\E s \in Symbols : TriggerFires(s)) \/ AccountMoves
      BY <2>3, <2>7 DEF Persist, saveSystemState, saveFails, Command, Halt, Resume, Flatten,
         FlattenStep, CancelOrders, ClosePosition, ReadFlattened, Settle, CancelThrows,
         FlattenThrows, Expire, Propose, CacheExpires, TriggerFires, AccountMoves,
         AssignFlattened
    <2>8. QED
      BY <1>3, <2>1, <2>2, <2>4, <2>5, <2>6, <2>7
      DEF HNext, Next, CycleStep, Execution, Environment, OwnLeg
  <1>4. pc' # "placing" => FillsInv'
    BY DEF FillsInv
  <1>5. QED
    BY <1>1, <1>2, <1>3, <1>4

\* What all legs of a side amount to is no less than what the spent ones have taken.
LEMMA TakenOfAmount ==
  ASSUME prop \in Proposals, NEW s, NEW side
  PROVE  /\ Taken(s, side) \in Nat /\ Amount(prop, s, side) \in Nat
         /\ Taken(s, side) <= Amount(prop, s, side)
  <1> DEFINE legs == LegsOn(prop, s, side)
             f == [x \in legs |-> x[2].usd]
  <1>1. Amount(prop, s, side) = Total(f, legs)
    BY DEF Amount, LegsOn, Total
  <1>2. IsFiniteSet(legs) /\ \A x \in legs : size(prop)[x] \in Int /\ f[x] = size(prop)[x]
    BY LegsOnType
  <1>3. Total(f, legs) = Total(size(prop), legs)
    <2> HIDE DEF f, legs
    <2>1. QED
      BY <1>2, TotalEqual
  <1>4. Spent(s, side) \subseteq legs
    BY DEF Spent
  <1>5. QED
    BY <1>1, <1>3, <1>4, SizeGrows DEF Taken

\* A number between two others is no further from zero than the further of them.
LEMMA BetweenBounds ==
  ASSUME NEW at \in Int, NEW from \in Int, NEW bought \in Nat, NEW sold \in Nat,
         NEW most \in Nat, NEW least \in Nat, bought <= most, sold <= least,
         at <= from + bought, at >= from - sold
  PROVE  Abs(at) <= LargerOf(Abs(from + most), Abs(from - least))
  BY DEF Abs, LargerOf

\* However the legs of an approved proposal fill, fail or are given up, and whatever the cache
\* answered: a position that nothing else has moved stays within its worst case.
THEOREM ExposureIsBounded == HSpec => []ExposureWithinWorstCase
  <1>1. HInit => FillsInv
    BY DEF HInit, Init, FillsInv
  <1>2. HistoryInv /\ FillsInv => ExposureWithinWorstCase
    <2> SUFFICES ASSUME HistoryInv, FillsInv, pc = "placing", NEW s \in Symbols \ since.cycle
                 PROVE  Abs(pos[s]) <= WorstCase(prop, s)
      BY DEF ExposureWithinWorstCase
    <2>1. prop \in Proposals /\ pos[s] \in Int /\ view[s] \in Int
      BY DEF HistoryInv, IInv, PlanKept, Working, TypeOK, BooksOK, Books
    <2>2. pos[s] <= view[s] + Taken(s, "BUY") /\ pos[s] >= view[s] - Taken(s, "SELL")
      BY DEF FillsInv
    <2>3. \A side \in {"BUY", "SELL"} :
            /\ Taken(s, side) \in Nat /\ Amount(prop, s, side) \in Nat
            /\ Taken(s, side) <= Amount(prop, s, side)
      BY <2>1, TakenOfAmount
    <2>4. QED
      BY <2>1, <2>2, <2>3, BetweenBounds DEF WorstCase
  <1>3. QED
    BY <1>1, <1>2, HistoryAlways, FillsStep, PTL DEF HSpec
===============================================================================
