---------------------------- MODULE DeskProperties ----------------------------
(***************************************************************************)
(* What is claimed of the trading loop in Orchestrator: invariants, action *)
(* properties, liveness under FairSpec, and the refinement of TradingDesk. *)
(* The section "Claims of the documentation" holds what the repository     *)
(* says and the code does not do.                                          *)
(***************************************************************************)
EXTENDS Orchestrator

ModeOrNone == TradeStates \cup {"none"}
Plans == Proposals \cup {NoProposal}
Books == [Symbols -> Int]

ModesOK ==
    /\ mode \in TradeStates /\ stored \in ModeOrNone
    /\ pend \in [Activities -> ModeOrNone \cup {"obsolete"}]
    /\ newest \in Activities /\ lost \in BOOLEAN
InboxOK == slot \in Plans /\ sent \subseteq Proposals
PlanOK ==
    /\ pc \in BootPcs \cup CyclePcs \cup {"idle"}
    /\ prop \in Plans /\ healthy \in BOOLEAN /\ dec \in Decisions \cup {"none"}
    /\ prev \in ModeOrNone /\ act \in Nat
    /\ todo \subseteq Legs /\ unguarded \subseteq Legs
    /\ errs \in 0 .. ErrorThreshold
CommandOK ==
    /\ cpc \in {"idle", "cancel", "close", "assign", "settle"}
    /\ csnap \in [pos : Books, trig : [Symbols -> SUBSET Both]] /\ cleft \subseteq Symbols
BooksOK ==
    /\ snap \in Books /\ view \in Books /\ pos \in Books /\ trig \in [Symbols -> SUBSET Both]
    /\ funded \in BOOLEAN /\ held \in BOOLEAN /\ copy \in [pos : Books, trig : [Symbols -> SUBSET Both]]
UsedOK == used \in [faults : Nat, crashes : Nat, commands : Nat, fires : Nat]

\* Every variable keeps its kind: the state record of createRuntime, the suspended writes,
\* the plan of the cycle, the command under way and the book on the exchange.
TypeOK == ModesOK /\ InboxOK /\ PlanOK /\ CommandOK /\ BooksOK /\ UsedOK

-------------------------------------------------------------------------------
(* Safety.                                                                 *)

\* The mode a restart would resume is the mode the desk is in, once no write is under way
\* and the newest one did not fail: setMode's writes race (cycle against command) and the
\* table must end up with the last one (saveSystemState and getSystemState).
DurableMode ==
    (Up /\ ~lost /\ \A a \in Activities : pend[a] = "none") => stored = mode

\* The inductive form of DurableMode: the newest write carries the mode, and once it has
\* landed every other write under way is one that getSystemState will not see.
ModeWillBeDurable ==
    (pc # "down" /\ ~lost) =>
        IF pend[newest] # "none"
        THEN pend[newest] = mode
        ELSE /\ stored = mode
             /\ \A a \in Activities : pend[a] \in {"none", "obsolete"}

\* While HALT lasts no further leg of a proposal becomes eligible: execute() reads the
\* mode again before each action's legs.
NoNewLegsWhileHalted == [][mode = "HALT" /\ mode' = "HALT" => todo' \subseteq todo]_vars

-------------------------------------------------------------------------------
(* Refinement.                                                             *)

\* A proposal's place in the life that TradingDesk describes.
Fate(p) ==
    IF p \notin sent THEN "unsent"
    ELSE IF p = slot \/ (p = prop /\ (pc = "selected" \/ dec = "DENY")) THEN "pending"
    ELSE IF p = prop THEN "approved" ELSE "over"

OpenLegs ==
    IF pc = "decided" /\ dec # "DENY" THEN LegsOf(prop)
    ELSE IF pc = "placing"
    THEN {x \in LegsOf(prop) : x[1] > act \/ (x[1] = act /\ x[2] \in todo)}
    ELSE {}

\* The answers of the exchange that somebody still holds: the client's cache, a cycle on its
\* way to assign state.positions, a /flatten.
Answers ==
    (IF held THEN {copy.pos} ELSE {})
      \cup (IF pc \in {"observed", "filled"} THEN {snap} ELSE {})
      \cup (IF cpc \in {"cancel", "close", "assign"} THEN {csnap.pos} ELSE {})

\* What /flatten has still to trade against.
Closing ==
    [s \in Symbols |->
       IF cpc = "cancel" \/ (cpc = "close" /\ s \in cleft) THEN csnap.pos[s] ELSE 0]

AbstractDesk == INSTANCE TradingDesk WITH
    MaxExposure <- RiskConfig.maxExposure, up <- Up, fate <- [p \in Proposals |-> Fate(p)],
    open <- OpenLegs, seen <- view, answers <- Answers, book <- pos,
    flattening <- cpc # "idle", closing <- Closing

\* The trading loop implements TradingDesk: a proposal reaches the exchange only between
\* its approval and its end, once, leg by leg, whatever crashes, throws or is commanded; a
\* /flatten trades each position of its snapshot once; and state.positions is only ever set
\* to what the exchange answered, however old (the cycle and the command both assign it).
ImplementsDesk == AbstractDesk!Desk

-------------------------------------------------------------------------------
(* Liveness, under FairSpec.                                               *)

\* A cycle ends: whatever throws, runCycle gives loopRunning back.
CycleEnds == pc \in CyclePcs ~> pc \in {"idle", "down"}

\* A position without SL or TP does not stay unnoticed: it is protected or closed, or the
\* desk is in SAFE_MODE (the protection audit of every cycle).  Under HALT the code audits
\* nothing, and nothing is claimed.
NakedIsNoticed ==
    \A s \in Symbols : s \in Naked(pos) ~> (s \notin Naked(pos) \/ mode \in {"SAFE_MODE", "HALT"})

\* SAFE_MODE is not a trap: with dependencies healthy again and SL/TP accepted again the
\* desk leaves it.
SafeModeEnds == mode = "SAFE_MODE" ~> mode # "SAFE_MODE"

\* A desk that went flat behind the runtime's back (a trigger fired, an operator closed)
\* does not stay in IN_TRADE, unless the account value is below the minimum at some time:
\* then the funding gate ends the cycles of a flat desk before the mode is looked at
\* (runCycle), and the desk stays in IN_TRADE for as long as that lasts.
FlatLeavesTrade ==
    (mode = "IN_TRADE" /\ ~Exposed(pos)) ~> (mode # "IN_TRADE" \/ Exposed(pos) \/ ~funded)

\* The mode of a running desk gets into the database, or its newest write failed.
ModeGetsDurable == (Up /\ stored # mode) ~> (stored = mode \/ lost)

-------------------------------------------------------------------------------
(* Claims of the documentation.                                            *)

\* "HALT: reject all new orders; allow cancel/flatten only" (docs/SPEC.md): no leg of a
\* proposal reaches the exchange while the mode is HALT.
NoOrderWhileHalted == [][(\E leg \in todo : PlaceLeg(leg)) => mode # "HALT"]_vars

\* "HALT: operator kill-switch" (README.md), "human/system forced stop" (docs/SPEC.md):
\* a running desk leaves HALT only on an operator's command.
HaltLasts == [][mode = "HALT" /\ mode' # "HALT" /\ Up' => Resume]_vars

\* "Before auto-resolving, verify every meaningful position has exchange-side SL/TP"
\* (state.ts): the desk does not go from SAFE_MODE to IN_TRADE with a naked position.
SafeModeLeftProtected ==
    [][mode = "SAFE_MODE" /\ mode' = "IN_TRADE" => Naked(pos) = {}]_vars

\* "Fire-and-forget trades. SL/TP placed on Hyperliquid at entry" (README.md): execute() is
\* not done with an entry while a leg it filled lacks SL or TP, except into SAFE_MODE.
EntryIsGuarded ==
    [][EndProtection =>
         mode = "SAFE_MODE" \/ \A leg \in LegsWithTpsl : leg.symbol \notin Naked(pos)]_vars
===============================================================================
