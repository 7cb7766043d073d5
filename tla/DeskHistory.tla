----------------------------- MODULE DeskHistory ------------------------------
(***************************************************************************)
(* What the trading loop may rely on although it decides on old answers.   *)
(* The loop of Orchestrator is extended with a history variable: the       *)
(* symbols on which the book of the exchange has changed, by somebody      *)
(* else's doing, since the exchange gave the answer that a decision rests  *)
(* on.  The answer may have been kept by the client's cache before the     *)
(* cycle read it, and a /flatten may have put its own answer in place of   *)
(* the cycle's.  On every other symbol the decision must be right.         *)
(* The history is read by no action: every behaviour of Orchestrator is    *)
(* one of this module.                                                     *)
(***************************************************************************)
EXTENDS DeskProperties

VARIABLE since  \* the symbols that have moved since the exchange gave the answer ...
                \*   .kept    that the client's cache holds
                \*   .cycle   behind state.positions, for the cycle that runs
                \*   .command that the /flatten under way works with

hvars == <<vars, since>>

Still == [kept |-> {}, cycle |-> {}, command |-> {}]

\* The symbols that trade or lose an SL or TP order in this step.
Moved == {s \in Symbols : pos'[s] # pos[s] \/ ~(trig[s] \subseteq trig'[s])}

\* The step is the cycle's own: place() of one leg.
OwnLeg == \E leg \in Legs : PlaceLeg(leg)

KeptSince == IF held' THEN since.kept \cup Moved ELSE {}

\* Sync takes the answer over from the cache, if it is there; a /flatten that assigns
\* state.positions under the cycle brings the past of its own answer with it.
CycleSince ==
    IF pc' \notin CyclePcs THEN {}
    ELSE IF pc = "idle" THEN since.kept
    ELSE since.cycle \cup (IF OwnLeg THEN {} ELSE Moved)
           \cup (IF cpc = "assign" /\ cpc' = "settle" THEN since.command ELSE {})

CommandSince ==
    IF cpc' = "idle" THEN {}
    ELSE IF cpc = "idle" \/ (cpc = "close" /\ cpc' = "assign") THEN since.kept
    ELSE since.command \cup Moved

HInit == Init /\ since = Still
HNext == Next /\ since' = [kept |-> KeptSince, cycle |-> CycleSince, command |-> CommandSince]
HSpec == HInit /\ [][HNext]_hvars

-------------------------------------------------------------------------------
\* An automatic recovery from SAFE_MODE leaves no position on the exchange without both SL and
\* TP, though it decides on state.positions and on a trigger query made earlier (the check
\* "verify every meaningful position" of runCycle, and the re-check after the emergency
\* placement): but for the symbols that traded, or lost an order, after the exchange gave the
\* answer state.positions comes from.
RecoveryIsProtected ==
    [][SafeModeFlat \/ RecoverVerified => Naked(pos) \subseteq since.cycle]_hvars

\* The amount of a proposal's legs on one side of a symbol.
Amount(p, s, side) ==
    LET legs == {x \in LegsOf(p) : x[2].symbol = s /\ x[2].side = side}
    IN  SumFunctionOnSet([x \in legs |-> x[2].usd], legs)

\* The largest exposure a symbol has when of a proposal's legs only those of one side fill.
LargerOf(x, y) == IF x < y THEN y ELSE x
WorstCase(p, s) ==
    LargerOf(Abs(view[s] + Amount(p, s, "BUY")), Abs(view[s] - Amount(p, s, "SELL")))

\* However the legs of an approved proposal fill, fail or are given up (execute() does not
\* undo), the exposure in a symbol stays within its worst case from the position that the
\* risk engine and the eligibility of the legs were decided on: no leg trades twice or beyond
\* its size.  Excepted are the symbols that a trigger or a /flatten moved since.
ExposureWithinWorstCase ==
    pc = "placing" => \A s \in Symbols \ since.cycle : Abs(pos[s]) <= WorstCase(prop, s)
===============================================================================
