----------------------------- MODULE TradingDesk ------------------------------
(***************************************************************************)
(* What the runtime promises about the agent's proposals, without its      *)
(* awaits, its persistence and its exchange calls: a proposal is pending,  *)
(* then approved or dropped, and it moves the book only while it is        *)
(* approved, each leg once and in the leg's own direction.  Approval is    *)
(* given to one proposal at a time, never under HALT, and only when the    *)
(* book last observed with every leg of the proposal filled is within the  *)
(* exposure limit.  Besides, an operator's flatten trades against the      *)
(* positions of one answer of the exchange, each once and by its size at   *)
(* most, and a protective order on the exchange closes a position.  What   *)
(* the runtime observes is always an answer the exchange has given, to     *)
(* itself or to a flatten, and that is still under way or kept.            *)
(***************************************************************************)
EXTENDS RiskEngine

CONSTANTS Proposals, MaxExposure

VARIABLES mode,       \* the desk's mode
          up,         \* the runtime runs
          fate,       \* what has become of each proposal
          open,       \* the legs of the approved proposal that may still trade
          seen,       \* the book as the runtime last observed it
          answers,    \* the answers of the exchange that are under way or kept
          book,       \* the positions on the exchange
          flattening, \* a flatten command is under way
          closing     \* the positions it has still to trade against

deskVars == <<mode, up, fate, open, seen, answers, book, flattening, closing>>

Fates == {"unsent", "pending", "approved", "over"}
Approved == {p \in Proposals : fate[p] = "approved"}

Init ==
    /\ mode = "INIT" /\ up = FALSE
    /\ fate = [p \in Proposals |-> "unsent"] /\ open = {}
    /\ seen = Flat /\ answers = {}
    /\ book \in [Symbols -> Int]
    /\ flattening = FALSE /\ closing = Flat

\* A proposal arrives; it may push out the one that was pending.
Submit ==
    \E p \in Proposals :
      /\ up /\ fate[p] = "unsent"
      /\ \E q \in Proposals :
           fate' = [fate EXCEPT ![q] = IF @ = "pending" THEN "over" ELSE @, ![p] = "pending"]
      /\ UNCHANGED <<open, book>>

\* Pending proposals are dropped, or the approved one is done with.
Finish ==
    /\ \E over \in SUBSET Proposals :
         /\ \A p \in over : fate[p] \in {"pending", "approved"}
         /\ fate' = [p \in Proposals |-> IF p \in over THEN "over" ELSE fate[p]]
         /\ open' = IF Approved \subseteq over THEN {} ELSE open
    /\ UNCHANGED book

Approve ==
    \E p \in Proposals :
      /\ fate[p] = "pending" /\ Approved = {}
      /\ mode # "HALT"
      /\ projectedGrossNotional(seen, p) <= MaxExposure
      /\ mode = "SAFE_MODE" => projectedGrossNotional(seen, p) <= currentGrossNotional(seen)
      /\ fate' = [fate EXCEPT ![p] = "approved"]
      /\ open' = LegsOf(p)
      /\ UNCHANGED book

\* Legs of the approved proposal are given up.
Forgo == open' \subseteq open /\ UNCHANGED <<fate, book>>

Between(x, low, high) == low <= x /\ x <= high

TradeLeg ==
    \E x \in open :
      LET s == x[2].symbol
      IN  /\ open' = open \ {x}
          /\ \A t \in Symbols \ {s} : book'[t] = book[t]
          /\ IF x[2].side = "BUY"
             THEN Between(book'[s], book[s], book[s] + x[2].usd)
             ELSE Between(book'[s], book[s] - x[2].usd, book[s])
          /\ UNCHANGED fate

\* A protective order closes a position.
Trigger ==
    /\ \E s \in Symbols : book'[s] = 0 /\ \A t \in Symbols \ {s} : book'[t] = book[t]
    /\ UNCHANGED <<fate, open>>

\* A flatten trades against one of the positions it has still to close.
Close ==
    \E s \in Symbols :
      /\ \A t \in Symbols \ {s} : book'[t] = book[t]
      /\ IF closing[s] > 0
         THEN Between(book'[s], book[s] - closing[s], book[s])
         ELSE Between(book'[s], book[s], book[s] - closing[s])
      /\ closing' = [closing EXCEPT ![s] = 0]
      /\ UNCHANGED <<flattening, fate, open>>

\* A flatten begins with an answer of the exchange, and ends.
Operate ==
    \/ UNCHANGED <<flattening, closing>>
    \/ ~flattening /\ flattening' /\ closing' \in answers'
    \/ ~flattening' /\ closing' = Flat

\* The exchange answers with its book; what is observed was answered; a runtime that stops
\* forgets.
Observe ==
    /\ answers' \subseteq answers \cup {book}
    /\ \/ seen' \in answers \cup {seen}
       \/ ~up' /\ seen' = Flat

\* The mode changes along the state machine while the runtime is up, and anyhow
\* when it stops or starts.
ModeStep ==
    \/ mode' = mode
    \/ ~up \/ ~up'
    \/ <<mode, mode'>> \in
         {"READY"} \X {"IN_TRADE", "HALT", "SAFE_MODE"} \cup
         {"IN_TRADE"} \X {"READY", "HALT", "SAFE_MODE"} \cup
         {"SAFE_MODE"} \X {"READY", "IN_TRADE", "HALT"} \cup
         {"WARMUP"} \X {"READY", "HALT", "SAFE_MODE"} \cup {<<"HALT", "READY">>}

Proceed == Submit \/ Finish \/ Approve \/ Forgo \/ TradeLeg \/ Trigger

Next == ((Proceed /\ Operate) \/ Close) /\ Observe /\ ModeStep

Desk == Init /\ [][Next]_deskVars
===============================================================================
