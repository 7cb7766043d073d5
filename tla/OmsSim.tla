------------------------------- MODULE OmsSim -------------------------------
(***************************************************************************)
(* The simulated order adapter (createSimAdapter of                        *)
(* apps/runtime/src/services/oms.ts), for one symbol: orders, the          *)
(* idempotency map and its pruning, the latency between the acceptance of  *)
(* an order and its fill, and the book of positions and realized profit.   *)
(* Prices and profits are fractions <<numerator, denominator>>.            *)
(***************************************************************************)
EXTENDS Integers

CONSTANTS OrderKeys,   \* idempotency keys callers use
          Quantities,  \* quantities of an order
          Prices,      \* prices of a fill
          MaxPlaced    \* bound: orders accepted

VARIABLES
  orders,     \* per key: the record of its order
  remembered, \* keys in idempotencyMap
  inLatency,  \* keys whose place() waits for the simulated latency
  position,   \* [qty, avg]: signed quantity and average entry price
  realized,   \* realizedPnlUsd
  cash,       \* money received less money paid for booked fills (history)
  bookedOf,   \* per key: fills of its present order that were booked (history)
  withdrawn,  \* keys whose present order was cancelled in its latency (history)
  placed      \* orders accepted so far

omsVars == <<orders, remembered, inLatency, position, realized, cash, bookedOf,
             withdrawn, placed>>

OrderStates == {"NEW", "WORKING", "PARTIALLY_FILLED", "FILLED", "CANCELLED",
                "FAILED"}
NoOrder == [status |-> "NEW", side |-> 1, target |-> 0, notional |-> 0,
            filled |-> 0, px |-> 0]

Abs(x) == IF x < 0 THEN -x ELSE x
Sign(x) == IF x < 0 THEN -1 ELSE IF x > 0 THEN 1 ELSE 0
Least(a, b) == IF a < b THEN a ELSE b
EqualFractions(a, b) == a[1] * b[2] = b[1] * a[2]

Init ==
  /\ orders = [k \in OrderKeys |-> NoOrder]
  /\ remembered = {} /\ inLatency = {}
  /\ position = [qty |-> 0, avg |-> <<0, 1>>]
  /\ realized = <<0, 1>> /\ cash = 0
  /\ bookedOf = [k \in OrderKeys |-> 0] /\ withdrawn = {} /\ placed = 0

\* assertTransition
orderTransitions ==
  {<<"NEW", "WORKING">>, <<"NEW", "FAILED">>,
   <<"WORKING", "PARTIALLY_FILLED">>, <<"WORKING", "FILLED">>,
   <<"WORKING", "CANCELLED">>,
   <<"PARTIALLY_FILLED", "WORKING">>, <<"PARTIALLY_FILLED", "FILLED">>,
   <<"PARTIALLY_FILLED", "CANCELLED">>,
   <<"FAILED", "NEW">>}

\* Mutant: the status is simply set.
mayBecomeAnything(from, to) == TRUE
mayBecome(from, to) == <<from, to>> \in orderTransitions

(***************************************************************************)
(* place().  Every hundredth call first forgets the keys older than five   *)
(* minutes, never one still in its latency of a tenth of a second.  A key  *)
(* still remembered gets its order back and changes nothing.               *)
(***************************************************************************)
Prune ==
  /\ \E old \in SUBSET (remembered \ inLatency) : remembered' = remembered \ old
  /\ UNCHANGED <<orders, inLatency, position, realized, cash, bookedOf, withdrawn, placed>>

Place(k, side, qty, px) ==
  /\ placed < MaxPlaced /\ placed' = placed + 1
  /\ k \notin remembered
  /\ orders' = [orders EXCEPT ![k] =
                  [status |-> "WORKING", side |-> side, target |-> qty,
                   notional |-> qty * px, filled |-> 0, px |-> px]]
  /\ remembered' = remembered \cup {k}
  /\ inLatency' = inLatency \cup {k}
  /\ bookedOf' = [bookedOf EXCEPT ![k] = 0] /\ withdrawn' = withdrawn \ {k}
  /\ UNCHANGED <<position, realized, cash>>

(***************************************************************************)
(* upsertPosition()                                                        *)
(***************************************************************************)
Opposite(fill) == position.qty # 0 /\ Sign(position.qty) # Sign(fill)

realizedAfter(fill, px) ==
  LET closing == Least(Abs(position.qty), Abs(fill))
      avg == position.avg
  IN  IF Opposite(fill)
      THEN <<realized[1] * avg[2]
               + (px * avg[2] - avg[1]) * closing * Sign(position.qty)
                   * realized[2],
             realized[2] * avg[2]>>
      ELSE realized

\* Mutant: the entry price of the position that was flipped is kept.
avgAfterFlipKept(fill, px) ==
  LET next == position.qty + fill IN
  IF position.qty = 0 THEN <<px, 1>>
  ELSE IF ~Opposite(fill)
  THEN <<Abs(position.qty) * position.avg[1] + Abs(fill) * px * position.avg[2],
         position.avg[2] * Abs(next)>>
  ELSE position.avg
\* A new or flipped position is entered at the fill's price, one that grows at
\* the weighted average, one that shrinks keeps its entry price.
avgAfter(fill, px) ==
  LET next == position.qty + fill IN
  IF position.qty = 0 \/ Sign(next) # Sign(position.qty) THEN <<px, 1>>
  ELSE IF ~Opposite(fill)
  THEN <<Abs(position.qty) * position.avg[1] + Abs(fill) * px * position.avg[2],
         position.avg[2] * Abs(next)>>
  ELSE position.avg

upsertPosition(fill, px) ==
  /\ realized' = realizedAfter(fill, px)
  /\ position' = IF position.qty + fill = 0
                 THEN [qty |-> 0, avg |-> <<0, 1>>]
                 ELSE [qty |-> position.qty + fill, avg |-> avgAfter(fill, px)]
  /\ cash' = cash - fill * px

\* The latency is over: a whole or a partial fill, unless the order was cancelled
\* meanwhile; then place() throws, with the quantity already on the record.
Fill(k, qty) ==
  LET o == orders[k]
      status == IF qty = o.target THEN "FILLED" ELSE "PARTIALLY_FILLED"
      ok == mayBecome(o.status, status)
  IN  /\ k \in inLatency /\ qty <= o.target
      /\ inLatency' = inLatency \ {k}
      /\ orders' = [orders EXCEPT ![k].filled = qty,
                                  ![k].status = IF ok THEN status ELSE @]
      /\ IF ok THEN /\ upsertPosition(o.side * qty, o.px)
                    /\ bookedOf' = [bookedOf EXCEPT ![k] = @ + 1]
               ELSE UNCHANGED <<position, realized, cash, bookedOf>>
      /\ UNCHANGED <<remembered, withdrawn, placed>>

\* cancel(): an order that is unknown or at its end is left alone.
Cancel(k) ==
  /\ orders[k].target > 0
  /\ orders[k].status \notin {"FILLED", "CANCELLED", "FAILED"}
  /\ orders' = [orders EXCEPT ![k].status = "CANCELLED"]
  /\ withdrawn' = IF k \in inLatency THEN withdrawn \cup {k} ELSE withdrawn
  /\ UNCHANGED <<remembered, inLatency, position, realized, cash, bookedOf, placed>>

\* modify() changes the notional of a working order; the quantity its latency
\* will fill is not recomputed.
Modify(k, notional) ==
  /\ orders[k].target > 0 /\ orders[k].status = "WORKING"
  /\ orders' = [orders EXCEPT ![k].notional = notional]
  /\ UNCHANGED <<remembered, inLatency, position, realized, cash, bookedOf,
                 withdrawn, placed>>

Next ==
  \/ Prune
  \/ \E k \in OrderKeys :
       \/ \E side \in {1, -1}, qty \in Quantities, px \in Prices :
            Place(k, side, qty, px)
       \/ \E qty \in Quantities : Fill(k, qty)
       \/ Cancel(k)
       \/ \E notional \in Prices : Modify(k, notional)

Spec == Init /\ [][Next]_omsVars

(***************************************************************************)
(* Properties                                                              *)
(***************************************************************************)

\* The books balance: what was realized, plus what the open position cost, is
\* what was paid and received, through adds, reductions and flips.
BooksBalance ==
  EqualFractions(realized,
                 <<cash * position.avg[2] + position.qty * position.avg[1],
                   position.avg[2]>>)

\* An order trades at most once, and one that was cancelled while it waited for
\* its latency never does, however late the fill comes (oms.ts:163-179): the
\* adapter goes on calling it cancelled, and the position holds none of it.
CancelledBeforeFillNeverTrades ==
  \A k \in OrderKeys :
    /\ bookedOf[k] <= 1
    /\ k \in withdrawn => bookedOf[k] = 0 /\ orders[k].status = "CANCELLED"
    /\ orders[k].status = "FILLED" => bookedOf[k] = 1
=============================================================================
