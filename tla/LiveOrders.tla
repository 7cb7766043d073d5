----------------------------- MODULE LiveOrders -----------------------------
(***************************************************************************)
(* The order calls of the live adapter (createLiveAdapter of               *)
(* apps/runtime/src/services/oms.ts): place() with its look-up by client   *)
(* order id, the repeated look-up of withRetry, and the automatic cancel   *)
(* of stale orders in reconcile().  Requests and answers may be lost, a    *)
(* request may land after its call has given up, the process may crash,    *)
(* and a caller may ask for the same key again (a redelivered proposal).   *)
(***************************************************************************)
EXTENDS Integers, FiniteSets

CONSTANTS OrderKeys,   \* idempotency keys; each is one client order id
          MaxRetries,  \* withRetry: attempts after the first
          MaxCalls,    \* bound: calls of place() per key
          MaxLiveFaults    \* bound: lost requests and answers, crashes

VARIABLES
  exch,       \* per order: its state at the exchange: none, open, old (open
              \* for more than five minutes), filled, canceled
  flying,     \* orders whose request is on its way
  late,       \* orders whose request landed after its call ended (history)
  call,       \* per key: where place() is
  tries,    \* per key: retries made of the present look-up
  told,       \* per key: what the last call returned
  calls,      \* per key: calls made
  staleSet,   \* staleCancelledSet
  cancelling, \* per order: where its automatic cancel is
  cancelFailed, \* orders whose automatic cancel failed in this life (history)
  liveFaults  \* faults so far

exchVars == <<exch, flying, late>>
callVars == <<call, tries, told, calls>>
staleVars == <<staleSet, cancelling, cancelFailed>>
liveVars == <<exchVars, callVars, staleVars, liveFaults>>

\* An order of key k is named by the call that sent it; two orders may carry one
\* client order id.
Oids == OrderKeys \X (1..MaxCalls)
OrdersOf(k) == {o \in Oids : o[1] = k /\ exch[o] # "none"}
ThisOrder(k) == <<k, calls[k]>>
Resting == {"open", "old"}

Init ==
  /\ exch = [o \in Oids |-> "none"] /\ flying = {} /\ late = {}
  /\ call = [k \in OrderKeys |-> "idle"]
  /\ tries = [k \in OrderKeys |-> 0]
  /\ told = [k \in OrderKeys |-> "nothing"]
  /\ calls = [k \in OrderKeys |-> 0]
  /\ staleSet = {} /\ cancelling = [o \in Oids |-> "idle"]
  /\ cancelFailed = {} /\ liveFaults = 0

Fault == liveFaults < MaxLiveFaults /\ liveFaults' = liveFaults + 1

Return(k, what) ==
  /\ call' = [call EXCEPT ![k] = "idle"]
  /\ told' = [told EXCEPT ![k] = what]
  /\ tries' = [tries EXCEPT ![k] = 0]

\* mapHlOrderStatus
mapOrderStatus(state) ==
  CASE state = "filled" -> "FILLED"
    [] state = "canceled" -> "CANCELLED"
    [] OTHER -> "WORKING"

(***************************************************************************)
(* place()                                                                 *)
(***************************************************************************)
\* Mutant: the order is sent without asking whether the exchange has it.
PlaceUnasked(k) ==
  /\ call[k] = "idle" /\ calls[k] < MaxCalls
  /\ calls' = [calls EXCEPT ![k] = @ + 1]
  /\ call' = [call EXCEPT ![k] = "sent"]
  /\ flying' = flying \cup {<<k, calls[k] + 1>>}
  /\ UNCHANGED <<exch, late, tries, told, staleVars, liveFaults>>
Place(k) ==
  /\ call[k] = "idle" /\ calls[k] < MaxCalls
  /\ calls' = [calls EXCEPT ![k] = @ + 1]
  /\ call' = [call EXCEPT ![k] = "lookup"]
  /\ UNCHANGED <<exchVars, tries, told, staleVars, liveFaults>>

\* The look-up answers: an order the exchange has is reported as it is, whatever
\* its state; otherwise the order is sent, or, after it was sent, unresolved.
Lookup(k) ==
  /\ call[k] \in {"lookup", "resolve"}
  /\ IF OrdersOf(k) # {}
     THEN /\ \E o \in OrdersOf(k) : Return(k, mapOrderStatus(exch[o]))
          /\ UNCHANGED flying
     ELSE IF call[k] = "resolve"
     THEN Return(k, "error") /\ UNCHANGED flying
     ELSE /\ call' = [call EXCEPT ![k] = "sent"]
          /\ flying' = flying \cup {ThisOrder(k)}
          /\ tries' = [tries EXCEPT ![k] = 0]
          /\ UNCHANGED told
  /\ UNCHANGED <<exch, late, calls, staleVars, liveFaults>>

\* A look-up is lost: withRetry asks again after its backoff, at most MaxRetries
\* times.
LookupLost(k) ==
  /\ call[k] \in {"lookup", "resolve"} /\ Fault
  /\ IF tries[k] < MaxRetries
     THEN /\ tries' = [tries EXCEPT ![k] = @ + 1]
          /\ UNCHANGED <<call, told>>
     ELSE Return(k, "error")
  /\ UNCHANGED <<exchVars, calls, staleVars>>

\* The exchange takes the request: it trades, it rests although it should not,
\* the rest of it is cancelled, or it is refused and leaves no order.
Land(o) ==
  LET k == o[1]
      awaited == call[k] = "sent" /\ o = ThisOrder(k)
  IN  /\ o \in flying /\ flying' = flying \ {o}
      /\ \E outcome \in {"filled", "open", "canceled", "refused"} :
           /\ exch' = [exch EXCEPT ![o] = IF outcome = "refused" THEN @ ELSE outcome]
           /\ call' = [call EXCEPT ![k] = IF awaited THEN outcome ELSE @]
      /\ late' = IF awaited THEN late ELSE late \cup {o}
      /\ UNCHANGED <<tries, told, calls, staleVars, liveFaults>>

\* The answer of the exchange arrives.
Answer(k) ==
  /\ \/ call[k] = "filled" /\ Return(k, "FILLED")
     \/ call[k] \in {"refused", "canceled"} /\ Return(k, "error")
     \/ /\ call[k] = "open"
        /\ call' = [call EXCEPT ![k] = "cancelResting"]
        /\ UNCHANGED <<told, tries>>
  /\ UNCHANGED <<exchVars, calls, staleVars, liveFaults>>

\* It arrives as a status the client does not know: the order is looked up.
AnswerUnclear(k) ==
  /\ call[k] \in {"filled", "open", "canceled", "refused"}
  /\ Fault
  /\ call' = [call EXCEPT ![k] = "resolve"]
  /\ UNCHANGED <<exchVars, tries, told, calls, staleVars>>

\* The request or its answer times out: place() throws, the request may still be
\* on its way.
AnswerLost(k) ==
  /\ call[k] \notin {"idle", "lookup", "resolve", "cancelResting"} /\ Fault
  /\ Return(k, "error")
  /\ UNCHANGED <<exchVars, calls, staleVars>>

\* A resting order is cancelled and called cancelled, whether or not that worked.
CancelResting(k) ==
  /\ call[k] = "cancelResting"
  /\ \/ /\ exch' = [exch EXCEPT ![ThisOrder(k)] =
                                  IF @ \in Resting THEN "canceled" ELSE @]
        /\ UNCHANGED liveFaults
     \/ Fault /\ UNCHANGED exch
  /\ Return(k, "CANCELLED")
  /\ UNCHANGED <<flying, late, calls, staleVars>>

(***************************************************************************)
(* reconcile(): every open order older than five minutes gets one          *)
(* automatic cancel, which nobody waits for.                               *)
(***************************************************************************)
stale == {o \in Oids : exch[o] = "old" /\ o \notin staleSet}

Reconcile ==
  /\ stale # {}
  /\ staleSet' = staleSet \cup stale
  /\ cancelling' = [o \in Oids |->
                      IF o \in stale THEN "lookup" ELSE cancelling[o]]
  /\ UNCHANGED <<exchVars, callVars, cancelFailed, liveFaults>>

\* Mutant: an order that is open counts as one that is over.
isOverOrOpen(state) == state \in {"none", "filled", "canceled", "open", "old"}
\* cancel(): nothing to do for an order that is unknown, filled or cancelled.
isOver(state) == state \in {"none", "filled", "canceled"}

CancelLookup(o) ==
  /\ cancelling[o] = "lookup"
  /\ cancelling' = [cancelling EXCEPT
                      ![o] = IF isOver(exch[o]) THEN "idle" ELSE "send"]
  /\ UNCHANGED <<exchVars, callVars, staleSet, cancelFailed, liveFaults>>

CancelSend(o) ==
  /\ cancelling[o] = "send"
  /\ cancelling' = [cancelling EXCEPT ![o] = "idle"]
  /\ exch' = [exch EXCEPT ![o] = IF @ \in Resting THEN "canceled" ELSE @]
  /\ UNCHANGED <<flying, late, callVars, staleSet, cancelFailed,
                 liveFaults>>

CancelLost(o) ==
  /\ cancelling[o] \in {"lookup", "send"} /\ Fault
  /\ cancelling' = [cancelling EXCEPT ![o] = "idle"]
  /\ cancelFailed' = cancelFailed \cup {o}
  /\ UNCHANGED <<exchVars, callVars, staleSet>>

(***************************************************************************)
(* The exchange, time and the process                                      *)
(***************************************************************************)
RestingOrderTrades(o) ==
  /\ exch[o] \in Resting
  /\ exch' = [exch EXCEPT ![o] = "filled"]
  /\ UNCHANGED <<flying, late, callVars, staleVars, liveFaults>>

OrderAges(o) ==
  /\ exch[o] = "open"
  /\ exch' = [exch EXCEPT ![o] = "old"]
  /\ UNCHANGED <<flying, late, callVars, staleVars, liveFaults>>

\* Everything the adapter remembers is in memory.
Crash ==
  /\ Fault
  /\ call' = [k \in OrderKeys |-> "idle"]
  /\ tries' = [k \in OrderKeys |-> 0]
  /\ told' = [k \in OrderKeys |-> "nothing"]
  /\ staleSet' = {} /\ cancelFailed' = {}
  /\ cancelling' = [o \in Oids |-> "idle"]
  /\ UNCHANGED <<exchVars, calls>>

Next ==
  \/ Reconcile \/ Crash
  \/ \E k \in OrderKeys :
       \/ Place(k) \/ Lookup(k) \/ LookupLost(k) \/ Answer(k)
       \/ AnswerUnclear(k) \/ AnswerLost(k) \/ CancelResting(k)
  \/ \E o \in Oids :
       \/ Land(o) \/ CancelLookup(o) \/ CancelSend(o) \/ CancelLost(o)
       \/ RestingOrderTrades(o) \/ OrderAges(o)

Cancelling(o) == CancelLookup(o) \/ CancelSend(o)

\* The runtime reconciles on a timer, and a cancel that was started goes on.
Fairness ==
  /\ WF_liveVars(Reconcile)
  /\ \A o \in Oids : WF_liveVars(Cancelling(o))

Spec == Init /\ [][Next]_liveVars /\ Fairness

(***************************************************************************)
(* Properties                                                              *)
(***************************************************************************)

\* Asking again for the same key, after a lost answer or a restart, does not
\* trade again; only a request that lands after its call gave up can.  And a call
\* that reports a fill reports one the exchange made.
TradesOncePerKey ==
  \A k \in OrderKeys :
    LET filled == {o \in OrdersOf(k) : exch[o] = "filled"}
    IN  /\ Cardinality(filled \ late) <= 1
        /\ told[k] = "FILLED" => filled # {}

\* A stale order does not rest for ever, unless its one automatic cancel failed.
StaleOrderLeaves ==
  \A o \in Oids : []<>(exch[o] = "old" => o \in cancelFailed)
=============================================================================
