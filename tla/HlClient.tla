------------------------------ MODULE HlClient ------------------------------
(***************************************************************************)
(* packages/hl-client: the token bucket every request to Hyperliquid goes  *)
(* through, the response cache with its shared in-flight fetch             *)
(* (ThrottledTransport), and postInfo, which caches but does not share.    *)
(* A caller is one request at a time of one of three kinds: "read" (an     *)
(* info request of the transport, cached), "post" (postInfo, cached),      *)
(* "order" (not cached).  Tokens are counted in refills.                   *)
(***************************************************************************)
EXTENDS Integers, Sequences, FiniteSets

CONSTANTS Callers,
          Capacity,  \* maxTokens, in refills
          Cost,      \* refills that make one token
          MaxWorld,  \* bound: versions of the state at the exchange
          MaxLost    \* bound: failures, aborts and the destruction

VARIABLES
  tokens,    \* tokens in the bucket, in refills
  ready,     \* startupReady
  destroyed,
  queue,     \* callers waiting for a token, oldest first
  request,   \* per caller: idle, limited, sent, backoff, shared
  kind,      \* per caller: kind of its request
  retried,   \* per caller: a 429 was answered to this request
  since,     \* per caller: version of the world when its request was sent
  inflight,  \* the caller whose fetch is shared, or none (the empty set)
  cached,    \* per cached kind: the version stored, 0 for none
  world,     \* version of the state at the exchange
  lost

bucketVars == <<tokens, ready, destroyed, queue>>
requestVars == <<request, kind, retried, since, inflight>>
hlVars == <<bucketVars, requestVars, cached, world, lost>>

Kinds == {"read", "post", "order"}
Range(s) == {s[i] : i \in 1..Len(s)}
Smaller(a, b) == IF a < b THEN a ELSE b
After(s, n) == SubSeq(s, n + 1, Len(s))
Sharing == {c \in Callers : request[c] = "shared"}

Init ==
  /\ tokens = Capacity /\ ready \in BOOLEAN /\ destroyed = FALSE /\ queue = <<>>
  /\ request = [c \in Callers |-> "idle"]
  /\ kind = [c \in Callers |-> "order"]
  /\ retried = [c \in Callers |-> FALSE] /\ since = [c \in Callers |-> 0]
  /\ inflight = {} /\ cached = [read |-> 0, post |-> 0] /\ world = 1 /\ lost = 0

Lose == lost < MaxLost /\ lost' = lost + 1

\* drain(): waiters are served in order while there are tokens.
Drain(t, isReady) ==
  LET n == IF isReady THEN Smaller(Len(queue), t \div Cost) ELSE 0
      served == Range(SubSeq(queue, 1, n))
  IN  /\ tokens' = t - n * Cost
      /\ queue' = After(queue, n)
      /\ request' = [c \in Callers |-> IF c \in served THEN "sent" ELSE request[c]]
      /\ since' = [c \in Callers |-> IF c \in served THEN world ELSE since[c]]

\* acquire(): a token at once if there is one, else the end of the queue.
Acquire(c) ==
  IF ready /\ tokens >= Cost
  THEN /\ tokens' = tokens - Cost /\ UNCHANGED queue
       /\ request' = [request EXCEPT ![c] = "sent"]
       /\ since' = [since EXCEPT ![c] = world]
  ELSE /\ queue' = Append(queue, c) /\ UNCHANGED <<tokens, since>>
       /\ request' = [request EXCEPT ![c] = "limited"]

\* setInterval(100 ms)
Refill ==
  /\ ~destroyed
  /\ Drain(Smaller(Capacity, tokens + 1), ready)
  /\ UNCHANGED <<ready, destroyed, kind, retried, inflight, cached, world, lost>>

StartupOver ==
  /\ ~ready /\ ready' = TRUE
  /\ Drain(tokens, TRUE)
  /\ UNCHANGED <<destroyed, kind, retried, inflight, cached, world, lost>>

TryAcquire ==
  /\ ready /\ tokens >= Cost
  /\ tokens' = tokens - Cost
  /\ UNCHANGED <<ready, destroyed, queue, requestVars, cached, world, lost>>

\* Mutant: a fetch in flight is not shared.
sharesNothing(c, k) == FALSE
\* getOrFetch(): who asks for what is being fetched waits for that answer.
shares(c, k) == k = "read" /\ inflight # {}

\* A value in the cache is answered at once and changes nothing here.
Ask(c, k) ==
  /\ request[c] = "idle" /\ ~destroyed
  /\ k \in {"read", "post"} => cached[k] = 0
  /\ kind' = [kind EXCEPT ![c] = k]
  /\ retried' = [retried EXCEPT ![c] = FALSE]
  /\ IF shares(c, k)
     THEN /\ request' = [request EXCEPT ![c] = "shared"]
          /\ UNCHANGED <<tokens, queue, since, inflight>>
     ELSE /\ Acquire(c)
          /\ inflight' = IF k = "read" THEN {c} ELSE inflight
  /\ UNCHANGED <<ready, destroyed, cached, world, lost>>

\* A request ends, and with a shared fetch all who share it.
Finish(c) ==
  LET all == IF kind[c] = "read" /\ c \in inflight THEN {c} \cup Sharing ELSE {c}
  IN  /\ request' = [d \in Callers |-> IF d \in all THEN "idle" ELSE request[d]]
      /\ inflight' = inflight \ {c}
      /\ UNCHANGED <<kind, retried, since>>

\* The answer shows the exchange at some moment since the request was sent.
Answer(c) ==
  /\ request[c] = "sent"
  /\ Finish(c)
  /\ IF kind[c] = "order" THEN UNCHANGED cached
     ELSE \E v \in since[c]..world : cached' = [cached EXCEPT ![kind[c]] = v]
  /\ UNCHANGED <<bucketVars, world, lost>>

Fail(c) ==
  /\ request[c] = "sent" /\ Lose /\ Finish(c)
  /\ UNCHANGED <<bucketVars, cached, world>>

\* postInfo: a first 429 is waited out, and the request takes a token again.
TooMany(c) ==
  /\ request[c] = "sent" /\ kind[c] = "post" /\ ~retried[c] /\ Lose
  /\ request' = [request EXCEPT ![c] = "backoff"]
  /\ retried' = [retried EXCEPT ![c] = TRUE]
  /\ UNCHANGED <<bucketVars, kind, since, inflight, cached, world>>

AskAgain(c) ==
  /\ request[c] = "backoff"
  /\ IF destroyed THEN Finish(c) /\ UNCHANGED <<tokens, queue>>
     ELSE Acquire(c) /\ UNCHANGED <<kind, retried, inflight>>
  /\ UNCHANGED <<ready, destroyed, cached, world, lost>>

\* The signal of the caller who leads a fetch ends it for all who share it.
Abort(c) ==
  /\ request[c] = "limited" /\ kind[c] # "post" /\ Lose
  /\ \E i \in 1..Len(queue) :
       queue[i] = c /\ queue' = SubSeq(queue, 1, i - 1) \o After(queue, i)
  /\ Finish(c)
  /\ UNCHANGED <<tokens, ready, destroyed, cached, world>>

\* Mutant: the queue is dropped without telling those who wait in it.
rejectedByDestroyNobody == {}
rejectedByDestroy == Range(queue)

Destroy ==
  /\ ~destroyed /\ Lose
  /\ destroyed' = TRUE /\ queue' = <<>>
  /\ LET failed == IF inflight \cap rejectedByDestroy # {}
                   THEN rejectedByDestroy \cup Sharing ELSE rejectedByDestroy
     IN  request' = [c \in Callers |-> IF c \in failed THEN "idle" ELSE request[c]]
  /\ inflight' = {c \in inflight : request[c] = "sent"}
  /\ cached' = [read |-> 0, post |-> 0]
  /\ UNCHANGED <<tokens, ready, kind, retried, since, world>>

CacheExpires ==
  /\ \E k \in {"read", "post"} : cached[k] # 0 /\ cached' = [cached EXCEPT ![k] = 0]
  /\ UNCHANGED <<bucketVars, requestVars, world, lost>>

WorldMoves ==
  /\ world < MaxWorld /\ world' = world + 1
  /\ UNCHANGED <<bucketVars, requestVars, cached, lost>>

Next ==
  \/ Refill \/ StartupOver \/ TryAcquire \/ Destroy \/ CacheExpires \/ WorldMoves
  \/ \E c \in Callers :
       \/ \E k \in Kinds : Ask(c, k)
       \/ Answer(c) \/ Fail(c) \/ TooMany(c) \/ AskAgain(c) \/ Abort(c)

\* The timers run; a request that was sent is answered or fails (its timeout).
Fairness ==
  /\ WF_hlVars(Refill) /\ WF_hlVars(StartupOver)
  /\ \A c \in Callers : WF_hlVars(Answer(c) \/ AskAgain(c))

Spec == Init /\ [][Next]_hlVars /\ Fairness

(***************************************************************************)
(* Properties                                                              *)
(***************************************************************************)
\* At most one read is on its way, and the one who made it is waiting for it:
\* an answer never replaces a newer one in the cache.
ReadNeverGoesBack ==
  [][cached'.read # 0 => \A c \in Callers :
       request'[c] = "sent" /\ kind'[c] = "read" => since'[c] >= cached'.read]_hlVars

\* Every caller is answered or refused: waiting for a token, for its own request
\* or for a fetch it shares, also when the client is destroyed.
CallerIsSettled == \A c \in Callers : []<>(request[c] = "idle")
=============================================================================
