---------------------------- MODULE Entitlements -----------------------------
(***************************************************************************)
(* The payment gate of the API (apps/api/src/index.ts, x402.ts and the     *)
(* entitlements of store.ts).  A handshake hands out a challenge and an    *)
(* entitlement under the challenge's id; a proof of payment verified       *)
(* against the challenge opens the entitlement, and every request through  *)
(* the gate uses one of its quota.  Challenges, verified ids, usage and    *)
(* bans live in the API's memory; entitlements are written to the          *)
(* database too, and nobody waits for that write.                          *)
(***************************************************************************)
EXTENDS Integers

CONSTANTS ChallengeIds, \* each is handed out once
          Requests,     \* requests that are in the gate at the same time
          Quota,        \* quotaRemaining of a new entitlement
          PerMinute,    \* rateLimitPerMinute
          FailureLimit, \* ABUSE_BAN_THRESHOLD
          MaxStops      \* bound: restarts of the API

VARIABLES
  issued,     \* ids handed out
  challenges, \* those the X402Service remembers
  overdue,    \* challenges older than five minutes
  expired,    \* entitlements older than a day
  cache,      \* store.entitlements: the quota that remains, or Nothing
  row,        \* the database's
  upserts,    \* writes on their way, as <<id, quota>>
  verified,   \* verifiedEntitlements
  usage,      \* agentUsage: requests of the window, failures ever
  banned,
  gate,       \* of each request: none, or the id it waits for and whether that
              \* has the capability it needs
  paid,       \* ids that somebody paid for
  served,     \* requests let through, by id
  stops

entVars == <<issued, challenges, overdue, expired, cache, row, upserts, verified, usage,
             banned, gate, paid, served, stops>>

Nothing == -1
NoRequest == [id |-> "none", capable |-> FALSE]

EntInit ==
  /\ issued = {} /\ challenges = {} /\ overdue = {} /\ expired = {}
  /\ cache = [i \in ChallengeIds |-> Nothing] /\ row = [i \in ChallengeIds |-> Nothing] /\ upserts = {}
  /\ verified = {} /\ banned = {}
  /\ usage = [i \in ChallengeIds |-> [requests |-> 0, failures |-> 0]]
  /\ gate = [r \in Requests |-> NoRequest]
  /\ paid = {} /\ served = [i \in ChallengeIds |-> 0] /\ stops = 0

\* Mutant: the row is read for every request.
getEntitlementRow(i) == IF i \in expired THEN Nothing ELSE row[i]
\* A cached entitlement is the one; a row is looked at when there is none, and not
\* when it has expired.
getEntitlement(i) ==
  IF cache[i] # Nothing THEN cache[i]
  ELSE IF i \in expired THEN Nothing ELSE row[i]

\* setEntitlement(): the write is under way when it returns.
setEntitlement(i, quota) ==
  /\ cache' = [cache EXCEPT ![i] = quota]
  /\ upserts' = upserts \cup {<<i, quota>>}

\* POST /v1/agent/handshake, and the route by which an operator unlocks a tier.
Handshake(i) ==
  /\ i \notin issued
  /\ issued' = issued \cup {i} /\ challenges' = challenges \cup {i}
  /\ setEntitlement(i, Quota)
  /\ UNCHANGED <<overdue, expired, row, verified, usage, banned, gate, paid, served, stops>>

\* verifyProof(): a challenge is not used up by the proof that answers it, and one that
\* is overdue is forgotten.
verifyProof(i, genuine) == genuine /\ i \in challenges \ overdue

VerifyFails(i) ==
  /\ \E genuine \in BOOLEAN :
       /\ ~verifyProof(i, genuine)
       /\ challenges' = IF i \in overdue THEN challenges \ {i} ELSE challenges
  /\ usage[i].failures < FailureLimit
  /\ usage' = [usage EXCEPT ![i].failures = @ + 1]
  /\ banned' = IF usage[i].failures + 1 >= FailureLimit THEN banned \cup {i} ELSE banned
  /\ UNCHANGED <<issued, overdue, expired, cache, row, upserts, verified, gate, paid,
                 served, stops>>

\* POST /v1/agent/verify
Verify(i) ==
  /\ verifyProof(i, TRUE) /\ getEntitlement(i) # Nothing /\ i \notin expired
  /\ cache' = [cache EXCEPT ![i] = getEntitlement(i)]
  /\ verified' = verified \cup {i} /\ paid' = paid \cup {i}
  /\ UNCHANGED <<issued, challenges, overdue, expired, row, upserts, usage, banned, gate,
                 served, stops>>

(***************************************************************************)
(* x402Protected(): a request waits once, for the entitlement.             *)
(***************************************************************************)
Enter(r, i, capable) ==
  /\ gate[r] = NoRequest
  /\ i \notin banned /\ i \in verified
  /\ gate' = [gate EXCEPT ![r] = [id |-> i, capable |-> capable]]
  /\ UNCHANGED <<issued, challenges, overdue, expired, cache, row, upserts, verified, usage,
                 banned, paid, served, stops>>

NotFound(r) ==
  /\ gate[r] # NoRequest
  /\ LET i == gate[r].id IN
     /\ getEntitlement(i) = Nothing \/ i \in expired
     /\ verified' = verified \ {i}
  /\ gate' = [gate EXCEPT ![r] = NoRequest]
  /\ UNCHANGED <<issued, challenges, overdue, expired, cache, row, upserts, usage, banned,
                 paid, served, stops>>

\* consumeQuota(): nothing is taken of a quota that is used up.
consumeQuota(quota) == IF quota <= 0 THEN quota ELSE quota - 1

\* The request is counted, and then refused for its rate, its capability or its quota,
\* or served.
Decide(r) ==
  /\ gate[r] # NoRequest
  /\ LET i == gate[r].id
         quota == getEntitlement(i)
         tooMany == usage[i].requests + 1 > PerMinute
     IN
     /\ quota # Nothing /\ i \notin expired
     /\ usage' = [usage EXCEPT ![i].requests = IF tooMany THEN @ ELSE @ + 1]
     /\ IF tooMany \/ ~gate[r].capable \/ quota <= 0
        THEN UNCHANGED <<cache, upserts, served>>
        ELSE setEntitlement(i, consumeQuota(quota)) /\ served' = [served EXCEPT ![i] = @ + 1]
  /\ gate' = [gate EXCEPT ![r] = NoRequest]
  /\ UNCHANGED <<issued, challenges, overdue, expired, row, verified, banned, paid, stops>>

(***************************************************************************)
(* Time, the database and restarts.                                        *)
(***************************************************************************)
\* A window of a minute ends; the failures are kept.
WindowTurns(i) ==
  /\ usage[i].requests > 0
  /\ usage' = [usage EXCEPT ![i].requests = 0]
  /\ UNCHANGED <<issued, challenges, overdue, expired, cache, row, upserts, verified,
                 banned, gate, paid, served, stops>>

BanLapses(i) ==
  /\ i \in banned /\ banned' = banned \ {i}
  /\ UNCHANGED <<issued, challenges, overdue, expired, cache, row, upserts, verified, usage,
                 gate, paid, served, stops>>

ChallengeOverdue(i) ==
  /\ i \in issued \ overdue /\ overdue' = overdue \cup {i}
  /\ UNCHANGED <<issued, challenges, expired, cache, row, upserts, verified, usage, banned,
                 gate, paid, served, stops>>

EntitlementExpires(i) ==
  /\ i \in overdue \ expired /\ expired' = expired \cup {i}
  /\ UNCHANGED <<issued, challenges, overdue, cache, row, upserts, verified, usage, banned,
                 gate, paid, served, stops>>

\* Writes go through a pool of connections, and may land in any order.
Upsert ==
  /\ \E w \in upserts :
       row' = [row EXCEPT ![w[1]] = w[2]] /\ upserts' = upserts \ {w}
  /\ UNCHANGED <<issued, challenges, overdue, expired, cache, verified, usage, banned, gate,
                 paid, served, stops>>

ApiRestarts ==
  /\ stops < MaxStops /\ stops' = stops + 1
  /\ challenges' = {} /\ verified' = {} /\ banned' = {} /\ upserts' = {}
  /\ cache' = [i \in ChallengeIds |-> Nothing]
  /\ usage' = [i \in ChallengeIds |-> [requests |-> 0, failures |-> 0]]
  /\ gate' = [r \in Requests |-> NoRequest]
  /\ UNCHANGED <<issued, overdue, expired, row, paid, served>>

EntNext ==
  \/ \E i \in ChallengeIds : \/ Handshake(i) \/ VerifyFails(i) \/ Verify(i)
                    \/ WindowTurns(i) \/ BanLapses(i)
                    \/ ChallengeOverdue(i) \/ EntitlementExpires(i)
  \/ \E r \in Requests : \/ NotFound(r) \/ Decide(r)
                         \/ \E i \in ChallengeIds, capable \in BOOLEAN : Enter(r, i, capable)
  \/ Upsert \/ ApiRestarts

EntSpec == EntInit /\ [][EntNext]_entVars

(***************************************************************************)
(* Properties                                                              *)
(***************************************************************************)

\* An entitlement serves no more requests than its quota, and none before a proof of
\* payment for it was accepted: whatever the order of the requests in the gate, of the
\* writes that land, and through restarts of the API.
ServedAsPaidFor ==
  \A i \in ChallengeIds : served[i] <= Quota /\ (served[i] > 0 => i \in paid)
=============================================================================
