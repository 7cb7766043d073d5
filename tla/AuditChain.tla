----------------------------- MODULE AuditChain ------------------------------
(***************************************************************************)
(* The audit trail.  The API is the one writer of the table of audits      *)
(* (apps/api/src/store.ts, db/persistence.ts): it adds its own events and  *)
(* those it reads from the stream hlp.audit.events, where the runtime      *)
(* publishes, and the API too (apps/api/src/index.ts).  A row holds a hash *)
(* over the event and the hash of the row before it.  A row is told apart  *)
(* by its number here, and its link is the number of the row whose hash it *)
(* took; 0 stands for none.                                                *)
(***************************************************************************)
EXTENDS Naturals, Sequences

CONSTANTS MaxEvents,  \* bound: events
          MaxFailures \* bound: transactions that fail

VARIABLES
  created,  \* events so far: an event's number is its place in time, its ts
  stream,   \* hlp.audit.events, not yet consumed
  saving,   \* transactions under way, numbered by saves
  saves,
  audits,   \* rows: their number, the ts of their event and their link
  failures

auditVars == <<created, stream, saving, saves, audits, failures>>

AuditInit ==
  created = 0 /\ stream = <<>> /\ saving = {} /\ saves = 0 /\ audits = {} /\ failures = 0

\* addAudit() of the store starts a transaction that nobody waits for.
saveAudit(e) ==
  /\ saves' = saves + 1
  /\ saving' = saving \cup {[n |-> saves + 1, ts |-> e, read |-> FALSE, link |-> 0]}

\* addAudit() and addAgentAudit() of the API: kept at once and published, so that the
\* API's own consumer adds the event a second time.
ApiAudits ==
  /\ created < MaxEvents /\ created' = created + 1
  /\ saveAudit(created + 1)
  /\ stream' = Append(stream, created + 1)
  /\ UNCHANGED <<audits, failures>>

RuntimeAudits ==
  /\ created < MaxEvents /\ created' = created + 1
  /\ stream' = Append(stream, created + 1)
  /\ UNCHANGED <<saving, saves, audits, failures>>

Consume ==
  /\ stream # <<>> /\ stream' = Tail(stream)
  /\ saveAudit(Head(stream))
  /\ UNCHANGED <<created, audits, failures>>

\* The previous row is the one with the newest event; among several of one event, any.
Newest == {a.n : a \in {b \in audits : \A c \in audits : c.ts <= b.ts}}

\* The transaction reads what is committed, and takes no lock.
Select(t) ==
  /\ t \in saving /\ ~t.read
  /\ \E link \in IF audits = {} THEN {0} ELSE Newest :
       saving' = (saving \ {t}) \cup {[t EXCEPT !.read = TRUE, !.link = link]}
  /\ UNCHANGED <<created, stream, saves, audits, failures>>

InsertAndCommit(t) ==
  /\ t \in saving /\ t.read
  /\ audits' = audits \cup {[n |-> t.n, ts |-> t.ts, link |-> t.link]}
  /\ saving' = saving \ {t}
  /\ UNCHANGED <<created, stream, saves, failures>>

\* A failure is logged, and the event has no row.
SaveFails(t) ==
  /\ t \in saving /\ failures < MaxFailures /\ failures' = failures + 1
  /\ saving' = saving \ {t}
  /\ UNCHANGED <<created, stream, saves, audits>>

AuditNext ==
  \/ ApiAudits \/ RuntimeAudits \/ Consume
  \/ \E t \in saving : Select(t) \/ InsertAndCommit(t) \/ SaveFails(t)

AuditSpec == AuditInit /\ [][AuditNext]_auditVars

(***************************************************************************)
(* Properties                                                              *)
(***************************************************************************)

\* The rows are a chain: no two of them follow the same row.  saveAudit() reads the
\* previous hash and inserts in one transaction for its sake.
RowsAreAChain == \A a, b \in audits : a # b => a.link # b.link
=============================================================================
