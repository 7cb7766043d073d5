------------------------------ MODULE EventBus ------------------------------
(***************************************************************************)
(* One Redis stream of packages/event-bus (RedisEventBus): publish with    *)
(* its approximate MAXLEN, the consumer loop of consume(), and the archive *)
(* of the audit stream.  A stream only grows at its end and is only cut at *)
(* its front, so its entries are the identifiers first..last.  A consumer  *)
(* is a process: it may be stopped or die, and starts again from "$" (the  *)
(* tail: runtime, agents) or "0-0" (the head: API, gateway).               *)
(***************************************************************************)
EXTENDS Integers, FiniteSets

CONSTANTS Consumers,    \* the consumer loops reading the stream
          FromTail,     \* those of them that start at "$"
          MaxLens,      \* the values of streamMaxLen to consider; 0: no cap
          BatchSize,    \* COUNT of XREAD, and of XRANGE in the archive
          MaxPublished, \* bound: entries ever added
          MaxBusFaults  \* bound: failures of Redis, a handler, the archiver

VARIABLES
  maxLen,     \* streamMaxLen of this stream
  first,      \* the oldest entry kept
  last,       \* the newest entry ever added
  malformed,  \* entries that parseEnvelope refuses
  phase,      \* per consumer: off, poll, rows, handling, backoff
  running,    \* per consumer: the flag its stop function clears
  from,       \* per consumer: the entry after which it began (history)
  cursor,     \* per consumer: the id of the last row taken
  rows,       \* per consumer: rows of the batch not yet taken
  delivered,  \* per consumer: how often its handler got each entry (history)
  archiving,  \* archiveAuditStream: "no" or the state of its loop
  archived,   \* entries the archiver has stored
  busFaults   \* failures so far

streamVars == <<maxLen, first, last, malformed>>
loopVars   == <<phase, running, from, cursor, rows, delivered>>
archVars   == <<archiving, archived>>
busVars    == <<streamVars, loopVars, archVars, busFaults>>

Ids     == 1..MaxPublished
Entries == first..last
Oldest(S) == CHOOSE i \in S : \A j \in S : i <= j
FirstOf(S, n) == {i \in S : Cardinality({j \in S : j < i}) < n}
Idle == [active |-> FALSE, cutoff |-> 0, cursor |-> 0, lastId |-> 0,
         rows |-> {}]

Init ==
  /\ maxLen \in MaxLens /\ first = 1 /\ last = 0 /\ malformed = {}
  /\ phase = [c \in Consumers |-> "off"]
  /\ running = [c \in Consumers |-> FALSE]
  /\ from = [c \in Consumers |-> 0] /\ cursor = [c \in Consumers |-> 0]
  /\ rows = [c \in Consumers |-> {}]
  /\ delivered = [c \in Consumers |-> [i \in Ids |-> 0]]
  /\ archiving = Idle /\ archived = {} /\ busFaults = 0

(***************************************************************************)
(* publish(): XADD, with MAXLEN ~ where the stream has a cap: Redis may    *)
(* cut the front, and keeps at least maxLen entries.  An entry another     *)
(* writer put there may be malformed.                                      *)
(***************************************************************************)
Publish ==
  /\ last < MaxPublished
  /\ last' = last + 1
  /\ malformed' \in {malformed, malformed \cup {last + 1}}
  /\ first' \in IF maxLen = 0 THEN {first}
                ELSE {f \in first..last + 1 : f = first \/ last + 2 - f >= maxLen}
  /\ UNCHANGED <<maxLen, loopVars, archVars, busFaults>>

(***************************************************************************)
(* consume().  "$" is turned once into the current tail; if Redis cannot   *)
(* be asked, into "0-0".                                                   *)
(***************************************************************************)
Begin(c, start) ==
  /\ phase[c] = "off"
  /\ phase' = [phase EXCEPT ![c] = "poll"]
  /\ running' = [running EXCEPT ![c] = TRUE]
  /\ cursor' = [cursor EXCEPT ![c] = start]
  /\ from' = [from EXCEPT ![c] = start]
  /\ rows' = [rows EXCEPT ![c] = {}]
  /\ delivered' = [delivered EXCEPT ![c] = [i \in Ids |-> 0]]
  /\ UNCHANGED <<streamVars, archVars>>

Subscribe(c) ==
  /\ Begin(c, IF c \in FromTail /\ Entries # {} THEN last ELSE 0)
  /\ UNCHANGED busFaults

TailUnknown(c) ==
  /\ c \in FromTail /\ busFaults < MaxBusFaults
  /\ Begin(c, 0)
  /\ busFaults' = busFaults + 1

\* Mutant: each poll asks for what follows the tail, as "$" itself would.
unreadFromTail(c) == {i \in Entries : i > cursor[c] /\ i = last}
unread(c) == {i \in Entries : i > cursor[c]}

\* XREAD COUNT: the rows after the cursor.  With none it blocks and asks again.
Poll(c) ==
  /\ phase[c] = "poll" /\ running[c] /\ unread(c) # {}
  /\ rows' = [rows EXCEPT ![c] = FirstOf(unread(c), BatchSize)]
  /\ phase' = [phase EXCEPT ![c] = "rows"]
  /\ UNCHANGED <<streamVars, running, from, cursor, delivered, archVars, busFaults>>

PollFails(c) ==
  /\ phase[c] = "poll" /\ running[c] /\ busFaults < MaxBusFaults
  /\ busFaults' = busFaults + 1
  /\ phase' = [phase EXCEPT ![c] = "backoff"]
  /\ UNCHANGED <<streamVars, running, from, cursor, rows, delivered, archVars>>

\* Mutant: the cursor moves on only when the handler is done.
cursorOfRowLate(c, i) == cursor[c]
\* The cursor moves when a row is taken, before its handler runs.
cursorOfRow(c, i) == i

Row(c) ==
  /\ phase[c] = "rows" /\ rows[c] # {}
  /\ LET i == Oldest(rows[c])
     IN  /\ cursor' = [cursor EXCEPT ![c] = cursorOfRow(c, i)]
         /\ rows' = [rows EXCEPT ![c] = @ \ {i}]
         /\ IF i \in malformed
            THEN UNCHANGED <<phase, delivered>>
            ELSE /\ phase' = [phase EXCEPT ![c] = "handling"]
                 /\ delivered' = [delivered EXCEPT ![c][i] = @ + 1]
  /\ UNCHANGED <<streamVars, running, from, archVars, busFaults>>

HandlerReturns(c) ==
  /\ phase[c] = "handling"
  /\ phase' = [phase EXCEPT ![c] = "rows"]
  /\ UNCHANGED <<streamVars, running, from, cursor, rows, delivered, archVars,
                 busFaults>>

\* The error leaves the loop over the batch: its other rows are read again.
HandlerThrows(c) ==
  /\ phase[c] = "handling" /\ busFaults < MaxBusFaults
  /\ busFaults' = busFaults + 1
  /\ phase' = [phase EXCEPT ![c] = "backoff"]
  /\ rows' = [rows EXCEPT ![c] = {}]
  /\ UNCHANGED <<streamVars, running, from, cursor, delivered, archVars>>

\* A batch is finished, or a backoff over: the loop looks at running again.
Again(c) ==
  /\ \/ phase[c] = "rows" /\ rows[c] = {}
     \/ phase[c] = "backoff"
  /\ phase' = [phase EXCEPT ![c] = "poll"]
  /\ UNCHANGED <<streamVars, running, from, cursor, rows, delivered, archVars,
                 busFaults>>

\* The stop function does not interrupt the batch at hand.
Stop(c) ==
  /\ phase[c] # "off" /\ running[c]
  /\ running' = [running EXCEPT ![c] = FALSE]
  /\ UNCHANGED <<streamVars, phase, from, cursor, rows, delivered, archVars,
                 busFaults>>

Ended(c) ==
  /\ phase[c] = "poll" /\ ~running[c]
  /\ phase' = [phase EXCEPT ![c] = "off"]
  /\ UNCHANGED <<streamVars, running, from, cursor, rows, delivered, archVars,
                 busFaults>>

Killed(c) ==
  /\ phase[c] # "off" /\ busFaults < MaxBusFaults
  /\ busFaults' = busFaults + 1
  /\ phase' = [phase EXCEPT ![c] = "off"]
  /\ running' = [running EXCEPT ![c] = FALSE]
  /\ UNCHANGED <<streamVars, from, cursor, rows, delivered, archVars>>

(***************************************************************************)
(* archiveAuditStream(): entries up to a cutoff go to the archiver one by  *)
(* one, in batches; then everything before the last one archived is cut.   *)
(* The loop keeps going until a batch is empty.                            *)
(***************************************************************************)
ArchiveStart ==
  /\ maxLen = 0 /\ ~archiving.active
  /\ \E cutoff \in Entries :
       archiving' = [Idle EXCEPT !.active = TRUE, !.cutoff = cutoff]
  /\ UNCHANGED <<streamVars, loopVars, archived, busFaults>>

toArchive == {i \in Entries : archiving.cursor < i /\ i <= archiving.cutoff}

ArchiveBatch ==
  /\ archiving.active /\ archiving.rows = {} /\ toArchive # {}
  /\ LET batch == FirstOf(toArchive, BatchSize)
     IN  archiving' = [archiving EXCEPT
                         !.rows = batch,
                         !.cursor = CHOOSE i \in batch : \A j \in batch : j <= i]
  /\ UNCHANGED <<streamVars, loopVars, archived, busFaults>>

ArchiveOne ==
  /\ archiving.active /\ archiving.rows # {}
  /\ LET i == Oldest(archiving.rows)
         ok == i \notin malformed
     IN  /\ archiving' = [archiving EXCEPT !.rows = @ \ {i},
                                           !.lastId = IF ok THEN i ELSE @]
         /\ archived' = IF ok THEN archived \cup {i} ELSE archived
  /\ UNCHANGED <<streamVars, loopVars, busFaults>>

\* Mutant: an entry the archiver cannot store is passed over.
ArchiveThrowsOn ==
  /\ archiving.active /\ archiving.rows # {} /\ busFaults < MaxBusFaults
  /\ busFaults' = busFaults + 1
  /\ archiving' = [archiving EXCEPT !.rows = @ \ {Oldest(@)}]
  /\ UNCHANGED <<streamVars, loopVars, archived>>
\* The archiver throws: the archive is abandoned and nothing is cut.
ArchiveThrows ==
  /\ archiving.active /\ archiving.rows # {} /\ busFaults < MaxBusFaults
  /\ busFaults' = busFaults + 1
  /\ archiving' = Idle
  /\ UNCHANGED <<streamVars, loopVars, archived>>

\* XTRIM MINID keeps the last archived entry: the next archive stores it again.
ArchiveTrim ==
  /\ archiving.active /\ archiving.rows = {} /\ toArchive = {}
  /\ first' = IF archiving.lastId > first THEN archiving.lastId ELSE first
  /\ archiving' = Idle
  /\ UNCHANGED <<maxLen, last, malformed, loopVars, archived, busFaults>>

Consume(c) == Poll(c) \/ Row(c) \/ HandlerReturns(c) \/ Again(c)

Archive == ArchiveStart \/ ArchiveBatch \/ ArchiveOne \/ ArchiveThrows
             \/ ArchiveTrim

Next ==
  \/ Publish \/ Archive
  \/ \E c \in Consumers :
       \/ Subscribe(c) \/ TailUnknown(c) \/ Poll(c) \/ PollFails(c) \/ Row(c)
       \/ HandlerReturns(c) \/ HandlerThrows(c) \/ Again(c) \/ Stop(c)
       \/ Ended(c) \/ Killed(c)

\* A loop that is running goes on; nothing is assumed of publishers.
Fairness == \A c \in Consumers : WF_busVars(Consume(c))

Spec == Init /\ [][Next]_busVars /\ Fairness

(***************************************************************************)
(* Properties                                                              *)
(***************************************************************************)

\* While it lives a consumer is given each entry at most once, errors and restarts
\* of its loop included (a trade command is not carried out twice), and it never
\* passes over one: what lies between its start and its cursor and is still in
\* the stream was delivered, unless it is malformed.
DeliveredOnce ==
  \A c \in Consumers, i \in Ids :
    /\ delivered[c][i] <= 1
    /\ phase[c] # "off" /\ from[c] < i /\ i <= cursor[c] /\ i \in Entries
         => delivered[c][i] = 1 \/ i \in malformed

\* No audit entry is cut from the stream before the archiver has stored it.
ArchivedBeforeCut ==
  maxLen = 0 => \A i \in 1..first - 1 : i \in malformed \/ i \in archived

\* An entry after a consumer's start reaches its handler, unless the cap cut it
\* off before it was read, it is malformed, or the consumer stopped.
EntryArrives ==
  \A c \in Consumers, i \in Ids :
    []<>(phase[c] # "off" /\ running[c] /\ from[c] < i /\ i \in Entries =>
           delivered[c][i] > 0 \/ i \in malformed)
=============================================================================
