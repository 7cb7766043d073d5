----------------------------- MODULE StateMirror -----------------------------
(***************************************************************************)
(* The desk's mode in three places: the runtime's memory, the rows of the  *)
(* system_state table, which the runtime and the API both write, and the   *)
(* API's snapshot, which follows the STATE_UPDATE messages of the stream   *)
(* hlp.ui.events (apps/api/src/store.ts and the consumer of                *)
(* apps/api/src/index.ts).  Every start of the API reads the stream from   *)
(* its beginning and writes every mode it meets there as a new row.        *)
(***************************************************************************)
EXTENDS Integers, Sequences

CONSTANTS DeskModes,     \* modes the desk changes between
          MaxUpdates,    \* bound: mode changes announced
          MaxWrites,     \* bound: inserts on their way
          MaxRestarts    \* bound: restarts of either process, lost writes

VARIABLES
  rtMode,    \* state.mode of the runtime
  announced, \* the runtime has announced its mode
  updates,   \* the STATE_UPDATE messages, runs of equal ones as one
  apiPhase,  \* down, connecting (no database yet), hydrating, up
  readTo,    \* messages the API's consumer has handled
  snapshot,  \* store.snapshot.mode
  hydrated,  \* the row that hydrateFromPersistence has read
  writes,    \* the API's inserts with an updated_at after the newest row's: the
             \* modes of those on their way, "lost" for one that failed
  newest,    \* the mode of the row with the latest updated_at
  restarts

mirrorVars == <<rtMode, announced, updates, apiPhase, readTo, snapshot, hydrated,
                writes, newest, restarts>>

Init ==
  /\ rtMode \in DeskModes /\ announced = TRUE
  /\ updates = <<rtMode>> /\ newest = rtMode
  /\ apiPhase = "down" /\ readTo = 0 /\ snapshot = "INIT" /\ hydrated = "none"
  /\ writes = <<>> /\ restarts = 0

Upset == restarts < MaxRestarts /\ restarts' = restarts + 1

(***************************************************************************)
(* The runtime: setMode() stores the mode and then publishes it; every     *)
(* cycle publishes it again.                                               *)
(***************************************************************************)
SetMode(m) ==
  /\ announced /\ m # rtMode /\ Len(updates) < MaxUpdates
  /\ rtMode' = m /\ announced' = FALSE
  /\ newest' = m /\ writes' = <<>>
  /\ UNCHANGED <<updates, apiPhase, readTo, snapshot, hydrated, restarts>>

Publish ==
  /\ ~announced /\ announced' = TRUE
  /\ updates' = IF updates[Len(updates)] = rtMode THEN updates
                ELSE Append(updates, rtMode)
  /\ readTo' = IF updates[Len(updates)] = rtMode /\ readTo = Len(updates)
               THEN readTo - 1 ELSE readTo
  /\ UNCHANGED <<rtMode, apiPhase, snapshot, hydrated, writes, newest,
                 restarts>>

\* Mutant: a cycle is silent while the mode is the one announced last.
CycleQuiet ==
  /\ announced /\ updates[Len(updates)] # rtMode
  /\ readTo' = readTo - 1
  /\ UNCHANGED <<rtMode, announced, updates, apiPhase, snapshot, hydrated, writes,
                 newest, restarts>>
\* publishStateUpdate: a message equal to the last one is that one, unread.
Cycle ==
  /\ announced /\ readTo = Len(updates)
  /\ readTo' = readTo - 1
  /\ UNCHANGED <<rtMode, announced, updates, apiPhase, snapshot, hydrated, writes,
                 newest, restarts>>

\* The runtime starts: the newest row is its mode, stored and announced again.
RuntimeRestart ==
  /\ Upset /\ Len(updates) < MaxUpdates
  /\ rtMode' = newest /\ announced' = FALSE
  /\ writes' = <<>>
  /\ UNCHANGED <<newest, updates, apiPhase, readTo, snapshot, hydrated>>

(***************************************************************************)
(* The API.  Its consumers run from the first moment; the store writes     *)
(* nothing until its database is connected, then reads the newest row and  *)
(* takes it for its mode, whatever was handled meanwhile.                  *)
(***************************************************************************)
ApiStart ==
  /\ apiPhase = "down" /\ apiPhase' = "connecting"
  /\ readTo' = 0 /\ snapshot' = "INIT" /\ hydrated' = "none" /\ writes' = <<>>
  /\ UNCHANGED <<rtMode, announced, updates, newest, restarts>>

\* setSnapshot(): the mode of the API is written, and nobody waits for it.
SetSnapshot(m) ==
  /\ snapshot' = m
  /\ IF apiPhase = "connecting" THEN UNCHANGED writes
     ELSE Len(writes) < MaxWrites /\ writes' = Append(writes, m)

Consume ==
  /\ apiPhase # "down" /\ readTo < Len(updates)
  /\ readTo' = readTo + 1
  /\ SetSnapshot(updates[readTo + 1])
  /\ UNCHANGED <<rtMode, announced, updates, apiPhase, hydrated, newest,
                 restarts>>

Connected ==
  /\ apiPhase = "connecting" /\ apiPhase' = "hydrating"
  /\ hydrated' = newest
  /\ UNCHANGED <<rtMode, announced, updates, readTo, snapshot, writes, newest, restarts>>

Hydrate ==
  /\ apiPhase = "hydrating" /\ apiPhase' = "up"
  /\ snapshot' = hydrated /\ hydrated' = "none"
  /\ UNCHANGED <<rtMode, announced, updates, readTo, writes, newest,
                 restarts>>

\* PATCH /v1/operator/config/risk sets a health code, and so writes the mode.
PatchRisk ==
  /\ apiPhase = "up" /\ Upset
  /\ SetSnapshot(snapshot)
  /\ UNCHANGED <<rtMode, announced, updates, apiPhase, readTo, hydrated, newest>>

\* Mutant: the database stamps a row when it arrives (a DEFAULT now()).
stillNewerByArrival(i) == SubSeq(writes, 1, i - 1) \o SubSeq(writes, i + 1, Len(writes))
\* updated_at is taken when the insert is issued: once a row is there, those
\* issued before it are never the newest.
stillNewer(i) == SubSeq(writes, i + 1, Len(writes))

\* Inserts go through a pool of connections: they may arrive in any order.
Insert ==
  /\ \E i \in 1..Len(writes) :
       /\ writes[i] # "lost"
       /\ newest' = writes[i] /\ writes' = stillNewer(i)
  /\ UNCHANGED <<rtMode, announced, updates, apiPhase, readTo, snapshot, hydrated,
                 restarts>>

InsertFails ==
  /\ Upset
  /\ \E i \in 1..Len(writes) : writes' = [writes EXCEPT ![i] = "lost"]
  /\ UNCHANGED <<rtMode, announced, updates, apiPhase, readTo, snapshot, hydrated,
                 newest>>

ApiKilled ==
  /\ apiPhase # "down" /\ Upset
  /\ apiPhase' = "down" /\ writes' = <<>>
  /\ UNCHANGED <<rtMode, announced, updates, readTo, snapshot, hydrated, newest>>

Next ==
  \/ \E m \in DeskModes : SetMode(m)
  \/ Publish \/ Cycle \/ RuntimeRestart
  \/ ApiStart \/ Consume \/ Connected \/ Hydrate \/ PatchRisk \/ Insert
  \/ InsertFails \/ ApiKilled

\* The runtime cycles, the consumer reads on, and the database answers.
Fairness ==
  /\ WF_mirrorVars(Publish) /\ WF_mirrorVars(Cycle) /\ WF_mirrorVars(Consume)
  /\ WF_mirrorVars(Connected) /\ WF_mirrorVars(Hydrate) /\ WF_mirrorVars(Insert)

Spec == Init /\ [][Next]_mirrorVars /\ Fairness

(***************************************************************************)
(* Properties                                                              *)
(***************************************************************************)

\* The newest row, from which a restart of the runtime resumes, is the mode of the
\* runtime whenever the API has caught up with it and all was written.  While the
\* API replays the stream the row is an old mode.
RowIsModeWhenCaughtUp ==
  (/\ announced /\ apiPhase = "up" /\ readTo = Len(updates) /\ writes = <<>>
   /\ snapshot = rtMode)
  => newest = rtMode

\* The API's mode follows the runtime's: it does not keep an older one, whatever
\* it hydrated from, while both stay up.
MirrorFollows ==
  \A m \in DeskModes :
    []<>(rtMode = m /\ apiPhase = "up" => snapshot = m)
=============================================================================
