------------------------------ MODULE StreamProofs ------------------------------
(***************************************************************************)
(* Theorems about the event streams and about what the API stores from     *)
(* them: the consumer loops, the archive of the audit stream, and the mode *)
(* of the desk in the runtime, the API and the database.                   *)
(***************************************************************************)
EXTENDS DeskServices, FiniteSetTheorems, SequenceTheorems, WellFoundedInduction, TLAPS

-------------------------------------------------------------------------------
(* Facts about sets of numbers                                                *)

\* A set of natural numbers has a smallest.
LEMMA SmallestExists ==
  ASSUME NEW S \in SUBSET Nat, S # {}
  PROVE  \E i \in S : \A j \in S : i <= j
  <1>1. OpToRel(<, Nat) = {ss \in Nat \X Nat : ss[1] < ss[2]}
    BY DEF OpToRel
  <1> DEFINE R == {ss \in Nat \X Nat : ss[1] < ss[2]}
  <1>2. IsWellFoundedOn(R, Nat)
    BY <1>1, NatLessThanWellFounded
  <1>3. PICK i \in S : \A j \in S : <<j, i>> \notin R
    <2> HIDE DEF R
    <2> QED BY <1>2, WFMin
  <1>4. ASSUME NEW j \in S PROVE i <= j
    <2>1. <<j, i>> \notin R /\ <<j, i>> \in Nat \X Nat
      BY <1>3
    <2>2. ~(j < i)
      BY <2>1
    <2>3. QED
      BY <2>2
  <1>5. QED
    BY <1>4

\* So Oldest is the smallest of its set.
LEMMA OldestIsLeast ==
  ASSUME NEW S \in SUBSET Nat, S # {}
  PROVE  Bus!Oldest(S) \in S /\ \A j \in S : Bus!Oldest(S) <= j
  BY SmallestExists DEF Bus!Oldest

\* A bounded set of natural numbers has a largest.
LEMMA LargestExists ==
  ASSUME NEW S \in SUBSET Nat, S # {}, NEW n \in Nat, \A i \in S : i <= n
  PROVE  \E i \in S : \A j \in S : j <= i
  <1> DEFINE T == {k \in Nat : \E i \in S : i = n - k}
  <1>1. PICK i \in S : TRUE
    OBVIOUS
  <1>2. n - i \in T
    BY <1>1
  <1>3. PICK k \in T : \A l \in T : k <= l
    <2>1. T \in SUBSET Nat /\ T # {}
      BY <1>2
    <2> HIDE DEF T
    <2>2. QED
      BY <2>1, SmallestExists
  <1>4. n - k \in S
    BY <1>3
  <1>5. ASSUME NEW j \in S PROVE j <= n - k
    <2>1. n - j \in T
      OBVIOUS
    <2>2. QED
      <3>1. k \in Nat /\ j \in Nat /\ k <= n - j
        BY <1>3, <2>1
      <3>2. QED
        BY <3>1
  <1>6. QED
    BY <1>4, <1>5

\* The first few entries of a set are some of it, with all that come before them.
LEMMA FirstOfSet ==
  ASSUME NEW S \in SUBSET Nat, IsFiniteSet(S)
  PROVE  /\ Bus!FirstOf(S, BatchSize) \subseteq S
         /\ \A i \in Bus!FirstOf(S, BatchSize) : \A j \in S : j < i => j \in Bus!FirstOf(S, BatchSize)
         /\ S # {} => Bus!FirstOf(S, BatchSize) # {}
  <1> DEFINE before(i) == {j \in S : j < i}
  <1>0. S \subseteq Nat
    OBVIOUS
  <1>1. ASSUME NEW i \in S PROVE IsFiniteSet(before(i)) /\ Cardinality(before(i)) \in Nat
    <2>1. before(i) \in SUBSET S
      OBVIOUS
    <2> HIDE DEF before
    <2>2. QED
      BY <2>1, FS_Subset, FS_CardinalityType
  <1>2. ASSUME NEW i \in S, NEW j \in S, j < i PROVE Cardinality(before(j)) <= Cardinality(before(i))
    <2>1. ASSUME NEW k \in before(j) PROVE k \in before(i)
      BY <1>0, <1>2, <2>1
    <2>2. before(j) \in SUBSET before(i)
      BY <2>1
    <2> HIDE DEF before
    <2>3. QED
      BY <1>1, <2>2, FS_Subset
  <1>3. ASSUME S # {} PROVE Bus!Oldest(S) \in S /\ before(Bus!Oldest(S)) = {}
    <2>1. Bus!Oldest(S) \in S /\ \A j \in S : Bus!Oldest(S) <= j
      BY <1>3, OldestIsLeast
    <2>2. ASSUME NEW j \in before(Bus!Oldest(S)) PROVE FALSE
      <3>1. j \in S /\ j < Bus!Oldest(S)
        OBVIOUS
      <3>2. j \in Nat /\ Bus!Oldest(S) \in Nat /\ Bus!Oldest(S) <= j
        BY <1>0, <2>1, <3>1
      <3>3. QED
        BY <3>1, <3>2
    <2>3. QED
      BY <2>1, <2>2
  <1>4. Bus!FirstOf(S, BatchSize) = {i \in S : Cardinality(before(i)) < BatchSize}
    <2>1. \A T : Bus!Cardinality(T) = Cardinality(T)
      BY DEF Bus!Cardinality, Cardinality
    <2>2. QED
      BY <2>1 DEF Bus!FirstOf
  <1> HIDE DEF before
  <1>5. ASSUME NEW i \in S, Cardinality(before(i)) < BatchSize, NEW j \in S, j < i
        PROVE  Cardinality(before(j)) < BatchSize
    BY <1>1, <1>2, <1>5, BusAssumption
  <1>6. ASSUME S # {} PROVE Cardinality(before(Bus!Oldest(S))) < BatchSize
    BY <1>3, <1>6, FS_EmptySet, BusAssumption
  <1>7. QED
    BY <1>3, <1>4, <1>5, <1>6

-------------------------------------------------------------------------------
(* Event bus                                                                  *)

\* Every behaviour of the services is one of the stream, or leaves it at rest.
LEMMA BusRuns == Safety => Bus!Init /\ [][Bus!Next]_(Bus!busVars)
  <1>1. MCInit => Bus!Init
    BY DEF MCInit
  <1>2. [MCNext]_mcVars => [Bus!Next]_(Bus!busVars)
    BY DEF MCNext, Rest, On, mcVars, busVars, Bus!busVars, Bus!streamVars, Bus!loopVars, Bus!archVars
  <1>3. QED
    BY <1>1, <1>2, PTL DEF Safety

\* The ends of the stream.
StreamOK == first \in Nat \ {0} /\ last \in Nat /\ last <= MaxPublished

\* A batch at hand is what follows the cursor, without a gap; what is after the cursor has not
\* been delivered, and what is before it and still there has been, once.
LoopOK(c) ==
  /\ rows[c] \subseteq 1..last /\ cursor[c] <= last
  /\ \A i \in rows[c] : i > cursor[c]
  /\ \A i \in rows[c], j \in Bus!Entries : cursor[c] < j /\ j < i => j \in rows[c]
  /\ \A i \in Bus!Ids : i > cursor[c] => delivered[c][i] = 0
  /\ \A i \in Bus!Ids : delivered[c][i] <= 1
  /\ \A i \in Bus!Ids \cap Bus!Entries :
       from[c] < i /\ i <= cursor[c] => delivered[c][i] = 1 \/ i \in malformed

ConsumersOK ==
  /\ cursor \in [Consumers -> Nat] /\ from \in [Consumers -> Nat]
  /\ rows \in [Consumers -> SUBSET Nat]
  /\ delivered \in [Consumers -> [Bus!Ids -> Nat]]
  /\ \A c \in Consumers : LoopOK(c)

Stored(i) == i \in malformed \/ i \in archived
\* Up to its cursor the archive has stored everything but the batch at hand, and nothing is cut
\* that it has not stored.
ArchiveOK ==
  /\ archiving \in [active : BOOLEAN, cutoff : Nat, cursor : Nat, lastId : Nat, rows : SUBSET Nat]
  /\ archiving.rows \subseteq 1..archiving.cursor /\ archiving.lastId <= archiving.cursor
  /\ archiving.cursor <= last
  /\ maxLen = 0 => /\ \A i \in 1..archiving.cursor : i \in archiving.rows \/ Stored(i)
                   /\ \A i \in 1..first - 1 : Stored(i)

\* publish() keeps the invariant, whatever Redis cuts at the front.
LEMMA StreamGrows ==
  ASSUME StreamOK, ConsumersOK, ArchiveOK, Bus!Publish
  PROVE  StreamOK' /\ ConsumersOK' /\ ArchiveOK'
  <1>1. StreamOK' /\ first' >= first /\ last' = last + 1 /\ malformed \subseteq malformed'
    BY BusAssumption DEF StreamOK, Bus!Publish
  <1>2. UNCHANGED <<maxLen, phase, running, from, cursor, rows, delivered, archiving, archived>>
    BY DEF Bus!Publish, Bus!loopVars, Bus!archVars
  <1>3. ConsumersOK'
    <2> SUFFICES ASSUME NEW c \in Consumers PROVE LoopOK(c)'
      BY <1>2 DEF ConsumersOK
    <2>1. LoopOK(c) /\ cursor[c] \in Nat /\ rows[c] \in SUBSET Nat
      BY DEF ConsumersOK
    <2>2. rows'[c] \subseteq 1..last' /\ cursor'[c] <= last'
      BY <1>1, <1>2, <2>1 DEF LoopOK, StreamOK
    <2>3. \A i \in rows'[c], j \in Bus!Entries' : cursor'[c] < j /\ j < i => j \in rows'[c]
      BY <1>1, <1>2, <2>1 DEF LoopOK, StreamOK, Bus!Entries
    <2>4. \A i \in Bus!Ids \cap Bus!Entries' :
            from'[c] < i /\ i <= cursor'[c] => delivered'[c][i] = 1 \/ i \in malformed'
      BY <1>1, <1>2, <2>1 DEF LoopOK, StreamOK, Bus!Entries
    <2>5. QED
      BY <1>2, <2>1, <2>2, <2>3, <2>4 DEF LoopOK, Bus!Ids
  <1>4. ArchiveOK'
    <2>1. maxLen = 0 => first' = first
      BY DEF Bus!Publish
    <2>2. archiving.cursor \in Nat /\ archiving.cursor <= last'
      BY <1>1 DEF ArchiveOK, StreamOK
    <2>3. \A i : Stored(i) => Stored(i)'
      BY <1>1, <1>2 DEF Stored
    <2>4. QED
      BY <1>2, <2>1, <2>2, <2>3 DEF ArchiveOK
  <1>5. QED
    BY <1>1, <1>3, <1>4

\* A stream that has lost its front leaves the loops as good as they were.
LEMMA LoopsRest ==
  ASSUME StreamOK, ConsumersOK, first' \in Nat, first' >= first, UNCHANGED <<last, malformed>>,
         UNCHANGED <<from, cursor, rows, delivered>>
  PROVE  ConsumersOK'
  BY DEF StreamOK, ConsumersOK, LoopOK, Bus!Entries, Bus!Ids

\* A step of one loop that is good leaves all of them good.
LEMMA OneLoop ==
  ASSUME ConsumersOK, NEW c \in Consumers,
         from' = [from EXCEPT ![c] = from'[c]], from'[c] \in Nat,
         cursor' = [cursor EXCEPT ![c] = cursor'[c]], cursor'[c] \in Nat,
         rows' = [rows EXCEPT ![c] = rows'[c]], rows'[c] \in SUBSET Nat,
         delivered' = [delivered EXCEPT ![c] = delivered'[c]], delivered'[c] \in [Bus!Ids -> Nat],
         UNCHANGED <<first, last, malformed>>,
         LoopOK(c)'
  PROVE  ConsumersOK'
  <1>1. ASSUME NEW d \in Consumers, d # c PROVE LoopOK(d)'
    BY <1>1 DEF ConsumersOK, LoopOK, Bus!Entries, Bus!Ids
  <1>2. QED
    BY <1>1 DEF ConsumersOK

\* A loop that begins, at the tail or at the head, has nothing behind it.
LEMMA LoopBegins ==
  ASSUME StreamOK, ConsumersOK, NEW c \in Consumers, NEW start \in {0, last}, Bus!Begin(c, start)
  PROVE  ConsumersOK'
  <1>1. /\ cursor' = [cursor EXCEPT ![c] = start] /\ from' = [from EXCEPT ![c] = start]
        /\ rows' = [rows EXCEPT ![c] = {}]
        /\ delivered' = [delivered EXCEPT ![c] = [i \in Bus!Ids |-> 0]]
        /\ UNCHANGED <<first, last, malformed>>
    BY DEF Bus!Begin, Bus!streamVars
  <1>2. start \in Nat /\ start <= last
    BY DEF StreamOK
  <1>3. /\ cursor'[c] = start /\ from'[c] = start /\ rows'[c] = {}
        /\ delivered'[c] = [i \in Bus!Ids |-> 0]
    BY <1>1 DEF ConsumersOK
  <1>4. LoopOK(c)'
    <2>1. \A i \in Bus!Ids : i \in Nat /\ delivered'[c][i] = 0
      BY <1>3, BusAssumption DEF Bus!Ids
    <2>2. \A i \in Bus!Ids : ~(start < i /\ i <= start)
      BY <1>2, <2>1
    <2>3. QED
      BY <1>2, <1>3, <1>1, <2>1, <2>2 DEF LoopOK, Bus!Ids
  <1>5. /\ cursor' = [cursor EXCEPT ![c] = cursor'[c]] /\ from' = [from EXCEPT ![c] = from'[c]]
        /\ rows' = [rows EXCEPT ![c] = rows'[c]] /\ delivered' = [delivered EXCEPT ![c] = delivered'[c]]
    <2> DEFINE nothing == [i \in Bus!Ids |-> 0]
    <2>1. delivered' = [delivered EXCEPT ![c] = nothing] /\ delivered'[c] = nothing
      BY <1>1, <1>3
    <2> HIDE DEF nothing
    <2>2. QED
      BY <1>1, <1>3, <2>1
  <1>6. /\ rows'[c] \in SUBSET Nat /\ delivered'[c] \in [Bus!Ids -> Nat]
        /\ cursor'[c] \in Nat /\ from'[c] \in Nat
    BY <1>2, <1>3
  <1>7. QED
    BY <1>1, <1>4, <1>5, <1>6, OneLoop

\* A batch that is read follows the cursor without a gap.
LEMMA LoopPolls ==
  ASSUME StreamOK, ConsumersOK, NEW c \in Consumers, Bus!Poll(c)
  PROVE  ConsumersOK'
  <1> DEFINE batch == Bus!FirstOf(Bus!unread(c), BatchSize)
  <1>1. /\ rows' = [rows EXCEPT ![c] = batch]
        /\ UNCHANGED <<first, last, malformed, from, cursor, delivered>>
    BY DEF Bus!Poll, Bus!streamVars
  <1>2. LoopOK(c) /\ cursor[c] \in Nat /\ from[c] \in Nat /\ delivered[c] \in [Bus!Ids -> Nat]
    BY DEF ConsumersOK
  <1>3. Bus!unread(c) \in SUBSET Nat /\ IsFiniteSet(Bus!unread(c))
    <2>1. first \in Int /\ last \in Int /\ first..last \in SUBSET Nat
      BY DEF StreamOK
    <2>2. IsFiniteSet(first..last)
      BY <2>1, FS_Interval
    <2>3. Bus!unread(c) \in SUBSET (first..last)
      BY DEF Bus!unread, Bus!Entries
    <2>4. QED
      BY <2>1, <2>2, <2>3, FS_Subset
  <1>4. /\ batch \subseteq Bus!unread(c)
        /\ \A i \in batch : \A j \in Bus!unread(c) : j < i => j \in batch
    BY <1>3, FirstOfSet
  <1>5. rows'[c] = batch
    BY <1>1 DEF ConsumersOK
  <1> HIDE DEF batch
  <1>6. /\ batch \subseteq 1..last /\ \A i \in batch : i > cursor[c]
        /\ \A i \in batch, j \in Bus!Entries : cursor[c] < j /\ j < i => j \in batch
    BY <1>4 DEF Bus!unread, Bus!Entries, StreamOK
  <1>7. LoopOK(c)'
    BY <1>1, <1>2, <1>5, <1>6 DEF LoopOK, Bus!Entries
  <1>8. batch \in SUBSET Nat
    BY <1>3, <1>4
  <1>9. QED
    BY <1>1, <1>2, <1>5, <1>7, <1>8, OneLoop DEF ConsumersOK

\* The oldest row of the batch is delivered for the first time, or is malformed.
LEMMA LoopTakesRow ==
  ASSUME StreamOK, ConsumersOK, NEW c \in Consumers, Bus!Row(c)
  PROVE  ConsumersOK'
  <1> DEFINE i == Bus!Oldest(rows[c])
  <1>1. LoopOK(c) /\ cursor[c] \in Nat /\ from[c] \in Nat /\ delivered[c] \in [Bus!Ids -> Nat]
        /\ rows[c] \in SUBSET Nat
    BY DEF ConsumersOK
  <1>2. i \in rows[c] /\ \A j \in rows[c] : i <= j
    BY <1>1, OldestIsLeast DEF Bus!Row
  <1>3. /\ cursor' = [cursor EXCEPT ![c] = i] /\ rows' = [rows EXCEPT ![c] = @ \ {i}]
        /\ delivered' = IF i \in malformed THEN delivered ELSE [delivered EXCEPT ![c][i] = @ + 1]
        /\ UNCHANGED <<first, last, malformed, from>>
    BY DEF Bus!Row, Bus!cursorOfRow, Bus!streamVars
  <1> HIDE DEF i
  <1>4. i \in Nat /\ i \in Bus!Ids /\ i > cursor[c] /\ i <= last /\ delivered[c][i] = 0
    BY <1>1, <1>2, BusAssumption DEF LoopOK, StreamOK, Bus!Ids
  <1>5. /\ cursor'[c] = i /\ rows'[c] = rows[c] \ {i}
        /\ delivered'[c] = IF i \in malformed THEN delivered[c] ELSE [delivered[c] EXCEPT ![i] = 1]
    BY <1>3, <1>4 DEF ConsumersOK
  <1>6. delivered'[c] \in [Bus!Ids -> Nat]
    <2>1. [delivered[c] EXCEPT ![i] = 1] \in [Bus!Ids -> Nat]
      BY <1>1
    <2>2. QED
      BY <1>1, <1>5, <2>1
  <1>7. \A k \in Bus!Ids : delivered'[c][k] = IF k = i /\ i \notin malformed THEN 1 ELSE delivered[c][k]
    BY <1>1, <1>5
  <1>8. LoopOK(c)'
    <2>1. /\ rows'[c] \subseteq 1..last /\ cursor'[c] <= last
          /\ \A j \in rows'[c] : j > cursor'[c]
      BY <1>1, <1>2, <1>4, <1>5 DEF LoopOK
    <2>2. \A k \in rows'[c], j \in Bus!Entries : cursor'[c] < j /\ j < k => j \in rows'[c]
      BY <1>1, <1>4, <1>5 DEF LoopOK, Bus!Entries, StreamOK
    <2>3. \A k \in Bus!Ids : k > cursor'[c] => delivered'[c][k] = 0
      BY <1>1, <1>4, <1>5, <1>7 DEF LoopOK, Bus!Ids
    <2>4. \A k \in Bus!Ids : delivered'[c][k] <= 1
      BY <1>1, <1>7 DEF LoopOK
    <2>5. ASSUME NEW k \in Bus!Ids \cap Bus!Entries, from[c] < k, k <= i
          PROVE  delivered'[c][k] = 1 \/ k \in malformed
      <3>1. CASE k <= cursor[c]
        BY <1>1, <1>4, <1>7, <2>5, <3>1 DEF LoopOK, Bus!Ids
      <3>2. CASE cursor[c] < k /\ k < i
        BY <1>1, <1>2, <2>5, <3>2 DEF LoopOK, Bus!Ids
      <3>3. CASE k = i
        BY <1>7, <3>3
      <3>4. QED
        BY <1>1, <1>4, <2>5, <3>1, <3>2, <3>3 DEF Bus!Ids
    <2>6. QED
      BY <1>3, <1>5, <2>1, <2>2, <2>3, <2>4, <2>5 DEF LoopOK, Bus!Entries, Bus!Ids
  <1>9. /\ cursor' = [cursor EXCEPT ![c] = cursor'[c]] /\ rows' = [rows EXCEPT ![c] = rows'[c]]
        /\ delivered' = [delivered EXCEPT ![c] = delivered'[c]] /\ from' = [from EXCEPT ![c] = from'[c]]
    BY <1>3, <1>5 DEF ConsumersOK
  <1>10. QED
    BY <1>1, <1>3, <1>4, <1>5, <1>6, <1>8, <1>9, OneLoop

\* A handler that throws gives up the rest of its batch.
LEMMA LoopThrows ==
  ASSUME StreamOK, ConsumersOK, NEW c \in Consumers,
         Bus!HandlerThrows(c)
  PROVE  ConsumersOK'
  <1>1. rows' = [rows EXCEPT ![c] = {}] /\ UNCHANGED <<first, last, malformed, from, cursor, delivered>>
    BY DEF Bus!HandlerThrows, Bus!streamVars
  <1>2. rows'[c] = {} /\ \A d \in Consumers \ {c} : rows'[d] = rows[d]
    BY <1>1 DEF ConsumersOK
  <1>3. ASSUME NEW d \in Consumers PROVE LoopOK(d)'
    BY <1>1, <1>2 DEF ConsumersOK, LoopOK, Bus!Entries, Bus!Ids
  <1>4. QED
    BY <1>1, <1>3 DEF ConsumersOK

\* Nothing of the archive changes.
LEMMA ArchiveRests ==
  ASSUME ArchiveOK, UNCHANGED <<maxLen, first, last, malformed, archiving, archived>>
  PROVE  ArchiveOK'
  BY DEF ArchiveOK, Stored

\* An archive that begins or is given up has stored nothing of its own.
LEMMA ArchiveStarts ==
  ASSUME StreamOK, ArchiveOK, Bus!ArchiveStart \/ Bus!ArchiveThrows
  PROVE  ArchiveOK'
  <1>1. PICK cutoff \in Nat, active \in BOOLEAN :
          archiving' = [active |-> active, cutoff |-> cutoff, cursor |-> 0, lastId |-> 0, rows |-> {}]
    <2>1. CASE Bus!ArchiveStart
      <3>1. PICK cutoff \in first..last :
              archiving' = [[active |-> FALSE, cutoff |-> 0, cursor |-> 0, lastId |-> 0, rows |-> {}]
                             EXCEPT !.active = TRUE, !.cutoff = cutoff]
        BY <2>1 DEF Bus!ArchiveStart, Bus!Idle, Bus!Entries
      <3>2. archiving' = [active |-> TRUE, cutoff |-> cutoff, cursor |-> 0, lastId |-> 0, rows |-> {}]
        BY <3>1
      <3>3. cutoff \in Nat
        BY <3>1 DEF StreamOK
      <3>4. QED
        BY <3>2, <3>3
    <2>2. CASE Bus!ArchiveThrows
      BY <2>2 DEF Bus!ArchiveThrows, Bus!Idle
    <2>3. QED
      BY <2>1, <2>2
  <1>2. UNCHANGED <<maxLen, first, last, malformed, archived>>
    BY DEF Bus!ArchiveStart, Bus!ArchiveThrows, Bus!streamVars
  <1>3. QED
    BY <1>1, <1>2 DEF ArchiveOK, Stored, StreamOK

\* A batch of the archive leaves out nothing between the old cursor and the new one.
LEMMA ArchiveTakesBatch ==
  ASSUME StreamOK, ArchiveOK, Bus!ArchiveBatch
  PROVE  ArchiveOK'
  <1> DEFINE batch == Bus!FirstOf(Bus!toArchive, BatchSize)
             latest == CHOOSE i \in batch : \A j \in batch : j <= i
  <1>1. Bus!toArchive \in SUBSET Nat /\ IsFiniteSet(Bus!toArchive)
    <2>1. first \in Int /\ last \in Int /\ first..last \in SUBSET Nat
      BY DEF StreamOK
    <2>2. IsFiniteSet(first..last)
      BY <2>1, FS_Interval
    <2>3. Bus!toArchive \in SUBSET (first..last)
      BY DEF Bus!toArchive, Bus!Entries
    <2>4. QED
      BY <2>1, <2>2, <2>3, FS_Subset
  <1>2. /\ batch \subseteq Bus!toArchive /\ batch # {}
        /\ \A i \in batch : \A j \in Bus!toArchive : j < i => j \in batch
    BY <1>1, FirstOfSet DEF Bus!ArchiveBatch
  <1>3. /\ archiving' = [archiving EXCEPT !.rows = batch, !.cursor = latest]
        /\ UNCHANGED <<maxLen, first, last, malformed, archived>> /\ archiving.rows = {}
    BY DEF Bus!ArchiveBatch, Bus!streamVars
  <1>4. \A i \in batch : i \in first..last /\ archiving.cursor < i /\ i <= archiving.cutoff
    BY <1>2 DEF Bus!toArchive, Bus!Entries
  <1>5. latest \in batch /\ \A j \in batch : j <= latest
    <2>1. batch \in SUBSET Nat /\ \A i \in batch : i <= last
      BY <1>1, <1>2, <1>4 DEF StreamOK
    <2> HIDE DEF batch
    <2>2. \E i \in batch : \A j \in batch : j <= i
      BY <1>2, <2>1, LargestExists DEF StreamOK
    <2>3. QED
      BY <2>2
  <1> HIDE DEF batch, latest
  <1>6. archiving.cursor \in Nat /\ archiving.cutoff \in Nat
    BY DEF ArchiveOK
  <1>7. latest \in Nat /\ latest <= last /\ archiving.cursor < latest /\ latest <= archiving.cutoff
    BY <1>4, <1>5 DEF StreamOK
  <1>8. batch \subseteq 1..latest
    BY <1>4, <1>5, <1>7 DEF StreamOK
  <1>9. ASSUME maxLen = 0, NEW i \in 1..latest PROVE i \in batch \/ Stored(i)
    <2>1. CASE i <= archiving.cursor \/ i < first
      BY <1>3, <1>6, <1>7, <1>9, <2>1 DEF ArchiveOK, StreamOK
    <2>2. CASE archiving.cursor < i /\ first <= i
      <3>1. i \in Bus!toArchive
        BY <1>6, <1>7, <2>2 DEF Bus!toArchive, Bus!Entries, StreamOK
      <3>2. QED
        BY <1>2, <1>5, <1>7, <3>1
    <2>3. QED
      BY <1>6, <2>1, <2>2 DEF StreamOK
  <1>10. archiving' \in [active : BOOLEAN, cutoff : Nat, cursor : Nat, lastId : Nat, rows : SUBSET Nat]
    BY <1>1, <1>2, <1>3, <1>7 DEF ArchiveOK
  <1>11. archiving'.rows = batch /\ archiving'.cursor = latest /\ archiving'.lastId = archiving.lastId
    BY <1>3 DEF ArchiveOK
  <1>12. QED
    BY <1>3, <1>6, <1>7, <1>8, <1>9, <1>10, <1>11 DEF ArchiveOK, Stored

\* An entry that leaves the batch is stored or malformed.
LEMMA ArchiveStores ==
  ASSUME StreamOK, ArchiveOK, Bus!ArchiveOne
  PROVE  ArchiveOK'
  <1> DEFINE i == Bus!Oldest(archiving.rows)
  <1>1. i \in archiving.rows
    BY OldestIsLeast DEF ArchiveOK, Bus!ArchiveOne
  <1>2. /\ archiving' = [archiving EXCEPT !.rows = @ \ {i}, !.lastId = IF i \notin malformed THEN i ELSE @]
        /\ archived' = IF i \notin malformed THEN archived \cup {i} ELSE archived
        /\ UNCHANGED <<maxLen, first, last, malformed>>
    BY DEF Bus!ArchiveOne, Bus!streamVars
  <1> HIDE DEF i
  <1>3. /\ archiving'.rows = archiving.rows \ {i} /\ archiving'.cursor = archiving.cursor
        /\ archiving'.lastId \in {i, archiving.lastId}
    BY <1>2 DEF ArchiveOK
  <1>4. /\ i \in Nat /\ i <= archiving.cursor
        /\ i \in malformed' \/ i \in archived'
        /\ malformed \subseteq malformed' /\ archived \subseteq archived'
    <2>1. i \in Nat /\ i <= archiving.cursor
      BY <1>1 DEF ArchiveOK
    <2>2. malformed \subseteq malformed' /\ archived \subseteq archived'
      BY <1>2
    <2>3. i \in malformed' \/ i \in archived'
      BY <1>2
    <2>4. QED
      BY <2>1, <2>2, <2>3
  <1>5. archiving' \in [active : BOOLEAN, cutoff : Nat, cursor : Nat, lastId : Nat, rows : SUBSET Nat]
    BY <1>2, <1>4 DEF ArchiveOK
  <1>6. QED
    <2>1. /\ archiving'.rows \subseteq 1..archiving'.cursor
          /\ archiving'.lastId <= archiving'.cursor /\ archiving'.cursor <= last'
      BY <1>2, <1>3, <1>4 DEF ArchiveOK
    <2>2. ASSUME maxLen = 0, NEW j \in 1..archiving'.cursor
          PROVE  j \in archiving'.rows \/ Stored(j)'
      BY <1>3, <1>4, <2>2 DEF ArchiveOK, Stored
    <2>3. ASSUME maxLen = 0, NEW j \in 1..first - 1 PROVE Stored(j)'
      BY <1>4, <2>3 DEF ArchiveOK, Stored
    <2>4. QED
      BY <1>2, <1>5, <2>1, <2>2, <2>3 DEF ArchiveOK

\* The cut is within what is stored.
LEMMA ArchiveCuts ==
  ASSUME StreamOK, ArchiveOK, Bus!ArchiveTrim
  PROVE  ArchiveOK' /\ first' \in Nat /\ first' >= first
  <1>1. /\ first' = IF archiving.lastId > first THEN archiving.lastId ELSE first
        /\ archiving' = [active |-> FALSE, cutoff |-> 0, cursor |-> 0, lastId |-> 0, rows |-> {}]
        /\ archiving.rows = {} /\ UNCHANGED <<maxLen, last, malformed, archived>>
    BY DEF Bus!ArchiveTrim, Bus!Idle
  <1>2. archiving.lastId \in Nat /\ archiving.cursor \in Nat /\ archiving.lastId <= archiving.cursor
    BY DEF ArchiveOK
  <1>3. maxLen = 0 => \A i \in 1..first' - 1 : Stored(i)
    BY <1>1, <1>2 DEF ArchiveOK, StreamOK
  <1>4. QED
    BY <1>1, <1>2, <1>3 DEF ArchiveOK, Stored, StreamOK

\* The invariant of the stream.
BusIInv == StreamOK /\ ConsumersOK /\ ArchiveOK

\* Every step of the publishers, the loops and the archive keeps it.
LEMMA BusStep == BusIInv /\ [Bus!Next]_(Bus!busVars) => BusIInv'
  <1> SUFFICES ASSUME BusIInv, [Bus!Next]_(Bus!busVars) PROVE BusIInv'
    OBVIOUS
  <1> USE DEF BusIInv
  <1>1. CASE Bus!Publish
    BY <1>1, StreamGrows
  <1>2. ASSUME UNCHANGED <<maxLen, first, last, malformed, archiving, archived>>
        PROVE  StreamOK' /\ ArchiveOK'
    BY <1>2, ArchiveRests DEF StreamOK
  <1>3. ASSUME UNCHANGED <<first, last, malformed, from, cursor, rows, delivered>>
        PROVE  StreamOK' /\ ConsumersOK'
    BY <1>3, LoopsRest DEF StreamOK
  <1>4. CASE Bus!ArchiveStart \/ Bus!ArchiveThrows
    <2>1. UNCHANGED <<first, last, malformed, from, cursor, rows, delivered>>
      BY <1>4 DEF Bus!ArchiveStart, Bus!ArchiveThrows, Bus!streamVars, Bus!loopVars
    <2>2. QED
      BY <1>3, <1>4, <2>1, ArchiveStarts
  <1>5. CASE Bus!ArchiveBatch
    <2>1. UNCHANGED <<first, last, malformed, from, cursor, rows, delivered>>
      BY <1>5 DEF Bus!ArchiveBatch, Bus!streamVars, Bus!loopVars
    <2>2. QED
      BY <1>3, <1>5, <2>1, ArchiveTakesBatch
  <1>6. CASE Bus!ArchiveOne
    <2>1. UNCHANGED <<first, last, malformed, from, cursor, rows, delivered>>
      BY <1>6 DEF Bus!ArchiveOne, Bus!streamVars, Bus!loopVars
    <2>2. QED
      BY <1>3, <1>6, <2>1, ArchiveStores
  <1>7. CASE Bus!ArchiveTrim
    <2>1. UNCHANGED <<last, malformed, from, cursor, rows, delivered>>
      BY <1>7 DEF Bus!ArchiveTrim, Bus!loopVars
    <2>2. ArchiveOK' /\ first' \in Nat /\ first' >= first
      BY <1>7, ArchiveCuts
    <2>3. QED
      BY <2>1, <2>2, LoopsRest DEF StreamOK
  <1>8. ASSUME NEW c \in Consumers, NEW start \in {0, last}, Bus!Begin(c, start) PROVE BusIInv'
    <2>1. UNCHANGED <<maxLen, first, last, malformed, archiving, archived>>
      BY <1>8 DEF Bus!Begin, Bus!streamVars, Bus!archVars
    <2>2. QED
      BY <1>2, <1>8, <2>1, LoopBegins
  <1>9. ASSUME NEW c \in Consumers, Bus!Subscribe(c) \/ Bus!TailUnknown(c) PROVE BusIInv'
    BY <1>8, <1>9 DEF Bus!Subscribe, Bus!TailUnknown
  <1>10. ASSUME NEW c \in Consumers, Bus!Poll(c) PROVE BusIInv'
    <2>1. UNCHANGED <<maxLen, first, last, malformed, archiving, archived>>
      BY <1>10 DEF Bus!Poll, Bus!streamVars, Bus!archVars
    <2>2. QED
      BY <1>2, <1>10, <2>1, LoopPolls
  <1>11. ASSUME NEW c \in Consumers, Bus!Row(c) PROVE BusIInv'
    <2>1. UNCHANGED <<maxLen, first, last, malformed, archiving, archived>>
      BY <1>11 DEF Bus!Row, Bus!streamVars, Bus!archVars
    <2>2. QED
      BY <1>2, <1>11, <2>1, LoopTakesRow
  <1>12. ASSUME NEW c \in Consumers, Bus!HandlerThrows(c) PROVE BusIInv'
    <2>1. UNCHANGED <<maxLen, first, last, malformed, archiving, archived>>
      BY <1>12 DEF Bus!HandlerThrows, Bus!streamVars, Bus!archVars
    <2>2. QED
      BY <1>2, <1>12, <2>1, LoopThrows
  <1>13. ASSUME NEW c \in Consumers,
                \/ Bus!PollFails(c) \/ Bus!HandlerReturns(c) \/ Bus!Again(c)
                \/ Bus!Stop(c) \/ Bus!Ended(c) \/ Bus!Killed(c)
         PROVE  BusIInv'
    <2>1. UNCHANGED <<maxLen, first, last, malformed, archiving, archived, from, cursor, rows, delivered>>
      BY <1>13 DEF Bus!PollFails, Bus!HandlerReturns, Bus!Again, Bus!Stop, Bus!Ended, Bus!Killed,
         Bus!streamVars, Bus!archVars
    <2>2. QED
      BY <1>2, <1>3, <2>1
  <1>14. CASE UNCHANGED Bus!busVars
    BY <1>2, <1>3, <1>14 DEF Bus!busVars, Bus!streamVars, Bus!loopVars, Bus!archVars
  <1>15. QED
    BY <1>1, <1>4, <1>5, <1>6, <1>7, <1>9, <1>10, <1>11, <1>12, <1>13, <1>14 DEF Bus!Next, Bus!Archive

\* It holds in every behaviour of the services.
LEMMA BusHolds == Safety => []BusIInv
  <1>1. Bus!Init => BusIInv
    <2> SUFFICES ASSUME Bus!Init PROVE BusIInv
      OBVIOUS
    <2>1. StreamOK /\ ArchiveOK
      BY BusAssumption DEF Bus!Init, StreamOK, ArchiveOK, Bus!Idle
    <2>2. ConsumersOK
      BY DEF Bus!Init, ConsumersOK, LoopOK, Bus!Ids, Bus!Entries
    <2>3. QED
      BY <2>1, <2>2 DEF BusIInv
  <1>2. BusIInv /\ [Bus!Next]_(Bus!busVars) => BusIInv'
    BY BusStep
  <1>3. QED
    BY <1>1, <1>2, BusRuns, PTL

\* Every consumer of a stream is given each entry at most once and passes over none that is still
\* in the stream, for any number of consumers, batch size, cap of the stream and failures of
\* Redis and of handlers (consume() of RedisEventBus).
THEOREM EntriesDeliveredOnce == Safety => []DeliveredOnce
  <1>1. BusIInv => DeliveredOnce
    BY DEF BusIInv, ConsumersOK, LoopOK, DeliveredOnce, Bus!DeliveredOnce
  <1>2. Safety => []BusIInv
    BY BusHolds
  <1>3. QED
    BY <1>1, <1>2, PTL

\* The audit archive cuts nothing it has not stored, whatever its batches and failures
\* (archiveAuditStream).
THEOREM AuditsArchivedBeforeCut == Safety => []ArchivedBeforeCut
  <1>1. BusIInv => ArchivedBeforeCut
    BY DEF BusIInv, ArchiveOK, Stored, ArchivedBeforeCut, Bus!ArchivedBeforeCut
  <1>2. Safety => []BusIInv
    BY BusHolds
  <1>3. QED
    BY <1>1, <1>2, PTL

-------------------------------------------------------------------------------
(* The desk's mode and its copies                                             *)

\* Every behaviour of the services is one of the mode and its copies, or leaves them at rest.
LEMMA MirrorRuns == Safety => Mirror!Init /\ [][Mirror!Next]_(Mirror!mirrorVars)
  <1>1. MCInit => Mirror!Init
    BY DEF MCInit
  <1>2. [MCNext]_mcVars => [Mirror!Next]_(Mirror!mirrorVars)
    BY DEF MCNext, Rest, On, mcVars, mirrorVars, Mirror!mirrorVars
  <1>3. QED
    BY <1>1, <1>2, PTL DEF Safety

\* The API has handled what the runtime has announced.
CaughtUp == announced /\ readTo = Len(updates)

\* The types of the mode and its copies.
MirrorTypes ==
  /\ updates \in Seq(DeskModes) /\ updates # <<>> /\ readTo \in 0..Len(updates)
  /\ writes \in Seq(DeskModes \cup {"lost"})
  /\ rtMode \in DeskModes /\ newest \in DeskModes /\ announced \in BOOLEAN
  /\ apiPhase \in {"down", "connecting", "hydrating", "up"}
  /\ apiPhase = "hydrating" => hydrated \in DeskModes
  /\ apiPhase = "up" => snapshot \in DeskModes

\* The write of the API that was issued last.
LastWrite == writes[Len(writes)]

\* Once the API has caught up, the row that will be the newest when all writes have landed is
\* the API's mode or the runtime's; while the API hydrates, the mode it read or the runtime's.
MirrorIInv ==
  /\ MirrorTypes
  /\ announced => updates[Len(updates)] = rtMode
  /\ apiPhase \in {"down", "connecting"} => writes = <<>>
  /\ CaughtUp /\ apiPhase = "hydrating" =>
       IF writes = <<>> THEN newest \in {hydrated, rtMode} ELSE LastWrite \in {rtMode, "lost"}
  /\ CaughtUp /\ apiPhase = "up" =>
       IF writes = <<>> THEN newest \in {snapshot, rtMode} ELSE LastWrite \in {snapshot, rtMode, "lost"}

\* What an appended sequence ends with.
LEMMA Appended ==
  ASSUME NEW S, NEW s \in Seq(S), NEW e \in S
  PROVE  /\ Append(s, e) \in Seq(S) /\ Append(s, e) # <<>> /\ Len(Append(s, e)) = Len(s) + 1
         /\ Append(s, e)[Len(Append(s, e))] = e
  BY AppendProperties

\* What is left of a sequence after one of its elements ends as the sequence does.
LEMMA CutAfter ==
  ASSUME NEW S, NEW s \in Seq(S), NEW i \in 1..Len(s)
  PROVE  /\ SubSeq(s, i + 1, Len(s)) \in Seq(S)
         /\ i = Len(s) => SubSeq(s, i + 1, Len(s)) = <<>>
         /\ i # Len(s) => /\ SubSeq(s, i + 1, Len(s)) # <<>>
                          /\ SubSeq(s, i + 1, Len(s))[Len(SubSeq(s, i + 1, Len(s)))] = s[Len(s)]
  <1> DEFINE t == SubSeq(s, i + 1, Len(s))
  <1>1. /\ t \in Seq(S) /\ Len(t) = IF i + 1 <= Len(s) THEN Len(s) - i ELSE 0
        /\ \A j \in 1..Len(s) - i : t[j] = s[i + j]
    <2>1. Len(s) \in Nat /\ i + 1 \in Int /\ \A j \in i + 1..Len(s) : s[j] \in S
      BY LenProperties
    <2> HIDE DEF t
    <2>2. QED
      BY <2>1, SubSeqProperties DEF t
  <1>2. i = Len(s) => t = <<>>
    BY <1>1, LenProperties, EmptySeq
  <1>3. i # Len(s) => t # <<>> /\ t[Len(t)] = s[Len(s)]
    <2> HIDE DEF t
    <2>1. ASSUME i # Len(s) PROVE Len(t) = Len(s) - i /\ Len(s) - i \in 1..Len(s) - i
      BY <1>1, <2>1, LenProperties
    <2>2. ASSUME i # Len(s) PROVE t # <<>>
      BY <2>1, <2>2, EmptySeq
    <2>3. ASSUME i # Len(s) PROVE t[Len(t)] = s[i + (Len(s) - i)]
      BY <1>1, <2>1, <2>3
    <2>4. i + (Len(s) - i) = Len(s)
      BY LenProperties
    <2>5. QED
      BY <2>2, <2>3, <2>4
  <1>4. QED
    BY <1>1, <1>2, <1>3

\* Every step of the runtime, the API and the database keeps the invariant.
LEMMA MirrorStep == MirrorIInv /\ [Mirror!Next]_(Mirror!mirrorVars) => MirrorIInv'
  <1> SUFFICES ASSUME MirrorIInv, [Mirror!Next]_(Mirror!mirrorVars) PROVE MirrorIInv'
    OBVIOUS
  <1> USE DEF MirrorIInv, MirrorTypes, CaughtUp, LastWrite, Mirror!Upset
  <1>1. ASSUME NEW m \in DeskModes, Mirror!SetMode(m) PROVE MirrorIInv'
    BY <1>1, EmptySeq DEF Mirror!SetMode
  <1>2. CASE Mirror!Publish
    BY <1>2 DEF Mirror!Publish
  <1>3. CASE Mirror!Cycle
    BY <1>3 DEF Mirror!Cycle
  <1>4. CASE Mirror!RuntimeRestart
    BY <1>4, EmptySeq DEF Mirror!RuntimeRestart
  <1>5. CASE Mirror!ApiStart
    BY <1>5 DEF Mirror!ApiStart
  <1>6. CASE Mirror!Consume
    BY <1>6, Appended DEF Mirror!Consume, Mirror!SetSnapshot
  <1>7. CASE Mirror!Connected
    BY <1>7 DEF Mirror!Connected
  <1>8. CASE Mirror!Hydrate
    BY <1>8 DEF Mirror!Hydrate
  <1>9. CASE Mirror!PatchRisk
    <2>1. writes' = Append(writes, snapshot) /\ UNCHANGED <<rtMode, announced, updates, apiPhase, readTo,
                                                           hydrated, newest, snapshot>> /\ apiPhase = "up"
      BY <1>9 DEF Mirror!PatchRisk, Mirror!SetSnapshot
    <2>2. writes' \in Seq(DeskModes \cup {"lost"}) /\ writes' # <<>> /\ LastWrite' = snapshot
      BY <2>1, Appended
    <2>3. MirrorTypes'
      BY <2>1, <2>2
    <2>4. announced' => updates'[Len(updates')] = rtMode'
      BY <2>1
    <2> HIDE DEF LastWrite, MirrorTypes
    <2>5. QED
      BY <2>1, <2>2, <2>3, <2>4
  <1>10. CASE Mirror!Insert
    <2>1. PICK i \in 1..Len(writes) : /\ writes[i] # "lost" /\ newest' = writes[i]
                                      /\ writes' = SubSeq(writes, i + 1, Len(writes))
      BY <1>10 DEF Mirror!Insert, Mirror!stillNewer
    <2>2. newest' \in DeskModes
      BY <2>1, ElementOfSeq
    <2>3. /\ writes' \in Seq(DeskModes \cup {"lost"})
          /\ i = Len(writes) => writes' = <<>>
          /\ i # Len(writes) => writes' # <<>> /\ LastWrite' = LastWrite
      <3>1. writes \in Seq(DeskModes \cup {"lost"})
        OBVIOUS
      <3> HIDE DEF MirrorIInv, MirrorTypes, CaughtUp
      <3>2. QED
        BY <2>1, <3>1, CutAfter
    <2>4. writes # <<>>
      BY <2>1
    <2>5. QED
      BY <1>10, <2>1, <2>2, <2>3, <2>4 DEF Mirror!Insert
  <1>11. CASE Mirror!InsertFails
    BY <1>11 DEF Mirror!InsertFails
  <1>12. CASE Mirror!ApiKilled
    BY <1>12 DEF Mirror!ApiKilled
  <1>13. CASE UNCHANGED Mirror!mirrorVars
    BY <1>13 DEF Mirror!mirrorVars
  <1>14. QED
    BY <1>1, <1>2, <1>3, <1>4, <1>5, <1>6, <1>7, <1>8, <1>9, <1>10, <1>11, <1>12, <1>13
       DEF Mirror!Next

\* When the API has caught up, has no write on its way and shows the runtime's mode, the newest
\* row, from which a restart of the runtime resumes, is that mode: for any set of modes and any
\* number of writes that land in any order or fail, and of restarts of both processes.
THEOREM StoredModeIsTheDesks == Safety => []RowIsModeWhenCaughtUp
  <1>1. Mirror!Init => MirrorIInv
    BY DEF Mirror!Init, MirrorIInv, MirrorTypes, CaughtUp, LastWrite
  <1>2. MirrorIInv => RowIsModeWhenCaughtUp
    BY DEF MirrorIInv, CaughtUp, RowIsModeWhenCaughtUp, Mirror!RowIsModeWhenCaughtUp
  <1>3. QED
    BY <1>1, <1>2, MirrorStep, MirrorRuns, PTL
===============================================================================
