---------------------------- MODULE StorageProofs ----------------------------
(***************************************************************************)
(* What the server keeps on disk survives failing writes, crashes and      *)
(* restarts: the invariant of Storage and what was acknowledged, for every *)
(* number of resources, calls, starts and faults.                          *)
(***************************************************************************)
EXTENDS Storage, FiniteSetTheorems, SequenceTheorems, TLAPS

Ats == {"idle", "append", "snapshot", "cleanup", "save", "delete"}
Ops == [at : Ats, kind : Kinds \cup {"none"}, key : Keys \cup {"none"},
        todo : SUBSET Types, ok : BOOLEAN]
Acks == [Keys -> {"in", "out", "any"}]

(* The parts of the type invariant that the store's own steps change, and  *)
(* those of the persist plugin.                                            *)
StoreTypes ==
    /\ up \in {"down", "run", "closing"} /\ op \in Ops
    /\ lines \in Seq(Nat) /\ tail \in BOOLEAN
    /\ sequence \in Nat /\ count \in Nat /\ eventCount \in 0..(Interval - 1)
    /\ snaps \subseteq Snapshots /\ latest \in snaps \cup {NoSnap}
    /\ mem \in [Types -> (SUBSET Keys) \cup {NoFile}]
    /\ file \in [Types -> (SUBSET Keys) \cup {NoFile, TornFile}]
    /\ starts \in 0..MaxStarts /\ ack \in Acks /\ clean \in BOOLEAN

TagTypes ==
    /\ run \in {"off", "restore", "select", "debounce", "flush", "write", "ended"}
    /\ dirty \in BOOLEAN
    /\ work \in 0..MaxWork /\ tag \in 0..work /\ out \in 0..work
    /\ saved \in 0..work /\ tagFile \in (0..work) \cup {Torn} /\ spoiled \in BOOLEAN
    /\ faults \in 0..MaxFaults

LEMMA TypeParts == TypeOK <=> StoreTypes /\ TagTypes
  BY DEF TypeOK, StoreTypes, TagTypes, Ops, Ats, Acks

LEMMA IdleFacts ==
  /\ Idle \in Ops /\ Idle.at = "idle" /\ Idle.kind = "none" /\ Idle.key = "none"
  /\ Idle.todo = {} /\ Idle.ok = TRUE
  BY DEF Idle, Ops, Ats

(* The call under way moves on to another access to the disk.              *)
LEMMA AtFacts ==
  ASSUME op \in Ops, NEW x \in Ats, op' = [op EXCEPT !.at = x]
  PROVE  /\ op' \in Ops /\ op'.at = x /\ op'.kind = op.kind /\ op'.key = op.key
         /\ op'.todo = op.todo /\ op'.ok = op.ok
  BY DEF Ops

(* A call that has begun.                                                  *)
LEMMA BeginFacts ==
  ASSUME NEW kind \in Kinds, NEW k \in Keys, NEW at \in Ats, Begin(kind, k, at)
  PROVE  /\ up = "run" /\ op = Idle /\ op' \in Ops
         /\ op'.at = at /\ op'.kind = kind /\ op'.key = k
         /\ ack' = [ack EXCEPT ![k] = "any"] /\ clean' = FALSE
         /\ UNCHANGED <<up, logVars, snapVars, metaVars, starts>>
  BY DEF Begin, Idle, Ops

(* What follows the log and the snapshot: a deletion returns nil, another  *)
(* call goes on to save.                                                   *)
LEMMA ContinueFacts ==
  ASSUME StoreTypes, CallInStep, NEW ok \in BOOLEAN, Continue(ok)
  PROVE  /\ op' \in Ops /\ ack' \in Acks
         /\ \/ /\ op.kind = "delete" /\ op' = Idle
               /\ ack' = [ack EXCEPT ![op.key] = "out"]
            \/ /\ op.kind # "delete" /\ op'.at = "save" /\ op'.kind = op.kind
               /\ op'.key = op.key /\ op'.todo = op.todo /\ op'.ok = (op.ok /\ ok)
               /\ UNCHANGED ack
  <1>1. CASE op.kind = "delete"
    <2>1. op' = Idle /\ ack' = [ack EXCEPT ![op.key] = "out"]
      BY <1>1 DEF Continue, Returns
    <2> QED
      BY <1>1, <2>1, IdleFacts DEF StoreTypes, Acks
  <1>2. CASE op.kind # "delete"
    <2>1. op' = [op EXCEPT !.at = "save", !.ok = op.ok /\ ok] /\ UNCHANGED ack
      BY <1>2 DEF Continue
    <2>2. op \in Ops /\ op.ok \in BOOLEAN /\ (op.ok /\ ok) \in BOOLEAN
      BY DEF StoreTypes, Ops
    <2>3. /\ op' \in Ops /\ op'.at = "save" /\ op'.kind = op.kind
          /\ op'.key = op.key /\ op'.todo = op.todo /\ op'.ok = (op.ok /\ ok)
      BY <2>1, <2>2 DEF Ops, Ats
    <2> QED
      BY <1>2, <2>1, <2>3 DEF StoreTypes
  <1> QED
    BY <1>1, <1>2

-----------------------------------------------------------------------------
(* The log.  A write appends a line with a number that is greater than all *)
(* others, or one that does not parse, or completes the last line, which   *)
(* does not parse either way.                                              *)
LEMMA LineFacts ==
  ASSUME lines \in Seq(Nat), tail \in BOOLEAN, LogInStep, LogIsOrdered,
         NEW n \in Nat, n = Garbage \/ \A i \in DOMAIN lines : lines[i] < n,
         lines' = Line(n)
  PROVE  /\ lines' \in Seq(Nat) /\ lines' # <<>>
         /\ n = Garbage => lines'[Len(lines')] = Garbage
         /\ \A i \in DOMAIN lines' : lines'[i] = n \/ (i \in DOMAIN lines /\ lines'[i] = lines[i])
         /\ LogIsOrdered'
         /\ (\E m \in GoodSet(lines) \cup {0} : \A x \in GoodSet(lines) : x <= m)'
  <1>0. /\ Len(lines) \in Nat /\ DOMAIN lines = 1..Len(lines)
        /\ \A i \in 1..Len(lines) : lines[i] \in Nat
    BY LenProperties, ElementOfSeq
  <1>1. CASE tail
    <2>1. lines # <<>> /\ lines[Len(lines)] = Garbage
      BY <1>1 DEF LogInStep
    <2>2. Len(lines) \in DOMAIN lines
      BY <1>0, <2>1, EmptySeq
    <2>3. lines' = lines
      BY <1>1, <2>1, <2>2 DEF Line
    <2>4. (\E m \in GoodSet(lines) \cup {0} : \A x \in GoodSet(lines) : x <= m)'
      BY <2>3 DEF LogInStep, GoodSet, Good
    <2>5. LogIsOrdered'
      BY <2>3 DEF LogIsOrdered
    <2> QED
      BY <2>1, <2>3, <2>4, <2>5
  <1>2. CASE ~tail
    <2>1. lines' = Append(lines, n)
      BY <1>2 DEF Line
    <2>2. /\ lines' \in Seq(Nat) /\ Len(lines') = Len(lines) + 1 /\ lines' # <<>>
          /\ lines'[Len(lines) + 1] = n
          /\ \A i \in 1..Len(lines) : lines'[i] = lines[i]
      BY <2>1, AppendProperties
    <2>3. DOMAIN lines' = 1..(Len(lines) + 1)
      BY <2>2, LenProperties
    <2>4. \A i \in DOMAIN lines' : \/ i = Len(lines) + 1 /\ lines'[i] = n
                                   \/ i \in DOMAIN lines /\ lines'[i] = lines[i]
      <3> TAKE i \in DOMAIN lines'
      <3>1. i = Len(lines) + 1 \/ i \in 1..Len(lines)
        BY <1>0, <2>3
      <3> QED
        BY <1>0, <2>2, <3>1
    <2>5. LogIsOrdered'
      <3> SUFFICES ASSUME NEW i \in DOMAIN lines', NEW j \in DOMAIN lines', i < j,
                          lines'[i] # Garbage, lines'[j] # Garbage
                   PROVE  lines'[i] < lines'[j]
        BY DEF LogIsOrdered
      <3>1. i \in DOMAIN lines /\ lines'[i] = lines[i]
        <4>1. i \in 1..(Len(lines) + 1) /\ j \in 1..(Len(lines) + 1)
          BY <2>3
        <4>2. i # Len(lines) + 1
          BY <1>0, <4>1
        <4> QED
          BY <2>4, <4>2
      <3>2. CASE j \in DOMAIN lines /\ lines'[j] = lines[j]
        BY <3>1, <3>2 DEF LogIsOrdered
      <3>3. CASE lines'[j] = n
        BY <3>1, <3>3
      <3> QED
        BY <2>4, <3>2, <3>3
    <2>6. (\E m \in GoodSet(lines) \cup {0} : \A x \in GoodSet(lines) : x <= m)'
      <3>1. PICK m \in GoodSet(lines) \cup {0} : \A x \in GoodSet(lines) : x <= m
        BY DEF LogInStep
      <3>2. \A x \in GoodSet(lines') : x = n \/ x \in GoodSet(lines)
        BY <2>4 DEF GoodSet, Good
      <3>3. \A x \in GoodSet(lines) : x \in GoodSet(lines') /\ x \in Nat
        <4>1. \A i \in DOMAIN lines : i \in DOMAIN lines' /\ lines'[i] = lines[i]
          BY <1>0, <2>2, <2>3
        <4> QED
          BY <1>0, <4>1 DEF GoodSet, Good
      <3>4. CASE n = Garbage
        <4>1. \A x \in GoodSet(lines') : x # n
          BY <3>4 DEF GoodSet, Good
        <4>2. m \in GoodSet(lines') \cup {0} /\ \A x \in GoodSet(lines') : x <= m
          BY <3>1, <3>2, <3>3, <4>1
        <4> QED
          BY <4>2 DEF GoodSet, Good
      <3>5. CASE n # Garbage
        <4>1. n \in GoodSet(lines')
          <5>1. Len(lines) + 1 \in DOMAIN lines'
            BY <1>0, <2>3
          <5> QED
            BY <2>2, <3>5, <5>1 DEF GoodSet, Good
        <4>2. \A x \in GoodSet(lines) : x <= n
          BY <1>0, <3>5 DEF GoodSet, Good
        <4>3. \A x \in GoodSet(lines') : x <= n
          BY <3>2, <4>2
        <4> QED
          BY <4>1, <4>3 DEF GoodSet, Good
      <3> QED
        BY <3>4, <3>5
    <2> QED
      BY <2>2, <2>4, <2>5, <2>6
  <1> QED
    BY <1>1, <1>2

(* A start goes on after the greatest number of the log.                   *)
LEMMA LastNumberFacts ==
  ASSUME lines \in Seq(Nat), LogInStep
  PROVE  /\ LastNumber \in Nat
         /\ \A i \in DOMAIN lines : lines[i] <= LastNumber
         /\ Cardinality(Good(lines)) \in Nat
  <1>0. /\ Len(lines) \in Nat /\ DOMAIN lines = 1..Len(lines)
        /\ \A i \in 1..Len(lines) : lines[i] \in Nat
    BY LenProperties, ElementOfSeq
  <1>1. PICK m \in GoodSet(lines) \cup {0} : \A x \in GoodSet(lines) : x <= m
    BY DEF LogInStep
  <1> DEFINE S == GoodSet(lines) \cup {0}
  <1>2. S \subseteq Nat
    BY <1>0 DEF GoodSet, Good
  <1>3. m \in S /\ \A x \in S : m >= x
    BY <1>1, <1>2
  <1> HIDE DEF S
  <1>4. Max(S) \in S /\ \A x \in S : Max(S) >= x
    BY <1>3 DEF Max
  <1>5. LastNumber = Max(S)
    BY DEF LastNumber, S
  <1>6. \A i \in DOMAIN lines : lines[i] \in S
    BY DEF S, GoodSet, Good, Garbage
  <1>7. IsFiniteSet(Good(lines))
    <2>1. IsFiniteSet(1..Len(lines)) /\ Good(lines) \subseteq 1..Len(lines)
      BY <1>0, FS_Interval DEF Good
    <2> QED
      BY <2>1, FS_Subset
  <1>8. Cardinality(Good(lines)) \in Nat
    BY <1>7, FS_CardinalityType
  <1> QED
    BY <1>2, <1>4, <1>5, <1>6, <1>8

LogParts ==
    /\ lines \in Seq(Nat) /\ tail \in BOOLEAN /\ sequence \in Nat /\ count \in Nat
    /\ LogIsOrdered /\ LogInStep

(* Steps that leave the log alone and start no server.                     *)
LEMMA LogKept ==
  ASSUME LogParts, UNCHANGED logVars, up' # "down" => up # "down"
  PROVE  LogParts'
  <1>1. UNCHANGED <<lines, tail, sequence, count>>
    BY DEF logVars
  <1>2. LogInStep'
    BY <1>1, ZenonT(60) DEF LogParts, LogInStep, GoodSet, Good
  <1>3. LogIsOrdered'
    BY <1>1 DEF LogParts, LogIsOrdered
  <1> QED
    BY <1>1, <1>2, <1>3 DEF LogParts

(* Every step keeps the order of the log.                                  *)
LEMMA LogNext == StorageInv /\ [Next]_vars => LogParts'
  <1> SUFFICES ASSUME StorageInv, [Next]_vars PROVE LogParts'
    OBVIOUS
  <1>0. LogParts /\ CallInStep
    BY DEF StorageInv, TypeOK, LogParts
  <1>1. CASE NewStorageManager
    <2>1. /\ count' = Cardinality(Good(lines)) /\ sequence' = LastNumber
          /\ tail' \in {FALSE, tail} /\ lines' = lines
      BY <1>1 DEF NewStorageManager, NewEventStore, LoadEvents, OpenFile
    <2>2. /\ LastNumber \in Nat /\ Cardinality(Good(lines)) \in Nat
          /\ \A i \in DOMAIN lines : lines[i] <= LastNumber
      BY <1>0, LastNumberFacts DEF LogParts
    <2>3. LogInStep'
      <3>1. (\E m \in GoodSet(lines) \cup {0} : \A x \in GoodSet(lines) : x <= m)'
        BY <1>0, <2>1, Zenon DEF LogParts, LogInStep, GoodSet, Good
      <3>2. \A i \in DOMAIN lines' : lines'[i] <= sequence'
        BY <2>1, <2>2
      <3>3. tail' => lines' # <<>> /\ lines'[Len(lines')] = Garbage
        BY <1>0, <2>1 DEF LogParts, LogInStep
      <3> QED
        BY <3>1, <3>2, <3>3 DEF LogInStep
    <2>4. LogIsOrdered'
      BY <1>0, <2>1 DEF LogParts, LogIsOrdered
    <2> QED
      BY <1>0, <2>1, <2>2, <2>3, <2>4 DEF LogParts
  <1>2. CASE AppendStores \/ AppendFails
    <2>0. up # "down"
      BY <1>0, <1>2, IdleFacts DEF CallInStep, AppendStores, AppendFails
    <2>1. /\ sequence' = sequence + 1 /\ count' \in {count, count + 1}
          /\ \/ UNCHANGED <<lines, tail>>
             \/ lines' = Line(Garbage) /\ tail' = TRUE
             \/ lines' = Line(sequence + 1) /\ tail' = FALSE
      BY <1>2 DEF AppendStores, AppendFails
    <2>2. /\ \A i \in DOMAIN lines : lines[i] \in Nat /\ lines[i] <= sequence
          /\ sequence \in Nat /\ count \in Nat
      BY <1>0, <2>0, ElementOfSeq, LenProperties DEF LogParts, LogInStep
    <2>3. CASE UNCHANGED <<lines, tail>>
      <3>1. LogInStep'
        <4>1. (\E m \in GoodSet(lines) \cup {0} : \A x \in GoodSet(lines) : x <= m)'
          BY <1>0, <2>3, Zenon DEF LogParts, LogInStep, GoodSet, Good
        <4>2. \A i \in DOMAIN lines' : lines'[i] <= sequence'
          BY <2>1, <2>2, <2>3
        <4>3. tail' => lines' # <<>> /\ lines'[Len(lines')] = Garbage
          BY <1>0, <2>3 DEF LogParts, LogInStep
        <4> QED
          BY <4>1, <4>2, <4>3 DEF LogInStep
      <3>2. LogIsOrdered'
        BY <1>0, <2>3 DEF LogParts, LogIsOrdered
      <3> QED
        BY <1>0, <2>1, <2>2, <2>3, <3>1, <3>2 DEF LogParts
    <2>4. ASSUME NEW n \in {Garbage, sequence + 1}, lines' = Line(n),
                 tail' = TRUE => n = Garbage, tail' \in BOOLEAN
          PROVE  LogParts'
      <3>1. n \in Nat /\ (n = Garbage \/ \A i \in DOMAIN lines : lines[i] < n)
        BY <2>2, <2>4 DEF Garbage
      <3>2. /\ lines' \in Seq(Nat) /\ lines' # <<>>
            /\ n = Garbage => lines'[Len(lines')] = Garbage
            /\ \A i \in DOMAIN lines' :
                 lines'[i] = n \/ (i \in DOMAIN lines /\ lines'[i] = lines[i])
            /\ LogIsOrdered'
            /\ (\E m \in GoodSet(lines) \cup {0} : \A x \in GoodSet(lines) : x <= m)'
        BY <1>0, <2>4, <3>1, LineFacts DEF LogParts
      <3>3. n <= sequence'
        BY <2>1, <2>2, <2>4 DEF Garbage
      <3>4. \A i \in DOMAIN lines' : lines'[i] <= sequence'
        BY <2>1, <2>2, <3>2, <3>3
      <3>5. LogInStep'
        BY <2>4, <3>2, <3>4 DEF LogInStep
      <3> QED
        BY <2>1, <2>2, <2>4, <3>2, <3>5 DEF LogParts
    <2> QED
      BY <2>1, <2>3, <2>4
  <1>3. ASSUME NEW k \in Keys, AppendEventAndSave(k) \/ DeleteResource(k) PROVE LogParts'
    <2>1. UNCHANGED <<logVars, up>>
      BY <1>3 DEF AppendEventAndSave, DeleteResource, Begin
    <2> QED
      BY <1>0, <2>1, LogKept
  <1>4. CASE \/ CreateSnapshot \/ CleanupOldSnapshots \/ SnapshotFails \/ Put \/ Delete
             \/ SaveTypeFails \/ CloseMeta
    <2>1. UNCHANGED <<logVars, up>>
      BY <1>4, Zenon DEF CreateSnapshot, CleanupOldSnapshots, SnapshotFails, Put, Delete,
                         SaveTypeFails, CloseMeta
    <2> QED
      BY <1>0, <2>1, LogKept
  <1>5. CASE Exit \/ Crash
    <2>1. UNCHANGED logVars /\ up' = "down"
      BY <1>5 DEF Exit, Crash, Dies
    <2> QED
      BY <1>0, <2>1, LogKept
  <1>6. CASE Close
    <2>1. UNCHANGED logVars /\ up = "run"
      BY <1>6 DEF Close
    <2> QED
      BY <1>0, <2>1, LogKept
  <1>7. CASE SetTag \/ DeleteTag \/ NotifyDirty \/ PersistStep \/ UNCHANGED vars
    <2>1. UNCHANGED <<logVars, up>>
      BY <1>7, Zenon DEF SetTag, DeleteTag, ChangeTag, NotifyDirty, PersistStep, RestoreAll,
            TakeDirty, Debounced, SeesStop, FlushAll, SaveToDisk, FlushFails, storeVars, vars
    <2> QED
      BY <1>0, <2>1, LogKept
  <1> QED
    BY <1>1, <1>2, <1>3, <1>4, <1>5, <1>6, <1>7, Zenon DEF Next, StorageStep

-----------------------------------------------------------------------------
(* The snapshots.                                                          *)
LEMMA ContentFacts ==
  /\ \A f \in SUBSET Keys : Content(f) = f
  /\ Content(NoFile) = {} /\ Content(TornFile) = {}
  BY StorageAssumption DEF Content, NoFile, TornFile

LEMMA ListAllType ==
  ASSUME mem \in [Types -> (SUBSET Keys) \cup {NoFile}]
  PROVE  ListAll \in [Types -> SUBSET Keys]
  <1>1. \A t \in Types : Content(mem[t]) \in SUBSET Keys
    BY ContentFacts
  <1> QED
    BY <1>1 DEF ListAll

SnapParts ==
    /\ eventCount \in 0..(Interval - 1)
    /\ snaps \subseteq Snapshots /\ latest \in snaps \cup {NoSnap}
    /\ NewestIsKept /\ NewestExists

(* Steps that leave the snapshots alone and start no server.               *)
LEMMA SnapsKept ==
  ASSUME SnapParts, UNCHANGED <<snaps, latest>>, eventCount' \in 0..(Interval - 1),
         up' # "down" => up # "down"
  PROVE  SnapParts'
  BY DEF SnapParts, NewestIsKept, NewestExists

(* A snapshot has the greatest time and replaces the one of the same time. *)
LEMMA CreateFacts ==
  ASSUME StorageInv, CreateSnapshot
  PROVE  /\ up # "down" /\ up' = up /\ latest' \in snaps' /\ latest'.state = ListAll
         /\ snaps' \subseteq Snapshots
         /\ \A s \in snaps' : s.time <= latest'.time
  <1>0. StoreTypes /\ SnapParts /\ CallInStep
    BY TypeParts DEF StorageInv, SnapParts, StoreTypes
  <1>1. PICK d \in {0, 1} :
           /\ latest.time + d > 0
           /\ SaveSnapshot([time |-> latest.time + d, seq |-> count, state |-> ListAll])
    BY DEF CreateSnapshot
  <1> DEFINE s == [time |-> latest.time + d, seq |-> count, state |-> ListAll]
  <1>2. up # "down" /\ up' = up
    BY <1>0, IdleFacts DEF CreateSnapshot, CallInStep
  <1>3. latest.time \in Nat /\ \A r \in snaps : r.time \in Nat /\ r.time <= latest.time
    <2>1. NoSnap.time = 0
      BY DEF NoSnap
    <2>2. \A r \in snaps : r.time \in Nat
      BY <1>0 DEF SnapParts, Snapshots
    <2> QED
      BY <1>0, <1>2, <2>1, <2>2 DEF SnapParts, NewestIsKept
  <1>4. s \in Snapshots /\ s.time = latest.time + d /\ s.state = ListAll
    BY <1>0, <1>1, <1>3, ListAllType DEF Snapshots, StoreTypes
  <1>5. snaps' = {r \in snaps : r.time # s.time} \cup {s} /\ latest' = s
    BY <1>1 DEF SaveSnapshot
  <1> HIDE DEF s
  <1>6. \A r \in snaps' : r.time <= s.time
    BY <1>1, <1>3, <1>4, <1>5
  <1> QED
    BY <1>0, <1>2, <1>4, <1>5, <1>6 DEF SnapParts

(* The cleanup keeps the snapshots of the greatest time.                   *)
LEMMA CleanupFacts ==
  ASSUME CleanupOldSnapshots
  PROVE  /\ snaps' \subseteq snaps
         /\ \A s \in snaps : (\A r \in snaps : r.time <= s.time) /\ s \in Snapshots
                                /\ snaps \subseteq Snapshots => s \in snaps'
  <1>1. snaps' = {s \in snaps : Cardinality({r \in snaps : r.time > s.time}) < Keep}
    BY DEF CleanupOldSnapshots
  <1>2. ASSUME NEW s \in snaps, \A r \in snaps : r.time <= s.time, s \in Snapshots,
               snaps \subseteq Snapshots
        PROVE  s \in snaps'
    <2>1. \A r \in snaps : r.time \in Nat /\ s.time \in Nat
      BY <1>2 DEF Snapshots
    <2>2. {r \in snaps : r.time > s.time} = {}
      BY <1>2, <2>1
    <2>3. Cardinality({}) = 0 /\ 0 < Keep
      BY FS_EmptySet, StorageAssumption
    <2> QED
      BY <1>1, <2>2, <2>3
  <1> QED
    BY <1>1, <1>2

(* Every step keeps the newest snapshot.                                   *)
LEMMA SnapsNext == StorageInv /\ [Next]_vars => SnapParts'
  <1> SUFFICES ASSUME StorageInv, [Next]_vars PROVE SnapParts'
    OBVIOUS
  <1> USE StorageAssumption
  <1>0. SnapParts /\ CallInStep
    BY DEF StorageInv, TypeOK, SnapParts
  <1>1. CASE NewStorageManager
    <2>1. /\ eventCount' = 0 /\ UNCHANGED snaps
          /\ latest' = IF snaps = {} THEN NoSnap
                       ELSE CHOOSE s \in snaps : \A r \in snaps : r.time <= s.time
      BY <1>1 DEF NewStorageManager, NewSnapshotStore, LoadLatest
    <2>2. CASE snaps = {}
      BY <1>0, <2>1, <2>2 DEF SnapParts, NewestIsKept, NewestExists
    <2>3. CASE snaps # {}
      <3>1. \E s \in snaps : \A r \in snaps : r.time <= s.time
        BY <1>0, <2>3 DEF SnapParts, NewestExists
      <3>2. latest' \in snaps /\ \A r \in snaps : r.time <= latest'.time
        BY <2>1, <2>3, <3>1
      <3> QED
        BY <1>0, <2>1, <2>3, <3>1, <3>2 DEF SnapParts, NewestIsKept, NewestExists
    <2> QED
      BY <2>2, <2>3
  <1>2. CASE AppendStores
    <2>1. /\ UNCHANGED <<snaps, latest, up>>
          /\ IF eventCount + 1 >= Interval THEN eventCount' = 0 ELSE eventCount' = eventCount + 1
      BY <1>2 DEF AppendStores
    <2>2. eventCount' \in 0..(Interval - 1)
      BY <1>0, <2>1 DEF SnapParts
    <2> QED
      BY <1>0, <2>1, <2>2, SnapsKept
  <1>3. CASE CreateSnapshot
    <2>1. UNCHANGED eventCount
      BY <1>3 DEF CreateSnapshot
    <2> QED
      BY <1>0, <1>3, <2>1, CreateFacts DEF SnapParts, NewestIsKept, NewestExists
  <1>4. CASE CleanupOldSnapshots
    <2>1. UNCHANGED <<latest, eventCount, up>> /\ up # "down"
      BY <1>0, <1>4, IdleFacts DEF CleanupOldSnapshots, CallInStep
    <2>2. /\ snaps = {} => latest = NoSnap
          /\ snaps # {} => latest \in snaps /\ \A s \in snaps : s.time <= latest.time
      BY <1>0, <2>1 DEF SnapParts, NewestIsKept
    <2>3. /\ snaps' \subseteq snaps
          /\ snaps # {} => latest \in snaps'
      BY <1>0, <1>4, <2>2, CleanupFacts DEF SnapParts
    <2> QED
      BY <1>0, <2>1, <2>2, <2>3 DEF SnapParts, NewestIsKept, NewestExists
  <1>5. ASSUME NEW k \in Keys, AppendEventAndSave(k) \/ DeleteResource(k) PROVE SnapParts'
    <2>1. UNCHANGED <<snaps, latest, eventCount, up>>
      BY <1>5 DEF AppendEventAndSave, DeleteResource, Begin, snapVars
    <2> QED
      BY <1>0, <2>1, SnapsKept DEF SnapParts
  <1>6. CASE AppendFails \/ SnapshotFails \/ Put \/ Delete \/ SaveTypeFails \/ CloseMeta
    <2>1. UNCHANGED <<snaps, latest, eventCount, up>>
      BY <1>6, Zenon DEF AppendFails, SnapshotFails, Put, Delete, SaveTypeFails, CloseMeta,
                         snapVars
    <2> QED
      BY <1>0, <2>1, SnapsKept DEF SnapParts
  <1>7. CASE Exit \/ Crash
    <2>1. UNCHANGED <<snaps, latest, eventCount>> /\ up' = "down"
      BY <1>7 DEF Exit, Crash, Dies, snapVars
    <2> QED
      BY <1>0, <2>1, SnapsKept DEF SnapParts
  <1>8. CASE Close
    <2>1. UNCHANGED <<snaps, latest, eventCount>> /\ up = "run"
      BY <1>8 DEF Close, snapVars
    <2> QED
      BY <1>0, <2>1, SnapsKept DEF SnapParts
  <1>9. CASE SetTag \/ DeleteTag \/ NotifyDirty \/ PersistStep \/ UNCHANGED vars
    <2>1. UNCHANGED <<snaps, latest, eventCount, up>>
      BY <1>9, Zenon DEF SetTag, DeleteTag, ChangeTag, NotifyDirty, PersistStep, RestoreAll,
            TakeDirty, Debounced, SeesStop, FlushAll, SaveToDisk, FlushFails, storeVars, vars,
            snapVars
    <2> QED
      BY <1>0, <2>1, SnapsKept DEF SnapParts
  <1> QED
    BY <1>1, <1>2, <1>3, <1>4, <1>5, <1>6, <1>7, <1>8, <1>9, Zenon DEF Next, StorageStep

-----------------------------------------------------------------------------
(* The calls.                                                              *)
CallParts ==
    /\ up \in {"down", "run", "closing"} /\ op \in Ops /\ ack \in Acks
    /\ starts \in 0..MaxStarts /\ clean \in BOOLEAN
    /\ CallInStep

(* A call that returns, or whose process ends.                             *)
LEMMA IdleInStep ==
  ASSUME op' = Idle, up' # "closing" PROVE CallInStep'
  BY IdleFacts DEF CallInStep

LEMMA ContinueInStep ==
  ASSUME StoreTypes, CallInStep, NEW ok \in BOOLEAN, Continue(ok), UNCHANGED up,
         op.at \in {"append", "snapshot", "cleanup"}
  PROVE  op' \in Ops /\ ack' \in Acks /\ CallInStep'
  <1>1. op.kind \in Kinds /\ op # Idle
    BY IdleFacts DEF CallInStep, StoreTypes, Ops, Kinds
  <1>2. CASE op.kind = "delete"
    <2>1. op' = Idle /\ up' # "closing"
      BY <1>2, ContinueFacts, IdleFacts DEF CallInStep
    <2> QED
      BY <2>1, ContinueFacts, IdleInStep
  <1>3. CASE op.kind # "delete"
    <2>1. /\ op' \in Ops /\ ack' \in Acks /\ op'.at = "save" /\ op'.kind = op.kind
          /\ op'.key = op.key /\ ack' = ack
      BY <1>3, ContinueFacts
    <2> QED
      BY <1>1, <1>3, <2>1 DEF CallInStep, Kinds
  <1> QED
    BY <1>2, <1>3

(* Every step leaves a call that fits the state of the process.            *)
LEMMA CallNext == StorageInv /\ [Next]_vars => CallParts'
  <1> SUFFICES ASSUME StorageInv, [Next]_vars PROVE CallParts'
    OBVIOUS
  <1>0. StoreTypes /\ CallInStep
    BY TypeParts DEF StorageInv
  <1>1. CASE NewStorageManager
    <2>1. /\ up = "down" /\ up' = "run" /\ starts < MaxStarts /\ starts' = starts + 1
          /\ UNCHANGED <<op, ack, clean>>
      BY <1>1 DEF NewStorageManager
    <2>2. op' = Idle
      BY <1>0, <2>1 DEF CallInStep
    <2>3. starts' \in 0..MaxStarts
      BY <1>0, <2>1, StorageAssumption DEF StoreTypes
    <2> QED
      BY <1>0, <2>1, <2>2, <2>3, IdleInStep DEF CallParts, StoreTypes
  <1>2. ASSUME NEW k \in Keys, AppendEventAndSave(k) \/ DeleteResource(k) PROVE CallParts'
    <2>1. PICK kind \in {"put", "delete"}, at \in {"append", "delete"} :
             /\ Begin(kind, k, at)
             /\ at = "append" => kind = "put"
             /\ at = "delete" => kind = "delete"
      BY <1>2 DEF AppendEventAndSave, DeleteResource
    <2>2. /\ up = "run" /\ op' \in Ops /\ op'.at = at /\ op'.kind = kind /\ op'.key = k
          /\ ack' = [ack EXCEPT ![k] = "any"] /\ clean' = FALSE
          /\ UNCHANGED <<up, starts>>
      BY <2>1, BeginFacts DEF Kinds, Ats
    <2>3. ack' \in Acks /\ ack'[k] = "any"
      BY <1>0, <2>2 DEF StoreTypes, Acks
    <2>4. CallInStep'
      BY <2>1, <2>2, <2>3 DEF CallInStep
    <2> QED
      BY <1>0, <2>2, <2>3, <2>4 DEF CallParts, StoreTypes
  <1>3. CASE AppendStores
    <2>1. UNCHANGED <<up, starts, clean>> /\ op.at = "append"
      BY <1>3 DEF AppendStores
    <2>2. CASE op' = [op EXCEPT !.at = "snapshot"] /\ UNCHANGED ack
      <3>1. /\ op' \in Ops /\ op'.at = "snapshot" /\ op'.kind = op.kind /\ op'.key = op.key
        BY <1>0, <2>2, AtFacts DEF StoreTypes, Ats
      <3>2. CallInStep'
        BY <1>0, <2>1, <2>2, <3>1, IdleFacts DEF CallInStep
      <3> QED
        BY <1>0, <2>1, <2>2, <3>1, <3>2 DEF CallParts, StoreTypes
    <2>3. CASE Continue(TRUE)
      BY <1>0, <2>1, <2>3, ContinueInStep DEF CallParts, StoreTypes
    <2> QED
      BY <1>3, <2>2, <2>3 DEF AppendStores
  <1>4. CASE CleanupOldSnapshots \/ SnapshotFails
    <2>1. PICK ok \in BOOLEAN : Continue(ok)
      BY <1>4 DEF CleanupOldSnapshots, SnapshotFails
    <2>2. UNCHANGED <<up, starts, clean>> /\ op.at \in {"snapshot", "cleanup"}
      BY <1>4 DEF CleanupOldSnapshots, SnapshotFails
    <2> QED
      BY <1>0, <2>1, <2>2, ContinueInStep DEF CallParts, StoreTypes
  <1>5. CASE CreateSnapshot \/ Delete
    <2>1. PICK at \in {"cleanup", "append"} :
             /\ op' = [op EXCEPT !.at = at] /\ (at = "append" => op.kind = "delete")
      BY <1>0, <1>5 DEF CreateSnapshot, Delete, CallInStep
    <2>2. UNCHANGED <<up, starts, clean, ack>> /\ op.at \in {"snapshot", "delete"}
      BY <1>5 DEF CreateSnapshot, Delete
    <2>3. op' \in Ops /\ op'.at = at /\ op'.kind = op.kind /\ op'.key = op.key
      BY <1>0, <2>1, AtFacts DEF StoreTypes, Ats
    <2>4. CallInStep'
      BY <1>0, <2>1, <2>2, <2>3, IdleFacts DEF CallInStep
    <2> QED
      BY <1>0, <2>2, <2>3, <2>4 DEF CallParts, StoreTypes
  <1>6. CASE AppendFails \/ SaveTypeFails
    <2>1. UNCHANGED <<up, starts, clean, ack>> /\ op' = Idle
      BY <1>6 DEF AppendFails, SaveTypeFails, Fails
    <2>2. up # "closing"
      BY <1>0, <1>6 DEF AppendFails, SaveTypeFails, CallInStep
    <2> QED
      BY <1>0, <2>1, <2>2, IdleFacts, IdleInStep DEF CallParts, StoreTypes
  <1>7. CASE Put
    <2>1. /\ UNCHANGED <<up, starts, clean>> /\ op' = Idle
          /\ ack' = [ack EXCEPT ![op.key] = "in"]
      BY <1>7 DEF Put, Returns
    <2>2. up # "closing" /\ ack' \in Acks
      BY <1>0, <1>7, <2>1 DEF Put, CallInStep, StoreTypes, Acks
    <2> QED
      BY <1>0, <2>1, <2>2, IdleFacts, IdleInStep DEF CallParts, StoreTypes
  <1>8. CASE Close
    <2>1. /\ up' = "closing" /\ UNCHANGED <<starts, clean, ack>>
          /\ op' = [Idle EXCEPT !.at = "snapshot", !.kind = "close",
                                !.todo = {t \in Types : mem[t] # NoFile}]
      BY <1>8 DEF Close
    <2>2. op' \in Ops /\ op'.at = "snapshot" /\ op'.kind = "close"
      BY <2>1 DEF Idle, Ops, Ats, Kinds
    <2>3. CallInStep'
      BY <2>1, <2>2 DEF CallInStep
    <2> QED
      BY <1>0, <2>1, <2>2, <2>3 DEF CallParts, StoreTypes
  <1>9. CASE CloseMeta
    <2>1. UNCHANGED <<up, starts, clean, ack>> /\ op.at = "save" /\ op.kind = "close"
      BY <1>9 DEF CloseMeta
    <2>2. op' \in Ops /\ op'.at = "save" /\ op'.kind = "close"
      <3>1. PICK t \in op.todo : \/ op' = [op EXCEPT !.todo = op.todo \ {t}]
                                 \/ op' = [op EXCEPT !.todo = {}, !.ok = FALSE]
        BY <1>9 DEF CloseMeta
      <3>2. CASE op' = [op EXCEPT !.todo = op.todo \ {t}]
        BY <1>0, <2>1, <3>2 DEF StoreTypes, Ops
      <3>3. CASE op' = [op EXCEPT !.todo = {}, !.ok = FALSE]
        BY <1>0, <2>1, <3>3 DEF StoreTypes, Ops
      <3> QED
        BY <3>1, <3>2, <3>3
    <2>3. CallInStep'
      BY <1>0, <2>1, <2>2, IdleFacts DEF CallInStep
    <2> QED
      BY <1>0, <2>1, <2>2, <2>3 DEF CallParts, StoreTypes
  <1>10. CASE Exit \/ Crash
    <2>1. op' = Idle /\ up' = "down" /\ UNCHANGED <<ack, starts>>
      BY <1>10 DEF Exit, Crash, Dies
    <2>2. clean' \in BOOLEAN
      BY <1>0, <1>10 DEF Exit, Crash, StoreTypes, Ops
    <2> QED
      BY <1>0, <2>1, <2>2, IdleFacts, IdleInStep DEF CallParts, StoreTypes
  <1>11. CASE SetTag \/ DeleteTag \/ NotifyDirty \/ PersistStep \/ UNCHANGED vars
    <2>1. UNCHANGED <<up, op, ack, starts, clean>>
      BY <1>11, Zenon DEF SetTag, DeleteTag, ChangeTag, NotifyDirty, PersistStep, RestoreAll,
            TakeDirty, Debounced, SeesStop, FlushAll, SaveToDisk, FlushFails, storeVars, vars
    <2> QED
      BY <1>0, <2>1 DEF CallParts, StoreTypes, CallInStep
  <1> QED
    BY <1>1, <1>2, <1>3, <1>4, <1>5, <1>6, <1>7, <1>8, <1>9, <1>10, <1>11, Zenon
       DEF Next, StorageStep

-----------------------------------------------------------------------------
(* The meta files.                                                         *)
MetaParts ==
    /\ mem \in [Types -> (SUBSET Keys) \cup {NoFile}]
    /\ file \in [Types -> (SUBSET Keys) \cup {NoFile, TornFile}]
    /\ AckedSurvives /\ MetaInStep

LEMMA KeyFacts ==
  \A k \in Keys : TypeOf[k] \in Types /\ k \notin NoFile /\ k \notin TornFile
  BY StorageAssumption DEF NoFile, TornFile

(* Steps that leave the memory and the files alone: a key that is newly    *)
(* acknowledged is the one that was deleted.                               *)
LEMMA MetaKept ==
  ASSUME MetaParts, UNCHANGED <<mem, file>>, up' # "down" => up # "down",
         op.kind = "delete" => op.key \in Keys,
         \A k \in Keys : /\ ack'[k] = "in" => ack[k] = "in"
                         /\ ack'[k] = "out" =>
                              \/ ack[k] = "out"
                              \/ op.kind = "delete" /\ op.at # "delete" /\ op.key = k,
         op'.kind = "delete" /\ op'.at # "delete" =>
            op.kind = "delete" /\ op.at # "delete" /\ op'.key = op.key
  PROVE  MetaParts'
  <1>1. op.kind = "delete" /\ op.at # "delete" =>
          op.key \notin mem[TypeOf[op.key]] /\ op.key \notin file[TypeOf[op.key]]
    BY DEF MetaParts, MetaInStep, Type
  <1>2. AckedSurvives'
    BY <1>1 DEF MetaParts, AckedSurvives
  <1>3. MetaInStep'
    BY <1>1 DEF MetaParts, MetaInStep, Type
  <1> QED
    BY <1>2, <1>3 DEF MetaParts

(* A call on the key k of type t changes the memory, and the file if it    *)
(* can: other keys stay where they were.                                   *)
LEMMA MetaChange ==
  ASSUME MetaParts, CallParts, up # "down", op.kind \in {"put", "delete"}, op.key \in Keys,
         NEW x \in SUBSET Keys,
         \A k \in Keys : k # op.key => (k \in x <=> k \in mem[Type]),
         mem' = [mem EXCEPT ![Type] = x],
         file' = file \/ file' = [file EXCEPT ![Type] = x],
         \A k \in Keys : k # op.key => ack'[k] = ack[k],
         ack'[op.key] = "in" => file' # file \/ file[Type] = x,
         ack'[op.key] = "in" => op.key \in x,
         ack'[op.key] # "out"
  PROVE  /\ mem' \in [Types -> (SUBSET Keys) \cup {NoFile}]
         /\ file' \in [Types -> (SUBSET Keys) \cup {NoFile, TornFile}]
         /\ AckedSurvives'
         /\ \A t \in Types : file'[t] # TornFile
         /\ \A t \in Types : mem'[t] = NoFile => file'[t] = NoFile
         /\ \A k \in Keys : /\ ack'[k] = "in" => k \in mem'[TypeOf[k]]
                            /\ ack'[k] = "out" => k \notin mem'[TypeOf[k]]
  <1>0. Type \in Types /\ Type = TypeOf[op.key]
    BY KeyFacts DEF Type
  <1> HIDE DEF Type
  <1>1. /\ mem'[Type] = x /\ \A t \in Types : t # Type => mem'[t] = mem[t]
        /\ file'[Type] \in {x, file[Type]}
        /\ \A t \in Types : t # Type => file'[t] = file[t]
        /\ file' # file \/ file[Type] = x => file'[Type] = x
    BY <1>0 DEF MetaParts
  <1>2. x # TornFile /\ x # NoFile
    BY StorageAssumption DEF TornFile, NoFile
  <1>3. \A t \in Types : file'[t] # TornFile
    BY <1>1, <1>2 DEF MetaParts, MetaInStep
  <1>4. \A t \in Types : mem'[t] = NoFile => file'[t] = NoFile
    BY <1>1, <1>2 DEF MetaParts, MetaInStep
  <1>5. ASSUME NEW k \in Keys
        PROVE  /\ ack'[k] = "in" => k \in mem'[TypeOf[k]] /\ k \in file'[TypeOf[k]]
               /\ ack'[k] = "out" => k \notin mem'[TypeOf[k]] /\ k \notin file'[TypeOf[k]]
    <2>1. CASE k = op.key
      BY <1>0, <1>1, <2>1
    <2>2. CASE k # op.key
      <3>1. /\ ack[k] = "in" => k \in mem[TypeOf[k]] /\ k \in file[TypeOf[k]]
            /\ ack[k] = "out" => k \notin mem[TypeOf[k]] /\ k \notin file[TypeOf[k]]
        BY DEF MetaParts, MetaInStep, AckedSurvives
      <3>2. TypeOf[k] \in Types
        BY KeyFacts
      <3>3. CASE TypeOf[k] = Type
        BY <1>1, <2>2, <3>1, <3>3
      <3>4. CASE TypeOf[k] # Type
        BY <1>1, <2>2, <3>1, <3>2, <3>4
      <3> QED
        BY <3>3, <3>4
    <2> QED
      BY <2>1, <2>2
  <1>6. mem' \in [Types -> (SUBSET Keys) \cup {NoFile}]
    BY <1>0 DEF MetaParts
  <1>7. file' \in [Types -> (SUBSET Keys) \cup {NoFile, TornFile}]
    BY <1>0 DEF MetaParts
  <1> QED
    BY <1>3, <1>4, <1>5, <1>6, <1>7 DEF AckedSurvives

(* Every step keeps the memory and the files in agreement with what was    *)
(* acknowledged.                                                           *)
LEMMA MetaNext == StorageInv /\ AckedSurvives /\ [Next]_vars => MetaParts'
  <1> SUFFICES ASSUME StorageInv, AckedSurvives, [Next]_vars PROVE MetaParts'
    OBVIOUS
  <1>0. /\ StoreTypes /\ CallInStep /\ MetaParts /\ CallParts
        /\ op.kind = "delete" => op.key \in Keys
    BY TypeParts DEF StorageInv, MetaParts, CallParts, StoreTypes, CallInStep
  <1>1. CASE NewStorageManager
    <2>1. /\ mem' = [t \in Types |-> IF file[t] = TornFile THEN NoFile ELSE file[t]]
          /\ UNCHANGED <<file, ack, op>> /\ op = Idle
      BY <1>0, <1>1 DEF NewStorageManager, NewMetaStore, LoadAll, CallInStep
    <2>2. \A t \in Types : mem'[t] = file[t] /\ file[t] \in (SUBSET Keys) \cup {NoFile}
      BY <1>0, <2>1 DEF MetaParts, MetaInStep
    <2>3. mem' \in [Types -> (SUBSET Keys) \cup {NoFile}]
      BY <2>1, <2>2
    <2>4. AckedSurvives'
      BY <1>0, <2>1 DEF MetaParts, AckedSurvives
    <2>5. MetaInStep'
      BY <1>0, <2>1, <2>2, IdleFacts, KeyFacts DEF MetaParts, MetaInStep, AckedSurvives
    <2> QED
      BY <1>0, <2>1, <2>3, <2>4, <2>5 DEF MetaParts
  <1>2. ASSUME NEW k \in Keys, AppendEventAndSave(k) \/ DeleteResource(k) PROVE MetaParts'
    <2>1. PICK kind \in {"put", "delete"}, at \in {"append", "delete"} :
             Begin(kind, k, at) /\ (kind = "delete" => at = "delete")
      BY <1>2 DEF AppendEventAndSave, DeleteResource
    <2>2. /\ op'.at = at /\ op'.kind = kind
          /\ ack' = [ack EXCEPT ![k] = "any"] /\ UNCHANGED <<up, mem, file>>
      BY <2>1, BeginFacts DEF Kinds, Ats, metaVars
    <2>3. \A j \in Keys : ack'[j] \in {"any", ack[j]}
      BY <1>0, <2>2 DEF StoreTypes, Acks
    <2> QED
      BY <1>0, <2>1, <2>2, <2>3, MetaKept
  <1>3. ASSUME NEW ok \in BOOLEAN, Continue(ok), UNCHANGED <<up, mem, file>>,
               op.at \in {"append", "snapshot", "cleanup"}
        PROVE  MetaParts'
    <2>1. CASE op.kind = "delete"
      <3>1. op' = Idle /\ ack' = [ack EXCEPT ![op.key] = "out"]
        BY <1>0, <1>3, <2>1, ContinueFacts
      <3>2. \A j \in Keys : ack'[j] = ack[j] \/ (j = op.key /\ ack'[j] = "out")
        BY <1>0, <3>1 DEF StoreTypes, Acks
      <3> QED
        BY <1>0, <1>3, <2>1, <3>1, <3>2, IdleFacts, MetaKept
    <2>2. CASE op.kind # "delete"
      <3>1. op'.kind = op.kind /\ ack' = ack
        BY <1>0, <1>3, <2>2, ContinueFacts
      <3> QED
        BY <1>0, <1>3, <2>2, <3>1, MetaKept
    <2> QED
      BY <2>1, <2>2
  <1>4. CASE AppendStores \/ CreateSnapshot \/ CleanupOldSnapshots \/ SnapshotFails
    <2>1. /\ UNCHANGED <<up, mem, file>> /\ op.at \in {"append", "snapshot", "cleanup"}
          /\ \/ \E ok \in BOOLEAN : Continue(ok)
             \/ /\ \E at \in {"snapshot", "cleanup"} : op' = [op EXCEPT !.at = at]
                /\ UNCHANGED ack
      BY <1>4 DEF AppendStores, CreateSnapshot, CleanupOldSnapshots, SnapshotFails, metaVars
    <2>2. ASSUME NEW at \in {"snapshot", "cleanup"}, op' = [op EXCEPT !.at = at], UNCHANGED ack
          PROVE  MetaParts'
      <3>1. op'.kind = op.kind /\ op'.key = op.key
        BY <1>0, <2>2, AtFacts DEF StoreTypes, Ats
      <3> QED
        BY <1>0, <2>1, <2>2, <3>1, MetaKept
    <2> QED
      BY <1>3, <2>1, <2>2
  <1>5. CASE AppendFails \/ Exit \/ Crash
    <2>1. UNCHANGED <<mem, file, ack>> /\ op' = Idle /\ up' \in {up, "down"}
      BY <1>5 DEF AppendFails, Fails, Exit, Crash, Dies, metaVars
    <2> QED
      BY <1>0, <2>1, IdleFacts, MetaKept
  <1>6. CASE Close
    <2>1. UNCHANGED <<mem, file, ack>> /\ op'.kind = "close" /\ up = "run"
      BY <1>6 DEF Close, Idle, metaVars
    <2> QED
      BY <1>0, <2>1, MetaKept
  <1>7. ASSUME op.kind = "put", op.key \in Keys, up # "down",
               mem' = [mem EXCEPT ![Type] = Content(mem[Type]) \cup {op.key}],
               op' = Idle,
               \/ file' = file /\ ack' = ack /\ ack[op.key] = "any"
               \/ file' = [file EXCEPT ![Type] = mem'[Type]]
                  /\ ack' = [ack EXCEPT ![op.key] = "in"]
        PROVE  MetaParts'
    <2> DEFINE x == Content(mem[Type]) \cup {op.key}
    <2>1. Type \in Types /\ mem[Type] \in (SUBSET Keys) \cup {NoFile}
      BY <1>0, <1>7, KeyFacts DEF Type, MetaParts
    <2>2. Content(mem[Type]) \in SUBSET Keys
          /\ \A k \in Keys : k \in Content(mem[Type]) <=> k \in mem[Type]
      BY <2>1, ContentFacts, KeyFacts
    <2>3. /\ x \in SUBSET Keys /\ op.key \in x
          /\ \A k \in Keys : k # op.key => (k \in x <=> k \in mem[Type])
      BY <1>7, <2>2
    <2>4. mem' = [mem EXCEPT ![Type] = x] /\ mem'[Type] = x
      BY <1>0, <1>7, <2>1 DEF MetaParts
    <2> HIDE DEF x
    <2>5. file' = file \/ file' = [file EXCEPT ![Type] = x]
      BY <1>7, <2>4
    <2>6. /\ \A k \in Keys : k # op.key => ack'[k] = ack[k]
          /\ ack'[op.key] # "out"
          /\ ack'[op.key] = "in" => file' # file \/ file[Type] = x
      BY <1>0, <1>7, <2>1, <2>4, ZenonT(60) DEF MetaParts, StoreTypes, Acks
    <2>7. /\ mem' \in [Types -> (SUBSET Keys) \cup {NoFile}]
          /\ file' \in [Types -> (SUBSET Keys) \cup {NoFile, TornFile}]
          /\ AckedSurvives'
          /\ \A t \in Types : file'[t] # TornFile
          /\ \A t \in Types : mem'[t] = NoFile => file'[t] = NoFile
          /\ \A k \in Keys : /\ ack'[k] = "in" => k \in mem'[TypeOf[k]]
                             /\ ack'[k] = "out" => k \notin mem'[TypeOf[k]]
      BY <1>0, <1>7, <2>3, <2>4, <2>5, <2>6, MetaChange
    <2> QED
      BY <1>7, <2>7, IdleFacts DEF MetaParts, MetaInStep
  <1>8. CASE Put
    <2>1. op.kind = "put" /\ op.key \in Keys /\ up # "down"
      BY <1>0, <1>8, IdleFacts DEF Put, CallInStep
    <2>2. /\ mem' = [mem EXCEPT ![Type] = Content(mem[Type]) \cup {op.key}] /\ op' = Idle
          /\ file' = [file EXCEPT ![Type] = mem'[Type]]
          /\ ack' = [ack EXCEPT ![op.key] = "in"]
      BY <1>8 DEF Put, SaveType, Returns
    <2> QED
      BY <1>7, <2>1, <2>2
  <1>9. ASSUME op.kind = "delete", op.key \in Keys, up # "down", ack[op.key] = "any", ack' = ack,
               mem[Type] # NoFile, mem' = [mem EXCEPT ![Type] = mem[Type] \ {op.key}],
               \/ file' = file /\ op' = Idle
               \/ file' = [file EXCEPT ![Type] = mem'[Type]] /\ op'.key = op.key
        PROVE  MetaParts'
    <2> DEFINE x == mem[Type] \ {op.key}
    <2>1. Type \in Types /\ Type = TypeOf[op.key] /\ mem[Type] \in SUBSET Keys
      BY <1>0, <1>9, KeyFacts DEF Type, MetaParts
    <2>2. /\ x \in SUBSET Keys /\ op.key \notin x
          /\ \A k \in Keys : k # op.key => (k \in x <=> k \in mem[Type])
      BY <1>9, <2>1
    <2>3. mem' = [mem EXCEPT ![Type] = x] /\ mem'[Type] = x
      BY <1>0, <1>9, <2>1 DEF MetaParts
    <2> HIDE DEF x
    <2>4. file' = file \/ file' = [file EXCEPT ![Type] = x]
      BY <1>9, <2>3
    <2>5. /\ mem' \in [Types -> (SUBSET Keys) \cup {NoFile}]
          /\ file' \in [Types -> (SUBSET Keys) \cup {NoFile, TornFile}]
          /\ AckedSurvives'
          /\ \A t \in Types : file'[t] # TornFile
          /\ \A t \in Types : mem'[t] = NoFile => file'[t] = NoFile
          /\ \A k \in Keys : /\ ack'[k] = "in" => k \in mem'[TypeOf[k]]
                             /\ ack'[k] = "out" => k \notin mem'[TypeOf[k]]
      BY <1>0, <1>9, <2>2, <2>3, <2>4, MetaChange
    <2>6. op'.kind = "delete" => op'.key \notin mem'[Type'] \cup file'[Type']
      <3>1. CASE op' = Idle
        BY <3>1, IdleFacts
      <3>2. CASE file' = [file EXCEPT ![Type] = mem'[Type]] /\ op'.key = op.key
        <4>1. Type' = Type /\ file'[Type] = x
          BY <1>0, <2>1, <2>3, <3>2 DEF Type, MetaParts
        <4> QED
          BY <2>2, <2>3, <3>2, <4>1
      <3> QED
        BY <1>9, <3>1, <3>2
    <2> QED
      BY <2>5, <2>6 DEF MetaParts, MetaInStep
  <1>10. CASE Delete
    <2>1. op.kind = "delete" /\ op.key \in Keys /\ up # "down" /\ ack[op.key] = "any"
      BY <1>0, <1>10, IdleFacts DEF Delete, CallInStep
    <2>2. ack' = ack /\ up' = up /\ op'.key = op.key
      BY <1>0, <1>10, AtFacts DEF Delete, StoreTypes, Ats
    <2>3. CASE mem[Type] = NoFile
      <3>1. UNCHANGED <<mem, file>> /\ Type' = Type /\ Type = TypeOf[op.key] /\ Type \in Types
        BY <1>10, <2>1, <2>2, <2>3, KeyFacts DEF Delete, metaVars, Type
      <3>2. file[Type] = NoFile /\ op.key \notin NoFile
        BY <1>0, <2>1, <2>3, <3>1, KeyFacts DEF MetaParts, MetaInStep
      <3>3. op'.key \notin mem'[Type'] \cup file'[Type']
        BY <2>2, <2>3, <3>1, <3>2
      <3>4. AckedSurvives'
        BY <1>0, <2>2, <3>1 DEF MetaParts, AckedSurvives
      <3>5. MetaInStep'
        BY <1>0, <2>1, <2>2, <3>1, <3>3 DEF MetaParts, MetaInStep
      <3> QED
        BY <1>0, <3>1, <3>4, <3>5 DEF MetaParts
    <2>4. CASE mem[Type] # NoFile
      <3>1. /\ mem' = [mem EXCEPT ![Type] = mem[Type] \ {op.key}]
            /\ file' = [file EXCEPT ![Type] = mem'[Type]]
        BY <1>10, <2>4 DEF Delete, SaveType
      <3> QED
        BY <1>9, <2>1, <2>2, <2>4, <3>1
    <2> QED
      BY <2>3, <2>4
  <1>11. CASE SaveTypeFails
    <2>1. /\ op.key \in Keys /\ up # "down" /\ ack[op.key] = "any" /\ ack' = ack /\ op' = Idle
          /\ op.kind = "put" \/ (op.kind = "delete" /\ mem[Type] # NoFile)
      BY <1>0, <1>11, IdleFacts DEF SaveTypeFails, Fails, CallInStep
    <2>2. /\ file' = file
          /\ op.kind = "put" => mem' = [mem EXCEPT ![Type] = Content(mem[Type]) \cup {op.key}]
          /\ op.kind = "delete" => mem' = [mem EXCEPT ![Type] = mem[Type] \ {op.key}]
      BY <1>11 DEF SaveTypeFails, FileKept
    <2>3. CASE op.kind = "put"
      BY <1>7, <2>1, <2>2, <2>3
    <2>4. CASE op.kind = "delete"
      BY <1>9, <2>1, <2>2, <2>4
    <2> QED
      BY <2>1, <2>3, <2>4
  <1>12. CASE CloseMeta
    <2>1. /\ UNCHANGED <<mem, ack, up>> /\ op.kind = "close" /\ up # "down"
      BY <1>0, <1>12, IdleFacts DEF CloseMeta, CallInStep
    <2>2. PICK t \in op.todo : \/ file' = [file EXCEPT ![t] = mem[t]] \/ file' = file
      BY <1>12, <2>1 DEF CloseMeta, SaveType
    <2>3. t \in Types
      BY <1>0 DEF StoreTypes, Ops
    <2>4. \A u \in Types : file'[u] \in {file[u], mem[u]}
      BY <1>0, <2>2, <2>3 DEF MetaParts
    <2>5. file' \in [Types -> (SUBSET Keys) \cup {NoFile, TornFile}]
      BY <1>0, <2>2, <2>3 DEF MetaParts
    <2>6. AckedSurvives'
      <3> SUFFICES ASSUME NEW k \in Keys
                   PROVE  /\ ack[k] = "in" => k \in file'[TypeOf[k]]
                          /\ ack[k] = "out" => k \notin file'[TypeOf[k]]
        BY <2>1 DEF AckedSurvives
      <3> QED
        BY <1>0, <2>1, <2>4, KeyFacts DEF MetaParts, MetaInStep, AckedSurvives
    <2>7. op'.kind = "close"
      <3>1. op \in Ops
        BY <1>0 DEF StoreTypes
      <3> QED
        BY <1>12, <2>1, <3>1 DEF CloseMeta, Ops
    <2>8. NoFile # TornFile
      BY DEF NoFile, TornFile
    <2>9. \A u \in Types : mem[u] # TornFile
      BY <1>0, <2>8, StorageAssumption DEF MetaParts, TornFile
    <2>10. MetaInStep'
      BY <1>0, <2>1, <2>4, <2>7, <2>9 DEF MetaParts, MetaInStep
    <2> QED
      BY <1>0, <2>1, <2>5, <2>6, <2>10 DEF MetaParts
  <1>13. CASE SetTag \/ DeleteTag \/ NotifyDirty \/ PersistStep \/ UNCHANGED vars
    <2>1. UNCHANGED <<up, op, ack, mem, file>>
      BY <1>13, Zenon DEF SetTag, DeleteTag, ChangeTag, NotifyDirty, PersistStep, RestoreAll,
            TakeDirty, Debounced, SeesStop, FlushAll, SaveToDisk, FlushFails, storeVars, vars,
            metaVars
    <2> QED
      BY <1>0, <2>1, MetaKept
  <1> QED
    BY <1>1, <1>2, <1>4, <1>5, <1>6, <1>8, <1>10, <1>11, <1>12, <1>13, Zenon
       DEF Next, StorageStep

-----------------------------------------------------------------------------
(* The stop.                                                               *)
StopParts == CleanStopAgrees /\ StopInStep

(* After a call that was neither a stop nor preceded by a clean one there  *)
(* is nothing to show.                                                     *)
LEMMA NoStop ==
  ASSUME ~clean', op'.kind # "close" PROVE StopParts'
  BY DEF StopParts, CleanStopAgrees, StopInStep

(* A clean stop, and the steps of a stop, leave the snapshot and the meta  *)
(* files in agreement.                                                     *)
LEMMA StopNext == StorageInv /\ [Next]_vars => StopParts'
  <1> SUFFICES ASSUME StorageInv, [Next]_vars PROVE StopParts'
    OBVIOUS
  <1>0. /\ StoreTypes /\ CallInStep /\ CleanStopAgrees /\ StopInStep
        /\ SnapParts /\ MetaInStep
    BY TypeParts DEF StorageInv, StoreTypes, SnapParts
  <1>1. CASE NewStorageManager
    <2>1. /\ mem' = [t \in Types |-> IF file[t] = TornFile THEN NoFile ELSE file[t]]
          /\ UNCHANGED <<snaps, file, op, clean>> /\ op = Idle
      BY <1>0, <1>1 DEF NewStorageManager, NewMetaStore, LoadAll, CallInStep
    <2>2. mem' = file'
      BY <1>0, <2>1 DEF StoreTypes, MetaInStep
    <2>3. CleanStopAgrees'
      BY <1>0, <2>1 DEF CleanStopAgrees, Content
    <2>4. StopInStep'
      BY <2>1, <2>2, IdleFacts DEF StopInStep
    <2> QED
      BY <2>3, <2>4 DEF StopParts
  <1>2. ASSUME NEW k \in Keys, AppendEventAndSave(k) \/ DeleteResource(k) PROVE StopParts'
    <2>1. PICK kind \in {"put", "delete"}, at \in {"append", "delete"} : Begin(kind, k, at)
      BY <1>2 DEF AppendEventAndSave, DeleteResource
    <2>2. op'.kind = kind /\ clean' = FALSE
      BY <2>1, BeginFacts DEF Kinds, Ats
    <2> QED
      BY <2>1, <2>2, NoStop
  <1>3. ASSUME op.kind \in {"put", "delete"}, UNCHANGED clean, op'.kind # "close"
        PROVE  StopParts'
    <2>1. ~clean'
      BY <1>0, <1>3 DEF StopInStep
    <2> QED
      BY <1>3, <2>1, NoStop
  <1>4. CASE AppendStores \/ AppendFails \/ Put \/ Delete \/ SaveTypeFails
    <2>1. op.kind \in {"put", "delete"} /\ UNCHANGED clean
      BY <1>0, <1>4 DEF AppendStores, AppendFails, Put, Delete, SaveTypeFails, CallInStep
    <2>2. \/ \E ok \in BOOLEAN : Continue(ok)
          \/ op' = Idle
          \/ \E at \in {"snapshot", "append"} : op' = [op EXCEPT !.at = at]
      BY <1>4 DEF AppendStores, AppendFails, Put, Delete, SaveTypeFails, Fails, Returns
    <2>3. op'.kind # "close"
      <3>1. ASSUME NEW ok \in BOOLEAN, Continue(ok) PROVE op'.kind # "close"
        BY <1>0, <2>1, <3>1, ContinueFacts, IdleFacts
      <3>2. CASE op' = Idle
        BY <3>2, IdleFacts
      <3>3. ASSUME NEW at \in {"snapshot", "append"}, op' = [op EXCEPT !.at = at]
            PROVE  op'.kind # "close"
        BY <1>0, <2>1, <3>3, AtFacts DEF StoreTypes, Ats
      <3> QED
        BY <2>2, <3>1, <3>2, <3>3
    <2> QED
      BY <1>3, <2>1, <2>3
  <1>5. CASE CreateSnapshot
    <2>1. /\ op.at = "snapshot" /\ op' = [op EXCEPT !.at = "cleanup"]
          /\ UNCHANGED <<mem, file, clean, up>>
      BY <1>5 DEF CreateSnapshot, metaVars
    <2>2. /\ op'.at = "cleanup" /\ op'.kind = op.kind /\ op'.todo = op.todo /\ op'.ok = op.ok
      BY <1>0, <2>1, AtFacts DEF StoreTypes, Ats
    <2>3. /\ latest' \in snaps' /\ latest'.state = ListAll /\ ListAll' = ListAll
          /\ \A s \in snaps' : s.time <= latest'.time /\ up # "down"
      BY <1>5, <2>1, CreateFacts DEF ListAll
    <2>4. CleanStopAgrees'
      <3> SUFFICES ASSUME clean, NEW t \in Types
                   PROVE  latest'.state[t] = Content(file'[t])
        BY <2>1, <2>3 DEF CleanStopAgrees, Content
      <3>1. mem = file
        BY <1>0, <2>3 DEF StopInStep
      <3> QED
        BY <2>1, <2>3, <3>1 DEF ListAll
    <2>5. StopInStep'
      BY <1>0, <2>1, <2>2, <2>3 DEF StopInStep
    <2> QED
      BY <2>4, <2>5 DEF StopParts
  <1>6. CASE (CleanupOldSnapshots \/ SnapshotFails) /\ op.kind # "close"
    <2>1. /\ UNCHANGED clean /\ op.kind \in {"put", "delete"}
      BY <1>0, <1>6, IdleFacts
         DEF CleanupOldSnapshots, SnapshotFails, CallInStep, StoreTypes, Ops, Kinds
    <2>2. PICK ok \in BOOLEAN : Continue(ok)
      BY <1>6 DEF CleanupOldSnapshots, SnapshotFails
    <2>3. op'.kind # "close"
      BY <1>0, <1>6, <2>2, ContinueFacts, IdleFacts
    <2> QED
      BY <1>3, <2>1, <2>3
  <1>7. CASE CleanupOldSnapshots /\ op.kind = "close"
    <2>1. /\ Continue(TRUE) /\ op.at = "cleanup" /\ UNCHANGED <<latest, mem, file, clean, up>>
      BY <1>7 DEF CleanupOldSnapshots, metaVars
    <2>2. /\ op'.at = "save" /\ op'.kind = "close" /\ op'.todo = op.todo /\ op'.ok = op.ok
      <3>1. op.ok \in BOOLEAN
        BY <1>0 DEF StoreTypes, Ops
      <3> QED
        BY <1>0, <1>7, <2>1, <3>1, ContinueFacts
    <2>3. /\ snaps' \subseteq snaps
          /\ \A s \in snaps : (\A r \in snaps : r.time <= s.time) => s \in snaps'
      BY <1>0, <1>7, CleanupFacts DEF SnapParts
    <2>4. latest \in snaps => latest \in snaps'
      <3>1. up # "down"
        BY <1>0, <1>7, IdleFacts DEF CallInStep
      <3> QED
        BY <1>0, <2>3, <3>1 DEF SnapParts, NewestIsKept
    <2>5. CleanStopAgrees'
      BY <1>0, <2>1, <2>3 DEF CleanStopAgrees, Content
    <2>6. StopInStep'
      BY <1>0, <1>7, <2>1, <2>2, <2>4 DEF StopInStep, ListAll
    <2> QED
      BY <2>5, <2>6 DEF StopParts
  <1>8. CASE SnapshotFails /\ op.kind = "close"
    <2>1. /\ Continue(FALSE) /\ UNCHANGED <<snaps, mem, file, clean, up>>
      BY <1>8 DEF SnapshotFails, metaVars, snapVars
    <2>2. op'.kind = "close" /\ ~op'.ok
      BY <1>0, <1>8, <2>1, ContinueFacts
    <2>3. CleanStopAgrees'
      BY <1>0, <2>1 DEF CleanStopAgrees, Content
    <2>4. StopInStep'
      BY <1>0, <2>1, <2>2 DEF StopInStep
    <2> QED
      BY <2>3, <2>4 DEF StopParts
  <1>9. CASE Close
    <2>1. /\ up = "run" /\ UNCHANGED <<snaps, latest, mem, file, clean>>
          /\ op' = [Idle EXCEPT !.at = "snapshot", !.kind = "close",
                                !.todo = {t \in Types : mem[t] # NoFile}]
      BY <1>9 DEF Close, metaVars, snapVars
    <2>2. op'.at = "snapshot" /\ op'.kind = "close" /\ op'.todo = {t \in Types : mem[t] # NoFile}
      BY <2>1 DEF Idle
    <2>3. \A t \in Types \ op'.todo : file'[t] = mem'[t]
      BY <1>0, <2>1, <2>2 DEF MetaInStep
    <2>4. CleanStopAgrees'
      BY <1>0, <2>1 DEF CleanStopAgrees, Content
    <2>5. StopInStep'
      BY <1>0, <2>1, <2>2, <2>3 DEF StopInStep
    <2> QED
      BY <2>4, <2>5 DEF StopParts
  <1>10. CASE CloseMeta
    <2>1. /\ op.at = "save" /\ op.kind = "close" /\ up # "down"
          /\ UNCHANGED <<snaps, latest, mem, clean, up>>
      BY <1>0, <1>10, IdleFacts DEF CloseMeta, snapVars, CallInStep
    <2>2. PICK t \in op.todo :
             \/ /\ file' = [file EXCEPT ![t] = mem[t]]
                /\ op' = [op EXCEPT !.todo = op.todo \ {t}]
             \/ file' = file /\ op' = [op EXCEPT !.todo = {}, !.ok = FALSE]
      BY <1>10, <2>1 DEF CloseMeta, SaveType
    <2>3. t \in Types /\ op \in Ops
      BY <1>0 DEF StoreTypes, Ops
    <2>4. clean => file' = file
      <3>1. clean => mem = file
        BY <1>0, <2>1 DEF StopInStep
      <3>2. [file EXCEPT ![t] = file[t]] = file
        BY <1>0, <2>3 DEF StoreTypes
      <3> QED
        BY <2>2, <3>1, <3>2
    <2>5. CleanStopAgrees'
      BY <1>0, <2>1, <2>4 DEF CleanStopAgrees, Content
    <2>6. op'.kind = "close"
      BY <2>1, <2>2, <2>3 DEF Ops
    <2>7. op'.ok => /\ op.ok /\ op'.todo = op.todo \ {t} /\ op'.at = "save"
                    /\ file' = [file EXCEPT ![t] = mem[t]]
      BY <2>1, <2>2, <2>3 DEF Ops
    <2>8. op'.ok => \A u \in Types \ op'.todo : file'[u] = mem'[u]
      BY <1>0, <2>1, <2>3, <2>7 DEF StopInStep, StoreTypes
    <2>9. StopInStep'
      <3>1. clean' => mem' = file'
        BY <1>0, <2>1, <2>4 DEF StopInStep
      <3>2. op'.ok => latest' \in snaps' /\ latest'.state = ListAll'
        BY <1>0, <2>1, <2>7 DEF StopInStep, ListAll
      <3> QED
        BY <2>6, <2>8, <3>1, <3>2 DEF StopInStep
    <2> QED
      BY <2>5, <2>9 DEF StopParts
  <1>11. CASE Exit
    <2>1. /\ op.at = "save" /\ op.kind = "close" /\ op.todo = {} /\ clean' = op.ok
          /\ op' = Idle /\ up' = "down" /\ UNCHANGED <<snaps, file>> /\ up # "down"
      BY <1>0, <1>11, IdleFacts DEF Exit, Dies, snapVars, metaVars, CallInStep
    <2>2. op.ok => /\ latest \in snaps /\ latest.state = ListAll
                   /\ \A t \in Types : file[t] = mem[t]
      BY <1>0, <2>1 DEF StopInStep
    <2>3. latest \in snaps => \A s \in snaps : s.time <= latest.time
      BY <1>0, <2>1 DEF SnapParts, NewestIsKept
    <2>4. CleanStopAgrees'
      <3> SUFFICES ASSUME op.ok, NEW t \in Types
                   PROVE  \E s \in snaps : /\ \A r \in snaps : r.time <= s.time
                                           /\ s.state[t] = Content(file[t])
        BY <2>1 DEF CleanStopAgrees, Content
      <3>1. latest.state[t] = Content(file[t])
        BY <2>2 DEF ListAll
      <3> QED
        BY <2>2, <2>3, <3>1
    <2>5. StopInStep'
      BY <2>1, IdleFacts DEF StopInStep
    <2> QED
      BY <2>4, <2>5 DEF StopParts
  <1>12. CASE Crash
    <2>1. /\ op' = Idle /\ up' = "down" /\ UNCHANGED <<snaps, file>> /\ (clean' => clean)
      BY <1>12 DEF Crash, Dies, snapVars, metaVars
    <2>2. CleanStopAgrees'
      BY <1>0, <2>1 DEF CleanStopAgrees, Content
    <2>3. StopInStep'
      BY <2>1, IdleFacts DEF StopInStep
    <2> QED
      BY <2>2, <2>3 DEF StopParts
  <1>13. CASE SetTag \/ DeleteTag \/ NotifyDirty \/ PersistStep \/ UNCHANGED vars
    <2>1. UNCHANGED <<up, op, snaps, latest, mem, file, clean>>
      BY <1>13, Zenon DEF SetTag, DeleteTag, ChangeTag, NotifyDirty, PersistStep, RestoreAll,
            TakeDirty, Debounced, SeesStop, FlushAll, SaveToDisk, FlushFails, storeVars, vars,
            metaVars, snapVars
    <2>2. CleanStopAgrees'
      BY <1>0, <2>1 DEF CleanStopAgrees, Content
    <2>3. StopInStep'
      BY <1>0, <2>1 DEF StopInStep, ListAll
    <2> QED
      BY <2>2, <2>3 DEF StopParts
  <1> QED
    BY <1>1, <1>2, <1>4, <1>5, <1>6, <1>7, <1>8, <1>9, <1>10, <1>11, <1>12, <1>13, Zenon
       DEF Next, StorageStep

-----------------------------------------------------------------------------
(* The tags.                                                               *)
TagParts == TagTypes /\ TagsAreKept /\ TagsInStep

LEMMA FaultTypes ==
  ASSUME faults \in 0..MaxFaults, Fault \/ NoFault PROVE faults' \in 0..MaxFaults
  BY StorageAssumption DEF Fault, NoFault

(* The calls of the manager leave the tags alone.                          *)
LEMMA TagsKeptBy ==
  ASSUME TagParts, UNCHANGED tagVars, up' = "down" => up = "down",
         work' = work \/ (work < MaxWork /\ work' = work + 1),
         faults' \in 0..MaxFaults
  PROVE  TagParts'
  <1>1. UNCHANGED <<run, dirty, tag, out, tagFile, saved, spoiled>>
    BY DEF tagVars
  <1>2. work' \in 0..MaxWork /\ work <= work' /\ work \in Nat
    BY StorageAssumption DEF TagParts, TagTypes
  <1>3. TagTypes'
    <2>1. tag' \in 0..work' /\ out' \in 0..work' /\ saved' \in 0..work'
      BY <1>1, <1>2 DEF TagParts, TagTypes
    <2>2. tagFile' \in (0..work') \cup {Torn}
      BY <1>1, <1>2 DEF TagParts, TagTypes
    <2> QED
      BY <1>1, <1>2, <2>1, <2>2 DEF TagParts, TagTypes
  <1>4. TagsAreKept'
    BY <1>1 DEF TagParts, TagsAreKept
  <1>5. TagsInStep'
    BY <1>1 DEF TagParts, TagsInStep, Torn
  <1> QED
    BY <1>3, <1>4, <1>5 DEF TagParts

(* Every step keeps the tags in memory and in persist.json in step.        *)
LEMMA TagsNext == StorageInv /\ [Next]_vars => TagParts'
  <1> SUFFICES ASSUME StorageInv, [Next]_vars PROVE TagParts'
    OBVIOUS
  <1>0. TagParts /\ CallInStep
    BY TypeParts DEF StorageInv, TagParts
  <1>t. /\ work \in Nat /\ work <= MaxWork /\ tag \in Nat /\ tag <= work /\ out \in Nat
        /\ out <= work /\ saved \in Nat /\ saved <= work
        /\ tagFile \in Nat /\ (tagFile <= work \/ tagFile = MaxWork + 1)
        /\ spoiled \in BOOLEAN /\ faults \in 0..MaxFaults /\ MaxWork \in Nat
    BY <1>0, StorageAssumption DEF TagParts, TagTypes, Torn
  <1>1. CASE NewStorageManager
    <2>1. /\ up = "down" /\ run' = "restore" /\ tag' = 0 /\ dirty' = FALSE /\ up' = "run"
          /\ UNCHANGED <<out, tagFile, work, faults, saved, spoiled>>
      BY <1>1 DEF NewStorageManager
    <2>2. run = "off"
      BY <1>0, <2>1 DEF TagParts, TagsInStep
    <2>3. TagTypes'
      <3>1. tag' \in 0..work
        BY <1>t, <2>1
      <3> QED
        BY <1>0, <2>1, <3>1 DEF TagParts, TagTypes, Torn
    <2>4. TagsAreKept'
      BY <2>1 DEF TagsAreKept
    <2>5. TagsInStep'
      BY <1>0, <2>1, <2>2 DEF TagParts, TagsInStep, Torn
    <2> QED
      BY <2>3, <2>4, <2>5 DEF TagParts
  <1>2. ASSUME NEW k \in Keys, AppendEventAndSave(k) \/ DeleteResource(k) PROVE TagParts'
    <2>1. UNCHANGED <<tagVars, up, faults>> /\ work < MaxWork /\ work' = work + 1
      BY <1>2 DEF AppendEventAndSave, DeleteResource, Begin
    <2> QED
      BY <1>0, <1>t, <2>1, TagsKeptBy
  <1>3. CASE \/ AppendStores \/ AppendFails \/ CreateSnapshot \/ CleanupOldSnapshots
             \/ SnapshotFails \/ Put \/ Delete \/ SaveTypeFails \/ CloseMeta
    <2>1. UNCHANGED <<tagVars, up, work>> /\ (Fault \/ NoFault)
      BY <1>3, Zenon DEF AppendStores, AppendFails, CreateSnapshot, CleanupOldSnapshots,
                         SnapshotFails, Put, Delete, SaveTypeFails, CloseMeta
    <2> QED
      BY <1>0, <1>t, <2>1, FaultTypes, TagsKeptBy
  <1>4. CASE Close
    <2>1. UNCHANGED <<tagVars, work, faults>> /\ up' # "down"
      BY <1>4 DEF Close
    <2> QED
      BY <1>0, <1>t, <2>1, TagsKeptBy
  <1>5. CASE Exit \/ Crash
    <2>1. /\ run' = "off" /\ dirty' = FALSE /\ tag' = 0 /\ out' = 0 /\ up' = "down"
          /\ spoiled' = (spoiled \/ run = "write")
          /\ UNCHANGED <<tagFile, saved, work, faults>>
      BY <1>5, Zenon DEF Exit, Crash, Dies
    <2>2. spoiled' \in BOOLEAN /\ (~spoiled' => ~spoiled /\ run # "write")
      BY <1>t, <2>1, Zenon
    <2>3. TagTypes'
      <3>1. tag' \in 0..work /\ out' \in 0..work
        BY <1>t, <2>1
      <3> QED
        BY <1>0, <2>1, <2>2, <3>1 DEF TagParts, TagTypes, Torn
    <2>4. TagsAreKept'
      BY <2>1 DEF TagsAreKept
    <2>5. TagsInStep'
      BY <1>0, <2>1, <2>2 DEF TagParts, TagsInStep, Torn
    <2> QED
      BY <2>3, <2>4, <2>5 DEF TagParts
  <1>6. CASE SetTag \/ DeleteTag
    <2>1. /\ up = "run" /\ up' = up /\ work < MaxWork /\ work' = work + 1 /\ tag' = work + 1
          /\ UNCHANGED <<faults, run, dirty, out, tagFile, saved, spoiled>>
      BY <1>6 DEF SetTag, DeleteTag, ChangeTag, HandleCall, storeVars
    <2>2. TagTypes'
      BY <1>t, <1>0, <2>1 DEF TagParts, TagTypes, Torn
    <2>3. TagsAreKept'
      BY <1>t, <2>1 DEF TagsAreKept
    <2>4. TagsInStep'
      BY <1>0, <1>t, <2>1 DEF TagParts, TagsInStep, Torn
    <2> QED
      BY <2>2, <2>3, <2>4 DEF TagParts
  <1>7. CASE NotifyDirty
    <2>1. /\ up = "run" /\ up' = up /\ work < MaxWork /\ work' = work + 1 /\ dirty' = TRUE
          /\ UNCHANGED <<faults, run, tag, out, tagFile, saved, spoiled>>
      BY <1>7 DEF NotifyDirty, storeVars
    <2>2. TagTypes'
      BY <1>t, <1>0, <2>1 DEF TagParts, TagTypes, Torn
    <2> QED
      BY <1>0, <2>1, <2>2 DEF TagParts, TagsAreKept, TagsInStep, Torn
  <1>8. CASE RestoreAll
    <2>1. /\ run = "restore" /\ run' = "select" /\ up' = up
          /\ \/ tagFile = Torn /\ tag' = tag
             \/ tagFile # Torn /\ tag' = tagFile
          /\ UNCHANGED <<work, faults, dirty, out, tagFile, saved, spoiled>>
      BY <1>8 DEF RestoreAll, LoadFromDisk, Import, storeVars
    <2>2. up # "down"
      BY <1>0, <2>1 DEF TagParts, TagsInStep
    <2>3. tagFile # Torn /\ ~spoiled => tagFile = saved
      BY <1>0, <2>1 DEF TagParts, TagsInStep
    <2>4. tagFile = Torn /\ ~spoiled => saved = 0
      BY <1>0, <1>t, <2>1 DEF TagParts, TagsInStep, Torn
    <2>5. tag' \in 0..work
      BY <1>t, <2>1 DEF Torn
    <2>6. TagTypes'
      BY <1>t, <1>0, <2>1, <2>5 DEF TagParts, TagTypes, Torn
    <2>7. TagsAreKept'
      BY <1>t, <2>1, <2>3, <2>4 DEF TagsAreKept
    <2>8. TagsInStep'
      BY <1>0, <2>1, <2>2 DEF TagParts, TagsInStep, Torn
    <2> QED
      BY <2>6, <2>7, <2>8 DEF TagParts
  <1>9. CASE TakeDirty \/ Debounced \/ SeesStop
    <2>1. /\ run \in {"select", "debounce"} /\ run' \in {"debounce", "flush"}
          /\ dirty' \in {dirty, FALSE} /\ up' = up
          /\ UNCHANGED <<work, faults, tag, out, tagFile, saved, spoiled>>
      BY <1>9 DEF TakeDirty, Debounced, SeesStop, AfterDirty, storeVars
    <2>2. TagTypes'
      BY <1>t, <1>0, <2>1 DEF TagParts, TagTypes, Torn
    <2>3. TagsAreKept'
      BY <1>0, <2>1 DEF TagParts, TagsAreKept
    <2>4. TagsInStep'
      BY <1>0, <2>1 DEF TagParts, TagsInStep, Torn
    <2> QED
      BY <2>2, <2>3, <2>4 DEF TagParts
  <1>10. CASE FlushAll
    <2>1. /\ run = "flush" /\ run' = "write" /\ out' = tag /\ tagFile' = Torn /\ up' = up
          /\ UNCHANGED <<work, faults, dirty, tag, saved, spoiled>>
      BY <1>10 DEF FlushAll, Export, storeVars
    <2>2. TagTypes'
      BY <1>t, <1>0, <2>1 DEF TagParts, TagTypes, Torn
    <2>3. TagsAreKept'
      BY <1>0, <2>1 DEF TagParts, TagsAreKept
    <2>4. TagsInStep'
      BY <1>0, <1>t, <2>1 DEF TagParts, TagsInStep, Torn
    <2> QED
      BY <2>2, <2>3, <2>4 DEF TagParts
  <1>11. CASE SaveToDisk
    <2>1. /\ run = "write" /\ run' \in {"select", "ended"} /\ tagFile' = out /\ saved' = out
          /\ up' = up /\ UNCHANGED <<work, faults, dirty, tag, out, spoiled>>
      BY <1>11 DEF SaveToDisk, AfterFlush, storeVars
    <2>2. TagTypes'
      BY <1>t, <1>0, <2>1 DEF TagParts, TagTypes, Torn
    <2>3. ~spoiled => tag >= out
      BY <1>0, <2>1 DEF TagParts, TagsInStep
    <2>4. TagsAreKept'
      BY <2>1, <2>3 DEF TagsAreKept
    <2>5. TagsInStep'
      BY <1>0, <2>1 DEF TagParts, TagsInStep, Torn
    <2> QED
      BY <2>2, <2>4, <2>5 DEF TagParts
  <1>12. CASE FlushFails
    <2>1. /\ run \in {"flush", "write"} /\ run' \in {"select", "ended"} /\ spoiled' = TRUE
          /\ Fault /\ up' = up /\ UNCHANGED <<work, dirty, tag, out, tagFile, saved>>
      BY <1>12 DEF FlushFails, AfterFlush, storeVars
    <2>2. TagTypes'
      BY <1>t, <1>0, <2>1, FaultTypes DEF TagParts, TagTypes, Torn
    <2>3. TagsInStep' /\ TagsAreKept'
      BY <1>0, <2>1 DEF TagParts, TagsInStep, TagsAreKept
    <2> QED
      BY <2>2, <2>3 DEF TagParts
  <1>13. CASE UNCHANGED vars
    <2>1. UNCHANGED <<tagVars, up, work, faults>>
      BY <1>13 DEF vars
    <2> QED
      BY <1>0, <1>t, <2>1, TagsKeptBy
  <1> QED
    BY <1>1, <1>2, <1>3, <1>4, <1>5, <1>6, <1>7, <1>8, <1>9, <1>10, <1>11, <1>12, <1>13,
       Zenon DEF Next, StorageStep, PersistStep
-----------------------------------------------------------------------------
LEMMA StorageInvInit == Init => StorageInv /\ AckedSurvives
  <1> SUFFICES ASSUME Init PROVE StorageInv /\ AckedSurvives
    OBVIOUS
  <1> USE StorageAssumption
  <1>1. StoreTypes
    <2>1. /\ mem \in [Types -> (SUBSET Keys) \cup {NoFile}]
          /\ file \in [Types -> (SUBSET Keys) \cup {NoFile, TornFile}]
          /\ ack \in Acks
      BY DEF Init, Acks
    <2>2. /\ eventCount \in 0..(Interval - 1) /\ starts \in 0..MaxStarts
          /\ sequence \in Nat /\ count \in Nat
      BY DEF Init
    <2>3. lines \in Seq(Nat) /\ snaps \subseteq Snapshots
      BY DEF Init
    <2> QED
      BY <2>1, <2>2, <2>3, IdleFacts DEF Init, StoreTypes
  <1>2. TagTypes
    <2>1. /\ work \in 0..MaxWork /\ tag \in 0..work /\ out \in 0..work
          /\ saved \in 0..work /\ faults \in 0..MaxFaults
      BY DEF Init
    <2> QED
      BY <2>1 DEF Init, TagTypes
  <1>3. LogIsOrdered /\ LogInStep /\ NewestIsKept /\ NewestExists /\ TagsAreKept /\ TagsInStep
    BY DEF Init, LogIsOrdered, LogInStep, GoodSet, Good, NewestIsKept, NewestExists,
           TagsAreKept, TagsInStep
  <1>4. CallInStep /\ CleanStopAgrees /\ StopInStep
    BY IdleFacts DEF Init, CallInStep, CleanStopAgrees, StopInStep
  <1>5. MetaInStep /\ AckedSurvives
    BY IdleFacts, KeyFacts DEF Init, MetaInStep, AckedSurvives, NoFile, TornFile
  <1> QED
    BY <1>1, <1>2, <1>3, <1>4, <1>5, TypeParts DEF StorageInv

LEMMA StorageInvNext ==
  StorageInv /\ AckedSurvives /\ [Next]_vars => (StorageInv /\ AckedSurvives)'
  <1> SUFFICES ASSUME StorageInv, AckedSurvives, [Next]_vars
               PROVE  StorageInv' /\ AckedSurvives'
    OBVIOUS
  <1>1. LogParts' /\ SnapParts' /\ CallParts' /\ MetaParts' /\ StopParts' /\ TagParts'
    BY LogNext, SnapsNext, CallNext, MetaNext, StopNext, TagsNext
  <1>2. TypeOK'
    BY <1>1 DEF TypeOK, LogParts, SnapParts, CallParts, MetaParts, TagParts, TagTypes, Ops,
                Ats, Acks
  <1> QED
    BY <1>1, <1>2 DEF StorageInv, LogParts, SnapParts, CallParts, MetaParts, StopParts, TagParts

(* The books of the storage are kept, whatever calls, failing accesses,    *)
(* crashes and restarts come in whichever order: numbers of the log are    *)
(* not used twice, the newest snapshot is the one in memory, a clean stop  *)
(* leaves snapshot and meta files in agreement, and flushed tags come back *)
(* (event.go:57-157, snapshot.go:51-207, manager.go:105-222, persist.go:   *)
(* 89-167, 315-349).                                                       *)
THEOREM StorageIsSound == Spec => []StorageInv
  <1>1. Spec => [](StorageInv /\ AckedSurvives)
    BY StorageInvInit, StorageInvNext, PTL DEF Spec
  <1> QED
    BY <1>1, PTL

(* What a call that returned nil has stored or deleted is in the meta      *)
(* files from then on, until the next call on the same key, however calls  *)
(* on other keys of the file fail and wherever the process dies            *)
(* (manager.go:105-156, meta.go:44-90, 136-212).                           *)
THEOREM AcknowledgedSurvives == Spec => []AckedSurvives
  <1>1. Spec => [](StorageInv /\ AckedSurvives)
    BY StorageInvInit, StorageInvNext, PTL DEF Spec
  <1> QED
    BY <1>1, PTL

(* A restart never gives an event the number of an earlier one, also when  *)
(* lines were torn or glued together (event.go:57-92, 126-157).            *)
THEOREM NumbersAreNotReused == Spec => []LogIsOrdered
  <1>1. StorageInv => LogIsOrdered
    BY DEF StorageInv
  <1> QED
    BY <1>1, StorageIsSound, PTL

(* After a stop whose saves succeeded the newest snapshot and the meta     *)
(* files hold the same resources (manager.go:158-222, meta.go:136-148).    *)
THEOREM CleanStopsAgree == Spec => []CleanStopAgrees
  <1>1. StorageInv => CleanStopAgrees
    BY DEF StorageInv
  <1> QED
    BY <1>1, StorageIsSound, PTL
=============================================================================
