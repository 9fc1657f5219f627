------------------------------- MODULE Storage -------------------------------
(***************************************************************************)
(* What the server keeps on disk and what a start makes of it: the event   *)
(* log, the snapshots and the meta files of StorageManager (common/store), *)
(* and persist.json, which the persist plugin writes for the providers of  *)
(* common/persist, the tag plugin among them.                              *)
(*                                                                         *)
(* The calls of StorageManager exclude each other (its mu); one of them is *)
(* under way in op, a step for every access to the disk.  A step on the    *)
(* disk may fail, and the process may die between any two steps.  The tags *)
(* of all clients are one version number that grows with every change.     *)
(* Reading a file that exists is taken to succeed.                         *)
(***************************************************************************)
EXTENDS Naturals, Sequences, FiniteSets, FiniteSetsExt

CONSTANTS
    Keys,       \* the resources
    Types,      \* their types: "proxy", "relay"
    TypeOf,     \* [Keys -> Types]
    Interval,   \* SnapshotInterval
    Keep,       \* snapshots kept
    MaxWork,    \* bound: calls of the manager, changes of the tags and events
                \* that the persist plugin hears of, all together
    MaxStarts,  \* bound: starts of the server
    MaxFaults   \* bound: failing accesses to the disk

ASSUME StorageAssumption ==
    /\ TypeOf \in [Keys -> Types]
    /\ Interval \in Nat \ {0} /\ Keep \in Nat \ {0}
    /\ MaxWork \in Nat /\ MaxStarts \in Nat /\ MaxFaults \in Nat
    /\ "absent" \notin Keys /\ "torn" \notin Keys   \* see NoFile, TornFile

VARIABLES
    up,         \* the server process: "down", "run" or "closing"
    op,         \* the call that holds the manager's mu
    lines,      \* the log on disk: sequence numbers, Garbage if unparsable
    tail,       \* the last line of the open log file has no end
    sequence,   \* EventStore.sequence
    count,      \* len(EventStore.events)
    eventCount, \* StorageManager.eventCount
    snaps,      \* the snapshot files: [time, seq, state]
    latest,     \* SnapshotStore.latest, or NoSnap
    mem,        \* MetaStore.resources
    file,       \* the meta files
    run,        \* PersistPlugin.Run
    dirty,      \* dirtyCh
    tag,        \* the tags in memory
    out,        \* the tags that flushAll is writing
    tagFile,    \* the tags in persist.json, or Torn when there is no such file
    work, starts, faults,   \* bounds
    ack,        \* history: what the last call on a key that returned nil did
    clean,      \* history: the last stop stored everything, and no call since
    saved,      \* history: the newest tags that were written completely
    spoiled     \* history: a flush has failed or was cut short

logVars == <<lines, tail, sequence, count>>
snapVars == <<snaps, latest, eventCount>>
metaVars == <<mem, file>>
tagVars == <<run, dirty, tag, out, tagFile, saved, spoiled>>
vars == <<up, op, logVars, snapVars, metaVars, tagVars, work, starts, faults,
          ack, clean>>

Garbage == 0
NoFile == {"absent"}       \* also: no such type in the map of the meta store
TornFile == {"torn"}
Torn == MaxWork + 1
NoSnap == [time |-> 0, seq |-> 0, state |-> [t \in Types |-> {}]]
Idle == [at |-> "idle", kind |-> "none", key |-> "none", todo |-> {}, ok |-> TRUE]

Kinds == {"put", "delete", "close"}
Snapshots == [time : Nat \ {0}, seq : Nat, state : [Types -> SUBSET Keys]]

TypeOK ==
    /\ up \in {"down", "run", "closing"}
    /\ op \in [at : {"idle", "append", "snapshot", "cleanup", "save", "delete"},
               kind : Kinds \cup {"none"}, key : Keys \cup {"none"},
               todo : SUBSET Types, ok : BOOLEAN]
    /\ lines \in Seq(Nat) /\ tail \in BOOLEAN
    /\ sequence \in Nat /\ count \in Nat /\ eventCount \in 0..(Interval - 1)
    /\ snaps \subseteq Snapshots /\ latest \in snaps \cup {NoSnap}
    /\ mem \in [Types -> (SUBSET Keys) \cup {NoFile}]
    /\ file \in [Types -> (SUBSET Keys) \cup {NoFile, TornFile}]
    /\ run \in {"off", "restore", "select", "debounce", "flush", "write", "ended"}
    /\ dirty \in BOOLEAN
    /\ work \in 0..MaxWork /\ tag \in 0..work /\ out \in 0..work
    /\ saved \in 0..work /\ tagFile \in (0..work) \cup {Torn} /\ spoiled \in BOOLEAN
    /\ starts \in 0..MaxStarts /\ faults \in 0..MaxFaults
    /\ ack \in [Keys -> {"in", "out", "any"}] /\ clean \in BOOLEAN

Good(ls) == {i \in DOMAIN ls : ls[i] # Garbage}
GoodSet(ls) == {ls[i] : i \in Good(ls)}
Content(f) == f \ (NoFile \cup TornFile)

ListAll == [t \in Types |-> Content(mem[t])]

Fault == faults < MaxFaults /\ faults' = faults + 1
NoFault == faults' = faults

-----------------------------------------------------------------------------
(* The start: NewStorageManager, and the goroutine of the persist plugin.   *)

\* Mutated form of LastNumber: the events are counted.
NumberOfEvents == Cardinality(Good(lines))
LastNumber == Max(GoodSet(lines) \cup {0})

\* loadEvents: what parses is loaded, and the numbers go on after the greatest.
LoadEvents ==
    /\ count' = Cardinality(Good(lines))
    /\ sequence' = LastNumber

\* openFile: a file named after the second, so an earlier one of that second
\* is appended to.
OpenFile == tail' \in {FALSE, tail} /\ UNCHANGED lines

\* loadLatest: the snapshot with the greatest timestamp.
LoadLatest ==
    latest' = IF snaps = {} THEN NoSnap
              ELSE CHOOSE s \in snaps : \A r \in snaps : r.time <= s.time

\* loadAll: a file that does not parse is passed over.
LoadAll == mem' = [t \in Types |-> IF file[t] = TornFile THEN NoFile ELSE file[t]]

NewEventStore == LoadEvents /\ OpenFile
NewSnapshotStore == LoadLatest
NewMetaStore == LoadAll

NewStorageManager ==
    /\ up = "down" /\ starts < MaxStarts
    /\ NewEventStore /\ NewSnapshotStore /\ NewMetaStore
    /\ up' = "run" /\ starts' = starts + 1
    /\ eventCount' = 0 /\ run' = "restore" /\ tag' = 0 /\ dirty' = FALSE
    /\ UNCHANGED <<op, snaps, file, out, tagFile, work, faults,
                   ack, clean, saved, spoiled>>

-----------------------------------------------------------------------------
(* The calls of the manager.                                                *)

\* The type of the resource that the call under way is about.
Type == TypeOf[op.key]

Begin(kind, k, at) ==
    /\ up = "run" /\ op = Idle /\ work < MaxWork
    /\ op' = [Idle EXCEPT !.at = at, !.kind = kind, !.key = k]
    /\ work' = work + 1 /\ clean' = FALSE
    /\ ack' = [ack EXCEPT ![k] = "any"]
    /\ UNCHANGED <<up, logVars, snapVars, metaVars, tagVars, starts, faults>>

AppendEventAndSave(k) == Begin("put", k, "append")
DeleteResource(k) == Begin("delete", k, "delete")

\* The call returns: an error, and what it has done so far stays, ...
Fails == op' = Idle /\ UNCHANGED ack

\* ... or nil.
Returns ==
    /\ op' = Idle
    /\ ack' = [ack EXCEPT ![op.key] = IF op.kind = "put" THEN "in" ELSE "out"]

\* What follows the log and the snapshot in each call.
Continue(ok) ==
    IF op.kind = "delete" THEN Returns
    ELSE /\ op' = [op EXCEPT !.at = "save", !.ok = @ /\ ok]
         /\ UNCHANGED ack

\* EventStore.Append.  The number is taken before the write.  A write that is
\* cut leaves a line without an end, to which the next one is glued.
Line(n) == IF tail THEN [lines EXCEPT ![Len(lines)] = Garbage]
           ELSE Append(lines, n)

AppendStores ==
    /\ op.at = "append" /\ NoFault
    /\ sequence' = sequence + 1 /\ lines' = Line(sequence + 1)
    /\ tail' = FALSE /\ count' = count + 1
    /\ IF eventCount + 1 >= Interval
       THEN eventCount' = 0 /\ op' = [op EXCEPT !.at = "snapshot"] /\ UNCHANGED ack
       ELSE eventCount' = eventCount + 1 /\ Continue(TRUE)
    /\ UNCHANGED <<up, snaps, latest, metaVars, tagVars, work, starts, clean>>

AppendFails ==
    /\ op.at = "append" /\ Fault /\ Fails
    /\ sequence' = sequence + 1
    /\ \/ UNCHANGED <<lines, tail>>                             \* nothing written
       \/ lines' = Line(Garbage) /\ tail' = TRUE                \* a part of it
       \/ lines' = Line(sequence + 1) /\ tail' = FALSE          \* sync failed
    /\ UNCHANGED <<up, count, snapVars, metaVars, tagVars, work, starts, clean>>

\* SnapshotStore.Save: a temporary file, which no start reads, is renamed to the
\* millisecond of the snapshot, ...
SaveSnapshot(s) ==
    /\ snaps' = {r \in snaps : r.time # s.time} \cup {s}
    /\ latest' = s

CreateSnapshot ==
    /\ op.at = "snapshot" /\ NoFault
    /\ \E d \in {0, 1} :
         /\ latest.time + d > 0
         /\ SaveSnapshot([time |-> latest.time + d, seq |-> count, state |-> ListAll])
    /\ op' = [op EXCEPT !.at = "cleanup"]
    /\ UNCHANGED <<up, logVars, eventCount, metaVars, tagVars, work, starts, ack, clean>>

\* ... and cleanupOldSnapshots, the oldest first.
CleanupOldSnapshots ==
    /\ op.at = "cleanup" /\ NoFault /\ Continue(TRUE)
    /\ snaps' = {s \in snaps : Cardinality({r \in snaps : r.time > s.time}) < Keep}
    /\ UNCHANGED <<up, logVars, latest, eventCount, metaVars, tagVars, work, starts,
                   clean>>

\* A snapshot that fails is not reported.
SnapshotFails ==
    /\ op.at = "snapshot" /\ Fault /\ Continue(FALSE)
    /\ UNCHANGED <<up, logVars, snapVars, metaVars, tagVars, work, starts, clean>>

\* saveType: a temporary file, which no start reads, is renamed.
SaveType(t) == file' = [file EXCEPT ![t] = mem'[t]]


\* MetaStore.Put and Delete change the memory first.
Put ==
    /\ op.at = "save" /\ op.kind = "put" /\ NoFault
    /\ mem' = [mem EXCEPT ![Type] = Content(@) \cup {op.key}]
    /\ SaveType(Type) /\ Returns
    /\ UNCHANGED <<up, logVars, snapVars, tagVars, work, starts, clean>>

Delete ==
    /\ op.at = "delete" /\ NoFault
    /\ IF mem[Type] = NoFile THEN UNCHANGED metaVars
       ELSE mem' = [mem EXCEPT ![Type] = @ \ {op.key}] /\ SaveType(Type)
    /\ op' = [op EXCEPT !.at = "append"]
    /\ UNCHANGED <<up, logVars, snapVars, tagVars, work, starts, ack, clean>>

\* Mutated form of FileKept: the file itself was being written.
FileTorn(t) == [file EXCEPT ![t] = TornFile]
FileKept(t) == file

\* The temporary file cannot be written or renamed: the memory has changed.
SaveTypeFails ==
    /\ \/ op.at = "save" /\ op.kind = "put"
       \/ op.at = "delete" /\ mem[Type] # NoFile
    /\ Fault /\ Fails
    /\ mem' = [mem EXCEPT ![Type] = IF op.kind = "put" THEN Content(@) \cup {op.key}
                                       ELSE @ \ {op.key}]
    /\ file' = FileKept(Type)
    /\ UNCHANGED <<up, logVars, snapVars, tagVars, work, starts, clean>>

-----------------------------------------------------------------------------
(* The stop: the plugins are told, the event bus is drained, and Close makes *)
(* a last snapshot and saves every type.  Nobody waits for the plugins.      *)

Close ==
    /\ up = "run" /\ op = Idle
    /\ up' = "closing"
    /\ op' = [Idle EXCEPT !.at = "snapshot", !.kind = "close",
                          !.todo = {t \in Types : mem[t] # NoFile}]
    /\ UNCHANGED <<logVars, snapVars, metaVars, tagVars, work, starts, faults, ack, clean>>

\* MetaStore.Close saves one type after the other, until one fails.
CloseMeta ==
    /\ op.at = "save" /\ op.kind = "close" /\ UNCHANGED mem
    /\ \E t \in op.todo :
         \/ NoFault /\ SaveType(t) /\ op' = [op EXCEPT !.todo = @ \ {t}]
         \/ Fault /\ UNCHANGED file /\ op' = [op EXCEPT !.todo = {}, !.ok = FALSE]
    /\ UNCHANGED <<up, logVars, snapVars, tagVars, work, starts, ack, clean>>

\* The process ends, and with it the plugin, wherever it is.
Dies ==
    /\ up' = "down" /\ op' = Idle
    /\ run' = "off" /\ dirty' = FALSE /\ tag' = 0 /\ out' = 0
    /\ spoiled' = (spoiled \/ run = "write")
    /\ UNCHANGED <<logVars, snapVars, metaVars, tagFile, saved, work, starts,
                   faults, ack>>

Exit ==
    /\ op.at = "save" /\ op.kind = "close" /\ op.todo = {}
    /\ Dies /\ clean' = op.ok

Crash ==
    /\ up # "down" /\ Dies
    /\ clean' = (clean /\ up = "run")

-----------------------------------------------------------------------------
(* The persist plugin and the tags.                                         *)

storeVars == <<up, op, logVars, snapVars, metaVars, starts, ack, clean>>

\* handleCall: a request that parses and names an action; any other one, and
\* one whose answer fails, changes nothing.
HandleCall == up = "run" /\ work < MaxWork /\ work' = work + 1

\* Execute finds the handler of the tag plugin, which registers it in Init,
\* before the server answers requests and before its Run restores the tags.
Execute == run # "off"

\* The calls that change the tags.  DeleteTag finds a tag to delete.
ChangeTag ==
    /\ HandleCall /\ Execute /\ tag' = work + 1
    /\ UNCHANGED <<storeVars, faults, run, dirty, out, tagFile, saved, spoiled>>

SetTag == ChangeTag
DeleteTag == tag > 0 /\ ChangeTag

\* An event of one of the four resource types.
NotifyDirty ==
    /\ up = "run" /\ work < MaxWork /\ work' = work + 1
    /\ dirty' = TRUE
    /\ UNCHANGED <<storeVars, faults, run, tag, out, tagFile, saved, spoiled>>

\* loadFromDisk: what persist.json says of the tags; a file that does not parse
\* says nothing.
LoadFromDisk == {v \in {tagFile} : v # Torn}

\* restoreAll: Import replaces the tags that are in memory by now.
Import(v) == tag' = v
RestoreAll ==
    /\ run = "restore" /\ run' = "select"
    /\ IF LoadFromDisk = {} THEN UNCHANGED tag
       ELSE \E v \in LoadFromDisk : Import(v)
    /\ UNCHANGED <<storeVars, work, faults, dirty, out, tagFile, saved, spoiled>>

\* Mutated form of AfterDirty: the notification is taken and forgotten.
Forgotten == {"debounce", "select"}
AfterDirty == {"debounce", "flush"}

\* The select of Run: the channel starts a second's wait, the ticker none.
TakeDirty ==
    /\ run = "select" /\ dirty /\ dirty' = FALSE
    /\ run' \in AfterDirty
    /\ UNCHANGED <<storeVars, work, faults, tag, out, tagFile, saved, spoiled>>

Debounced ==
    /\ run = "debounce" /\ run' = "flush"
    /\ UNCHANGED <<storeVars, work, faults, dirty, tag, out, tagFile, saved, spoiled>>

SeesStop ==
    /\ run \in {"select", "debounce"} /\ up = "closing" /\ run' = "flush"
    /\ UNCHANGED <<storeVars, work, faults, dirty, tag, out, tagFile, saved, spoiled>>

\* Whether Run goes on after a flush.
AfterFlush == IF up = "closing" THEN {"select", "ended"} ELSE {"select"}

\* flushAll and saveToDisk: the file is truncated ...
Export == tag
FlushAll ==
    /\ run = "flush" /\ run' = "write"
    /\ out' = Export /\ tagFile' = Torn
    /\ UNCHANGED <<storeVars, work, faults, dirty, tag, saved, spoiled>>

\* ... and then written.
SaveToDisk ==
    /\ run = "write" /\ run' \in AfterFlush
    /\ tagFile' = out /\ saved' = out
    /\ UNCHANGED <<storeVars, work, faults, dirty, tag, out, spoiled>>

FlushFails ==
    /\ run \in {"flush", "write"} /\ Fault
    /\ run' \in AfterFlush /\ spoiled' = TRUE
    /\ UNCHANGED <<storeVars, work, dirty, tag, out, tagFile, saved>>

-----------------------------------------------------------------------------
Init ==
    /\ up = "down" /\ op = Idle
    /\ lines = <<>> /\ tail = FALSE /\ sequence = 0 /\ count = 0
    /\ eventCount = 0 /\ snaps = {} /\ latest = NoSnap
    /\ mem = [t \in Types |-> NoFile] /\ file = [t \in Types |-> NoFile]
    /\ run = "off" /\ dirty = FALSE /\ tag = 0 /\ out = 0 /\ tagFile = Torn
    /\ work = 0 /\ starts = 0 /\ faults = 0
    /\ ack = [k \in Keys |-> "out"] /\ clean = FALSE
    /\ saved = 0 /\ spoiled = FALSE

StorageStep ==
    \/ AppendStores
    \/ AppendFails
    \/ CreateSnapshot
    \/ CleanupOldSnapshots
    \/ SnapshotFails
    \/ Put
    \/ Delete
    \/ SaveTypeFails
    \/ CloseMeta
    \/ Exit

PersistStep ==
    \/ RestoreAll
    \/ TakeDirty
    \/ Debounced
    \/ SeesStop
    \/ FlushAll
    \/ SaveToDisk
    \/ FlushFails

Next ==
    \/ NewStorageManager
    \/ \E k \in Keys : AppendEventAndSave(k)
    \/ \E k \in Keys : DeleteResource(k)
    \/ StorageStep
    \/ Close
    \/ Crash
    \/ SetTag
    \/ DeleteTag
    \/ NotifyDirty
    \/ PersistStep

Spec == Init /\ [][Next]_vars

\* The goroutine of the plugin runs, and its timers fire.
FairSpec == Spec /\ WF_vars(PersistStep)

-----------------------------------------------------------------------------
(* Properties.                                                              *)

\* An event whose write or sync failed has used its number up, and a start
\* goes on after the greatest number that parses: whatever is torn, cut off or
\* glued together, no two lines of the log have the same number.
LogIsOrdered ==
    \A i, j \in DOMAIN lines :
      i < j /\ lines[i] # Garbage /\ lines[j] # Garbage => lines[i] < lines[j]

\* The snapshot that restoreSnapshot reads is the newest of the directory:
\* no crash between the rename and the cleanup, and no cleanup, leaves the
\* memory of the store with one that a restart would not find.
NewestIsKept ==
    up # "down" => IF snaps = {} THEN latest = NoSnap
                   ELSE latest \in snaps /\ \A s \in snaps : s.time <= latest.time

\* What a call that returned nil has stored or deleted is in the files (and so
\* what the next start reads), however later calls on other keys failed or
\* were cut off by a crash: MetaStore renames a complete file into place.
AckedSurvives ==
    \A k \in Keys :
      /\ ack[k] = "in" => k \in file[TypeOf[k]]
      /\ ack[k] = "out" => k \notin file[TypeOf[k]]

\* After a stop whose saves succeeded, the snapshot, which becomes the desired
\* state, and the meta files, which become the actual one, say the same.
CleanStopAgrees ==
    clean => \A t \in Types :
               \E s \in snaps : /\ \A r \in snaps : r.time <= s.time
                                /\ s.state[t] = Content(file[t])

\* The tags that a flush has written are in memory after the restore, unless a
\* flush failed or was cut short: no flush comes before the import, which would
\* write an empty table over them.
TagsAreKept == run \notin {"off", "restore"} /\ ~spoiled => tag >= saved

\* The call under way fits the state of the process and has no result yet.
CallInStep ==
    /\ up = "down" \/ op.kind = "none" \/ op.at = "idle" => op = Idle
    /\ op.kind = "close" <=> up = "closing"
    /\ op.kind \in {"put", "delete"} => op.key \in Keys /\ ack[op.key] = "any"
    /\ op.at = "append" => op.kind \in {"put", "delete"}
    /\ op.at = "delete" => op.kind = "delete"
    /\ op.at = "save" => op.kind \in {"put", "close"}

\* A line without an end is the last one, the log has a greatest number, and
\* the next event gets a greater one.
LogInStep ==
    /\ tail => lines # <<>> /\ lines[Len(lines)] = Garbage
    /\ \E m \in GoodSet(lines) \cup {0} : \A n \in GoodSet(lines) : n <= m
    /\ up # "down" => \A i \in DOMAIN lines : lines[i] <= sequence

\* One of the snapshot files is the newest.
NewestExists ==
    snaps # {} => \E s \in snaps : \A r \in snaps : r.time <= s.time

\* Every file is complete, a type in memory may miss its file but not the other
\* way round, and the memory, from which the files are written, agrees with
\* what was acknowledged.
MetaInStep ==
    /\ \A t \in Types : file[t] # TornFile
    /\ up # "down" =>
         /\ \A t \in Types : mem[t] = NoFile => file[t] = NoFile
         /\ \A k \in Keys : /\ ack[k] = "in" => k \in mem[TypeOf[k]]
                            /\ ack[k] = "out" => k \notin mem[TypeOf[k]]
    /\ op.kind = "delete" /\ op.at # "delete" =>
         op.key \notin mem[Type] \cup file[Type]

\* The files of a stop so far, and of a clean one until the next call.
StopInStep ==
    /\ clean => op.kind \in {"none", "close"} /\ (up # "down" => mem = file)
    /\ op.kind = "close" /\ op.ok =>
         /\ op.at \in {"cleanup", "save"} => latest \in snaps /\ latest.state = ListAll
         /\ \A t \in Types \ op.todo : file[t] = mem[t]

\* persist.json holds the newest tags between two flushes.
TagsInStep ==
    /\ up = "down" => run = "off"
    /\ ~spoiled =>
         /\ run = "write" => tag >= out
         /\ run # "write" => tagFile = saved \/ (tagFile = Torn /\ saved = 0)

\* The books of the storage: log (event.go:78), snapshots (snapshot.go), meta
\* files and persist.json, across failing writes, crashes and restarts; the
\* last six parts are what the others need to be kept by every step.
StorageInv ==
    /\ TypeOK /\ LogIsOrdered /\ NewestIsKept /\ CleanStopAgrees /\ TagsAreKept
    /\ CallInStep /\ LogInStep /\ NewestExists /\ MetaInStep /\ StopInStep
    /\ TagsInStep

\* A pending notification gets the tags of its moment to the disk, unless the
\* server goes down, the import replaces them, or a flush fails.
DirtyIsFlushed ==
    \A v \in 1..MaxWork :
      (up = "run" /\ dirty /\ tag = v)
        ~> (saved >= v \/ up # "run" \/ tag < v \/ spoiled)
=============================================================================
