--------------------------- MODULE DurableWriter ---------------------------
(***************************************************************************)
(* The Hyperliquid realtime writer of marketcowd: one owner thread that    *)
(* takes upstream frames, decides duplicates, appends each frame as one    *)
(* batch to a segmented WAL and publishes it after the sync, checkpoints   *)
(* the replay window every so many events and on shutdown, and rebuilds    *)
(* everything from disk when a fresh process opens the store               *)
(* (DurableRealtimeWriter and SegmentedRealtimeWal of durability.rs, used  *)
(* by DurableRealtimeHub and by the owner task of main.rs).                *)
(*                                                                         *)
(* The steps between two crash points are the actions: an append may be    *)
(* cut short by an I/O error or a crash after any part of it reached the   *)
(* disk, and a checkpoint is two renames.  A successful sync is durable.   *)
(***************************************************************************)
EXTENDS RealtimeStore

CONSTANTS
    Capacities,       \* replay_capacity of the builds that open the store
    CheckpointEvery,  \* published events that make a checkpoint due
    MaxFrame,         \* bound: events of one upstream frame
    MaxRecords,       \* bound: records in the WAL
    MaxSegments       \* bound: segment files of the WAL

ASSUME CapacityAssumption == Capacities \subseteq Nat \ {0}
ASSUME FrameAssumption == /\ CheckpointEvery \in Nat \ {0}
                          /\ MaxFrame \in Nat \ {0}
                          /\ MaxRecords \in Nat
                          /\ MaxSegments \in Nat

VARIABLES
    wal,        \* segment files: records, their batches, segments, torn tail
    current,    \* checkpoints/current.json
    previous,   \* checkpoints/previous.json
    indexFile,  \* cursor-index.json
    owner,      \* what the owner thread is doing
    stopping,   \* the checkpoint being written is the one of the shutdown
    unsaved,    \* published_since_checkpoint
    mem,        \* the writer's memory
    published   \* every record any reader has been shown, over all processes

vars == <<wal, current, previous, indexFile, owner, stopping, unsaved, mem, published>>
disk == <<wal, current, previous, indexFile>>

Up == {"running", "promoting", "closed"}

NoMemory ==
    [records |-> <<>>, index |-> <<>>, segment |-> 0, offset |-> 0,
     replay |-> EmptyReplay, capacity |-> 0, healthy |-> FALSE]

Frames == UNION {[1..n -> Events] : n \in 1..MaxFrame}

-----------------------------------------------------------------------------
Init ==
    /\ wal = [records |-> <<>>, batches |-> <<>>, segments |-> 0, torn |-> FALSE]
    /\ current = Absent /\ previous = Absent /\ indexFile = Absent
    /\ owner = "down" /\ stopping = FALSE /\ unsaved = 0
    /\ mem = NoMemory
    /\ published = {}

\* The records of the replay window: what the projection lets a reader fetch
Shown(replay) == ToSet(replay.tail)

\* The outcomes of replacing the derived index: it may fail before or after
\* the rename, which leaves the old or the new file and an unhealthy index.
IndexWrites(entries) ==
    (IF SparseIndexIsValid(entries) THEN {[file |-> entries, healthy |-> TRUE],
                                          [file |-> entries, healthy |-> FALSE]}
                                    ELSE {})
      \cup {[file |-> indexFile, healthy |-> FALSE]}

IndexInstalls(entries) ==
    IF indexFile = entries THEN {[file |-> entries, healthy |-> TRUE]}
                           ELSE IndexWrites(entries)

Position == Cardinality({i \in DOMAIN wal.batches : wal.batches[i].segment = wal.segments})

\* A fresh process opens the store and publishes the recovered projection.
Open(capacity) ==
    LET entries == RebuildIndex(wal.batches)
        replay  == RecoverReplay(wal.records, entries, capacity, current, previous)
    IN  /\ owner \in {"down", "refused"}
        /\ IF ~ wal.torn /\ VerifyWal(wal.records)
           THEN \E write \in IndexInstalls(entries) :
                  /\ indexFile' = write.file
                  /\ IF replay.broken
                     THEN /\ owner' = "refused"
                          /\ UNCHANGED <<mem, published>>
                     ELSE /\ owner' = "running"
                          /\ mem' = [records |-> wal.records, index |-> entries,
                                     segment |-> wal.segments, offset |-> Position,
                                     replay |-> replay, capacity |-> capacity,
                                     healthy |-> write.healthy]
                          /\ published' = published \cup Shown(replay)
           ELSE /\ owner' = "refused"
                /\ UNCHANGED <<indexFile, mem, published>>
        /\ unsaved' = 0
        /\ UNCHANGED <<wal, current, previous, stopping>>

-----------------------------------------------------------------------------
(* One upstream frame *)

\* ensure_segment: the first batch, and one that does not fit, opens a segment
Rotates(full) == mem.segment = 0 \/ full

Placed(frame, full) ==
    [segment |-> IF Rotates(full) THEN mem.segment + 1 ELSE mem.segment,
     offset  |-> IF Rotates(full) THEN 0 ELSE mem.offset,
     first   |-> Len(mem.records) + 1,
     last    |-> Len(mem.records) + Len(frame)]

\* Mutant: duplicates are looked for in the replay window only.
DecisionsInWindow(frame) ==
    Decide({r.event : r \in Shown(mem.replay)}, mem.replay.sequence, frame)

Decisions(frame) == Decide(AppliedIds(mem.records), mem.replay.sequence, frame)

\* The segment files after the append was carried out so far
Written(frame, full, part) ==
    LET batch == Placed(frame, full)
    IN  CASE part = "none"   -> wal
          [] part = "header" -> [wal EXCEPT !.segments = batch.segment]
          [] part = "torn"   -> [wal EXCEPT !.torn = TRUE]
          [] part = "batch"  -> [records  |-> wal.records \o Decisions(frame),
                                 batches  |-> Append(wal.batches, batch),
                                 segments |-> batch.segment,
                                 torn     |-> FALSE]

\* The index entry of a batch, added once the batch is synced
Indexed(frame, full) == IndexBatch(mem.index, Placed(frame, full))

\* The owner takes a frame unless it has to write a checkpoint first.
CanIngest(frame, full) ==
    /\ owner = "running"
    /\ Placed(frame, full).segment <= MaxSegments
    /\ unsaved < CheckpointEvery
    /\ Len(mem.records) + Len(frame) <= MaxRecords

\* Mutant: the frame is published before the WAL holds it.
IngestUnsynced(frame, full) ==
    LET records == Decisions(frame)
        replay  == CommitAll(mem.replay, records, mem.capacity)
    IN  /\ CanIngest(frame, full)
        /\ mem' = [mem EXCEPT !.replay = replay]
        /\ published' = published \cup ToSet(AppliedRecords(records))
        /\ unsaved' = unsaved + Len(AppliedRecords(records))
        /\ UNCHANGED <<disk, owner, stopping>>

\* ingest of an Events frame: append, sync, commit to memory, publish
Ingest(frame, full) ==
    LET records == Decisions(frame)
        entries == Indexed(frame, full)
        batch   == Placed(frame, full)
        replay  == CommitAll(mem.replay, records, mem.capacity)
    IN  /\ CanIngest(frame, full)
        /\ wal' = Written(frame, full, "batch")
        /\ \E write \in IF entries # mem.index \/ ~ mem.healthy
                        THEN IndexWrites(entries)
                        ELSE {[file |-> indexFile, healthy |-> TRUE]} :
              /\ indexFile' = write.file
              /\ mem' = [mem EXCEPT !.records = @ \o records,
                                    !.index   = entries,
                                    !.segment = batch.segment,
                                    !.offset  = batch.offset + 1,
                                    !.replay  = replay,
                                    !.healthy = write.healthy]
        /\ owner' = IF replay.broken THEN "closed" ELSE "running"
        /\ unsaved' = unsaved + Len(AppliedRecords(records))
        /\ published' = published \cup
              (IF replay.broken THEN {} ELSE ToSet(AppliedRecords(records)))
        /\ UNCHANGED <<current, previous, stopping>>

\* The append is cut short: by an I/O error, which poisons the writer and
\* closes the hub, or by a crash of the process.
IngestInterrupted(frame, full, part, after) ==
    /\ CanIngest(frame, full)
    /\ part = "header" => Rotates(full)
    /\ wal' = Written(frame, full, part)
    /\ indexFile' \in IF part = "batch" /\ after = "down"
                      THEN {indexFile, Indexed(frame, full)} ELSE {indexFile}
    /\ owner' = after
    /\ mem' = IF after = "down" THEN NoMemory ELSE mem
    /\ unsaved' = IF after = "down" THEN 0 ELSE unsaved
    /\ UNCHANGED <<current, previous, stopping, published>>

-----------------------------------------------------------------------------
(* Checkpoints, failures and the end of the process *)

\* The new checkpoint is written and synced beside the old ones, and the
\* current one, when it can be read, becomes the previous one.  The checkpoint
\* is written when it is due, and otherwise only because the service stops.
Promote ==
    /\ owner = "running"
    /\ owner' = "promoting"
    /\ stopping' = (unsaved < CheckpointEvery)
    /\ IF Readable(current)
       THEN previous' = current /\ current' = Absent
       ELSE UNCHANGED <<previous, current>>
    /\ UNCHANGED <<wal, indexFile, unsaved, mem, published>>

\* The new checkpoint becomes the current one.  At shutdown the process ends;
\* when syncing the directory fails the hub closes, the file being in place.
Install(synced) ==
    /\ owner = "promoting"
    /\ current' = CheckpointOf(mem.records, mem.index, mem.replay, mem.capacity)
    /\ owner' = CASE ~ synced -> "closed"
                  [] synced /\ stopping -> "down"
                  [] OTHER -> "running"
    /\ mem' = IF synced /\ stopping THEN NoMemory ELSE mem
    /\ stopping' = FALSE
    /\ unsaved' = IF synced THEN 0 ELSE unsaved
    /\ UNCHANGED <<wal, previous, indexFile, published>>

\* The hub fails closed: a transition, the gateway queue, the audit record or
\* a checkpoint failed.  Readers keep the projection, nothing is written again.
FailClosed ==
    /\ owner \in {"running", "promoting"}
    /\ owner' = "closed"
    /\ stopping' = FALSE
    /\ UNCHANGED <<disk, unsaved, mem, published>>

\* The process ends without a checkpoint.
Crash ==
    /\ owner \in Up
    /\ owner' = "down"
    /\ mem' = NoMemory
    /\ stopping' = FALSE
    /\ unsaved' = 0
    /\ UNCHANGED <<disk, published>>

\* A checkpoint file is damaged while nobody uses it.
Damage ==
    /\ owner = "down"
    /\ \/ Readable(current) /\ current' = Corrupt /\ UNCHANGED previous
       \/ Readable(previous) /\ previous' = Corrupt /\ UNCHANGED current
    /\ UNCHANGED <<wal, indexFile, owner, stopping, unsaved, mem, published>>

Next ==
    \/ \E capacity \in Capacities : Open(capacity)
    \/ \E frame \in Frames, full \in BOOLEAN : Ingest(frame, full)
    \/ \E frame \in Frames, full \in BOOLEAN,
          part \in {"none", "header", "torn", "batch"}, after \in {"closed", "down"} :
          IngestInterrupted(frame, full, part, after)
    \/ Promote
    \/ \E synced \in BOOLEAN : Install(synced)
    \/ FailClosed
    \/ Crash
    \/ Damage

Spec == Init /\ [][Next]_vars

-----------------------------------------------------------------------------
(* Properties *)

\* What any reader was shown, live or through the projection of any process,
\* is a record of the WAL, under the same sequence number, after every crash
\* and restart (the sync of append_decisions precedes commit_persisted).
PublishedIsDurable == published \subseteq ToSet(AppliedRecords(wal.records))

\* While the writer accepts frames its memory, however it was recovered
\* (current or previous checkpoint and the records after it, or the whole
\* WAL), is what a scan of the whole WAL gives: records, index and window; an
\* index reported healthy is the one on disk (sparse_index_healthy).
MemoryIsTheWal ==
    owner \in {"running", "promoting"} =>
        /\ mem.records = wal.records
        /\ mem.index = RebuildIndex(wal.batches) /\ (mem.healthy => indexFile = mem.index)
        /\ mem.segment = wal.segments /\ mem.offset = Position
        /\ mem.replay = CommitAll(EmptyReplay, wal.records, mem.capacity)

\* A reader that resumes after any cursor gets every later event, in order, or
\* is told that some are gone; the cursor of an event it was shown, even by an
\* earlier process, is never ahead of the writer (replay_after).
ResumeIsExact ==
    owner \in Up =>
        LET all == AppliedRecords(mem.records)
        IN  /\ \A after \in 0..Len(all) :
                  LET answer == ReplayAfter(mem.replay, after)
                  IN  IF Len(all) - after <= mem.capacity
                      THEN answer = Answer(SubSeq(all, after + 1, Len(all)))
                      ELSE answer = Gap
            /\ \A r \in published : ReplayAfter(mem.replay, r.sequence) # Ahead

LastShown == IF published = {} THEN 0
             ELSE CHOOSE n \in {r.sequence : r \in published} :
                     \A r \in published : r.sequence <= n

Log == INSTANCE SequencedLog WITH
    LogEvents <- Events,
    log       <- [i \in 1..Len(AppliedRecords(wal.records)) |->
                     AppliedRecords(wal.records)[i].event],
    visible   <- LastShown

\* The store implements one append-only log of distinct events of which the
\* readers see a growing prefix, through every failed append, crash, damaged
\* checkpoint and restart.
ImplementsLog == Log!LogSpec

=============================================================================
