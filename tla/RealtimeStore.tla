--------------------------- MODULE RealtimeStore ---------------------------
(***************************************************************************)
(* The pure part of the Hyperliquid realtime store                         *)
(* (crates/marketcow-realtime/src/durability.rs and SequencedReplay of     *)
(* lib.rs): duplicate decisions, verification of the WAL, the sparse       *)
(* cursor index, the bounded replay window, checkpoints and recovery.      *)
(*                                                                         *)
(* A record's WAL cursor is its position in the sequence of records.  The  *)
(* SHA-256 chain through previous_record_sha256 makes the digest of record *)
(* i a name for the first i records, so a digest is modelled by that       *)
(* prefix, and the digest of an index prefix by the prefix itself.  A byte *)
(* offset is the number of batches before it in the segment.               *)
(***************************************************************************)
EXTENDS Integers, FiniteSets, Sequences, SequencesExt, SequenceFilter

CONSTANTS
    Events,    \* normalized provider events; an event is named by its event_id
    Stride,    \* SPARSE_INDEX_STRIDE
    Absent,    \* a file that does not exist
    Corrupt    \* a checkpoint file that read_checkpoint rejects

ASSUME StrideAssumption == Stride \in Nat \ {0}
ASSUME FilesAssumption == Absent # Corrupt

-----------------------------------------------------------------------------
(* Records *)

\* public_sequence = None: the record of a duplicate, applied = false
NoSequence == 0

Record == [event : Events, sequence : Nat]

Applied(record) == record.sequence # NoSequence

AppliedRecords(records) == Kept(records, {r \in Record : Applied(r)})

AppliedIds(records) == {r.event : r \in ToSet(AppliedRecords(records))}

LastSequence(applied) == IF applied = <<>> THEN 0 ELSE Last(applied).sequence

LastOf(s, n) == IF Len(s) <= n THEN s ELSE SubSeq(s, Len(s) - n + 1, Len(s))

\* The decisions of one upstream frame.  An event already applied, or met
\* earlier in the same frame, is recorded without a public sequence.
Decide(seen, sequence, frame) ==
    LET fresh == {i \in DOMAIN frame : /\ frame[i] \notin seen
                                       /\ \A j \in 1..(i - 1) : frame[j] # frame[i]}
    IN  [i \in DOMAIN frame |->
            [event    |-> frame[i],
             sequence |-> IF i \in fresh
                          THEN sequence + Cardinality(fresh \cap 1..i)
                          ELSE NoSequence]]

\* What opening the WAL demands of its records: applied records carry the next
\* public sequence and a new event, the others repeat an applied event.
VerifyWal(records) ==
    \A i \in DOMAIN records :
        LET before == SubSeq(records, 1, i - 1)
            record == records[i]
        IN  IF Applied(record)
            THEN /\ record.sequence = Len(AppliedRecords(before)) + 1
                 /\ record.event \notin AppliedIds(before)
            ELSE record.event \in AppliedIds(before)

-----------------------------------------------------------------------------
(* The sparse cursor index *)

ShouldIndexBatch(entries, batch) ==
    \/ entries = <<>>
    \/ Last(entries).segment # batch.segment
    \/ (Last(entries).last \div Stride) < (batch.last \div Stride)
    \/ batch.first = 1

IndexBatch(entries, batch) ==
    IF ShouldIndexBatch(entries, batch) THEN Append(entries, batch) ELSE entries

\* The scan of the segments, batch by batch
RebuildIndex(batches) ==
    LET scanned[n \in 0..Len(batches)] ==
            IF n = 0 THEN <<>> ELSE IndexBatch(scanned[n - 1], batches[n])
    IN  scanned[Len(batches)]

\* The entries at or before a cursor.  sparse_index_prefix_digest hashes them
\* and locate returns the last of them.
IndexPrefix(entries, cursor) == SelectSeq(entries, LAMBDA e : e.first <= cursor)

SparseIndexIsValid(entries) ==
    /\ \A i \in DOMAIN entries : 0 < entries[i].first /\ entries[i].first <= entries[i].last
    /\ \A i \in 1..(Len(entries) - 1) :
          /\ entries[i].last < entries[i + 1].first
          /\ \/ entries[i].segment < entries[i + 1].segment
             \/ /\ entries[i].segment = entries[i + 1].segment
                /\ entries[i].offset < entries[i + 1].offset

-----------------------------------------------------------------------------
(* The replay window *)

EmptyReplay == [sequence |-> 0, tail |-> <<>>, broken |-> FALSE]

\* commit_persisted; "broken" is its error, after which the loops over records
\* stop.  recent_event_ids always holds exactly the events of the tail.
CommitPersisted(replay, record, capacity) ==
    IF \/ replay.broken
       \/ record.event \in {r.event : r \in ToSet(replay.tail)}
       \/ record.sequence # replay.sequence + 1
    THEN [replay EXCEPT !.broken = TRUE]
    ELSE [sequence |-> record.sequence,
          tail     |-> LastOf(Append(replay.tail, record), capacity),
          broken   |-> FALSE]

\* The loop of commits over the applied records
CommitAll(replay, records, capacity) ==
    LET applied == AppliedRecords(records)
        committed[n \in 0..Len(applied)] ==
            IF n = 0 THEN replay ELSE CommitPersisted(committed[n - 1], applied[n], capacity)
    IN  committed[Len(applied)]

\* The answers of replay_after, of the writer and of the published projection
Ahead == [error |-> "CursorAhead", events |-> <<>>]
Gap   == [error |-> "GapUnrecoverable", events |-> <<>>]
Answer(events) == [error |-> "none", events |-> events]

After(tail, cursor) == Kept(tail, {r \in ToSet(tail) : r.sequence > cursor})

\* Mutant: the gap test is off by one.
ReplayAfterOffByOne(replay, after) ==
    LET earliest == IF replay.tail = <<>> THEN replay.sequence + 1
                                          ELSE Head(replay.tail).sequence
    IN  CASE after > replay.sequence -> Ahead
          [] after <= replay.sequence /\ after + 2 < earliest -> Gap
          [] OTHER -> Answer(After(replay.tail, after))

ReplayAfter(replay, after) ==
    LET earliest == IF replay.tail = <<>> THEN replay.sequence + 1
                                          ELSE Head(replay.tail).sequence
    IN  CASE after > replay.sequence -> Ahead
          [] after <= replay.sequence /\ after + 1 < earliest -> Gap
          [] OTHER -> Answer(After(replay.tail, after))

-----------------------------------------------------------------------------
(* Checkpoints and recovery *)

\* What a checkpoint says of the writer; the boundary it also stores is the
\* last entry of the index prefix.
CheckpointOf(records, entries, replay, capacity) ==
    [cursor   |-> Len(records),
     sequence |-> replay.sequence,
     chain    |-> records,
     tail     |-> replay.tail,
     capacity |-> capacity,
     index    |-> IndexPrefix(entries, Len(records))]

Readable(file) == file \notin {Absent, Corrupt}

\* The digest compared with last_record_sha256: records.get(boundary - 1) with
\* a saturating subtraction, so a boundary of zero looks at the first record.
ChainAt(records, boundary) ==
    IF records = <<>> THEN <<>>
    ELSE SubSeq(records, 1, IF boundary = 0 THEN 1 ELSE boundary)

CheckpointMatches(checkpoint, records, entries) ==
    /\ checkpoint.index = IndexPrefix(entries, checkpoint.cursor)
    /\ checkpoint.cursor <= Len(records)
    /\ checkpoint.chain = ChainAt(records, checkpoint.cursor)
    /\ LET applied == AppliedRecords(SubSeq(records, 1, checkpoint.cursor))
       IN  /\ checkpoint.sequence = LastSequence(applied)
           /\ checkpoint.tail = LastOf(applied, checkpoint.capacity)

\* restore_tail's own demands on the checkpointed window
Restorable(checkpoint) ==
    LET tail == checkpoint.tail
    IN  /\ Len(tail) <= checkpoint.capacity
        /\ LastSequence(tail) = checkpoint.sequence
        /\ \A i \in 1..(Len(tail) - 1) : tail[i + 1].sequence = tail[i].sequence + 1
        /\ \A i, j \in DOMAIN tail : tail[i].event = tail[j].event => i = j

\* current.json, then previous.json: the first that can be read and was
\* written for this replay capacity
SelectedCheckpoint(current, previous, capacity) ==
    LET Usable(file) == Readable(file) /\ file.capacity = capacity
    IN  CASE Usable(current) -> current
          [] ~ Usable(current) /\ Usable(previous) -> previous
          [] OTHER -> Absent

\* Mutant: the records after the checkpoint are not replayed.
RecoverCheckpointOnly(records, entries, capacity, current, previous) ==
    LET checkpoint == SelectedCheckpoint(current, previous, capacity)
    IN  CASE checkpoint = Absent -> CommitAll(EmptyReplay, records, capacity)
          [] checkpoint # Absent /\ ~ CheckpointMatches(checkpoint, records, entries) ->
                [EmptyReplay EXCEPT !.broken = TRUE]
          [] OTHER -> [sequence |-> checkpoint.sequence, tail |-> checkpoint.tail,
                       broken |-> ~ Restorable(checkpoint)]

\* The replay window a fresh process starts from; "broken" is a refusal to open
RecoverReplay(records, entries, capacity, current, previous) ==
    LET checkpoint == SelectedCheckpoint(current, previous, capacity)
    IN  CASE checkpoint = Absent -> CommitAll(EmptyReplay, records, capacity)
          [] checkpoint # Absent /\ ~ CheckpointMatches(checkpoint, records, entries) ->
                [EmptyReplay EXCEPT !.broken = TRUE]
          [] OTHER ->
                CommitAll([sequence |-> checkpoint.sequence, tail |-> checkpoint.tail,
                           broken |-> ~ Restorable(checkpoint)],
                          SubSeq(records, checkpoint.cursor + 1, Len(records)), capacity)
=============================================================================
