--------------------------- MODULE PolymarketStore ---------------------------
(***************************************************************************)
(* The files of one Polymarket generation: the segmented WAL whose segment *)
(* headers anchor checkpoints, the checkpoint files and the manifest that  *)
(* names the current and the previous checkpoint.  Operators only; the     *)
(* processes that write the files are in PolymarketLive.                   *)
(*                                                                         *)
(* A file's hash is its content: a reference to a checkpoint carries the   *)
(* projection that was hashed.  Because a projection is stamped with the   *)
(* wall time it was published at, the same cursor replayed by another      *)
(* process hashes differently; boot stands for that stamp.                 *)
(***************************************************************************)
EXTENDS Naturals, Sequences, SequencesExt

CONSTANTS SegmentRecords,   \* records that fill a WAL segment
          None

\* What the projection keeps that decides recovery and readiness: the catalog
\* it holds (0: none), whether its books are complete, whether the market is
\* quarantined (gap) and whether it holds a gap of a market that left the
\* catalog (stale), which only resuming or the next catalog removes.
Projection == [cursor : Nat, boot : Nat, catalog : Nat, books : BOOLEAN, gap : BOOLEAN,
               stale : BOOLEAN]

\* The manifest names its checkpoints by their content.
Manifest == [current : Projection, previous : Projection \cup {None},
             lineage : Projection \cup {None}]

ASSUME SegmentAssumption == SegmentRecords \in Nat \ {0}
ASSUME NoneAssumption == None \notin Projection \cup Manifest

Bootstrap(boot) ==
    [cursor |-> 0, boot |-> boot, catalog |-> 0, books |-> FALSE, gap |-> FALSE, stale |-> FALSE]

Prune(p) == [p EXCEPT !.stale = FALSE]

\* The effect of one persisted record (MarketProjection has it in full).
Evaluate(p, rec, boot) ==
    LET q == [p EXCEPT !.cursor = rec.cursor, !.boot = boot] IN
    CASE rec.kind = "catalog" -> [q EXCEPT !.catalog = rec.catalog, !.books = FALSE,
                                           !.stale = FALSE]
      [] rec.kind = "book"    -> [q EXCEPT !.books = TRUE, !.gap = FALSE]
      [] rec.kind = "gap"     -> [q EXCEPT !.gap = TRUE]
      [] rec.kind = "late"    -> [q EXCEPT !.stale = TRUE]
      [] OTHER                -> q

\* The projection p after each of the records behind it.
Replay(p, recs, boot) ==
    LET after[i \in 0..Len(recs)] ==
            IF i = 0 THEN p
            ELSE IF recs[i].cursor <= p.cursor THEN after[i - 1]
            ELSE Evaluate(after[i - 1], recs[i], boot)
    IN  after[Len(recs)]

EmptyRoot == [wal |-> <<>>, ckpt |-> [c \in {} |-> None], manifest |-> None]

Segment(wal, first, anchor) ==
    [first |-> first, anchor |-> anchor, lines |-> <<>>,
     previous |-> IF wal = <<>> THEN None ELSE Last(wal).lines]

RecordsOf(wal) ==
    LET upTo[i \in 0..Len(wal)] == IF i = 0 THEN <<>> ELSE upTo[i - 1] \o wal[i].lines
    IN  upTo[Len(wal)]

\* A group is written as one line; a segment that has records and is full is
\* closed first.
AppendOutcomes(root, recs) ==
    LET wal == root.wal
        full == wal = <<>> \/ Len(Last(wal).lines) >= SegmentRecords
        rotated == IF full THEN Append(wal, Segment(wal, recs[1].cursor, None)) ELSE wal
        n == Len(rotated)
    IN  [root EXCEPT !.wal = [rotated EXCEPT ![n].lines = @ \o recs]]

\* The chain of segments and of cursors is unbroken.
Verify(root) ==
    LET wal == root.wal
        recs == RecordsOf(wal)
    IN  /\ \A i \in DOMAIN wal :
             /\ wal[i].previous = IF i = 1 THEN None ELSE wal[i - 1].lines
             /\ wal[i].anchor # None => wal[i].first = wal[i].anchor.cursor + 1
        /\ \A i \in 1..Len(recs) - 1 : recs[i + 1].cursor = recs[i].cursor + 1

Anchored(root, p) == \E i \in DOMAIN root.wal : root.wal[i].anchor = p

\* The file of p's cursor still holds p.
Loads(root, p) == p.cursor \in DOMAIN root.ckpt /\ root.ckpt[p.cursor] = p

\* The checkpoint files, with p in the file of its cursor.
WithFile(files, p) ==
    [c \in DOMAIN files \cup {p.cursor} |-> IF c = p.cursor THEN p ELSE files[c]]

ValidParentLineage(manifest) ==
    manifest.lineage = None \/ manifest.lineage.cursor <= manifest.current.cursor

\* Write the checkpoint file, start a segment that anchors it, write the
\* manifest: the roots after each write, and whether all were made.  An empty
\* segment of the same checkpoint is reused; any other segment that starts at
\* the next cursor makes the exclusive creation fail after the checkpoint file
\* was replaced.
CheckpointWrites(root, p, manifest) ==
    LET file == [root EXCEPT !.ckpt = WithFile(@, p)]
        reuse == /\ root.wal # <<>>
                 /\ Last(root.wal).first = p.cursor + 1
                 /\ Last(root.wal).anchor = p
                 /\ Last(root.wal).lines = <<>>
        clash == ~reuse /\ \E i \in DOMAIN root.wal : root.wal[i].first = p.cursor + 1
        anchored == IF reuse THEN file
                    ELSE [file EXCEPT !.wal = Append(@, Segment(@, p.cursor + 1, p))]
        previous == CASE manifest = None -> None
                      [] manifest # None /\ manifest.current.cursor # p.cursor -> manifest.current
                      [] OTHER -> manifest.previous
        lineage == IF manifest = None THEN None ELSE manifest.lineage
        named == [anchored EXCEPT !.manifest =
                    [current |-> p, previous |-> previous, lineage |-> lineage]]
    IN  IF clash THEN [writes |-> <<file>>, ok |-> FALSE]
                 ELSE [writes |-> <<file, anchored, named>>, ok |-> TRUE]

\* A forked generation starts with the parent's projection as its checkpoint
\* and no history of its own.
ForkWrites(p, parent) ==
    LET file == [EmptyRoot EXCEPT !.ckpt = WithFile(@, p)]
        anchored == [file EXCEPT !.wal = <<Segment(<<>>, p.cursor + 1, p)>>]
        named == [anchored EXCEPT !.manifest =
                    [current |-> p, previous |-> None, lineage |-> parent.current]]
    IN  <<file, anchored, named>>

\* The projection a process that opens the root starts from, or None when it
\* refuses: the current checkpoint, the previous one, or the whole history.
RecoverProjection(root, boot) ==
    LET recs == RecordsOf(root.wal)
        usable(p) == p # None /\ Anchored(root, p) /\ Loads(root, p)
        contiguous(p) == (\E i \in DOMAIN recs : recs[i].cursor > p.cursor)
                             => \E i \in DOMAIN recs : recs[i].cursor = p.cursor + 1
        from(p) == IF contiguous(p) THEN Prune(Replay(Prune(p), recs, boot)) ELSE None
        m == root.manifest
        origin == \/ m = None
                  \/ IF recs = <<>> THEN m.current.cursor = 0 ELSE recs[1].cursor = 1
    IN  CASE ~Verify(root) -> None
          [] Verify(root) /\ m # None /\ ~ValidParentLineage(m) -> None
          [] OTHER ->
               IF m # None /\ usable(m.current) THEN from(m.current)
               ELSE IF m # None /\ usable(m.previous) THEN from(m.previous)
               ELSE IF origin THEN from(Bootstrap(boot)) ELSE None
=============================================================================
