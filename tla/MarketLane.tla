----------------------------- MODULE MarketLane -----------------------------
(***************************************************************************)
(* Publication and durability of the selected markets: MarketReplay keeps  *)
(* a bounded replay window per market, MarketPersistence a bounded FIFO    *)
(* per market for one physical writer, MarketPublisher publishes into both *)
(* at once.  Markets publish in parallel; the writer takes turns among     *)
(* them, the retirement worker releases a market once it is drained, and   *)
(* a pause ends every replay window.  Readers change nothing: what a       *)
(* window answers to a resume cursor is the operator Page.                 *)
(*                                                                         *)
(* Steps are the critical sections of the code.  A publisher holds its     *)
(* replay lane from planning to commit and its persistence lane while it   *)
(* admits; everybody else waits, or retries, as the code does.             *)
(*                                                                         *)
(* A group weighs Charge bytes until it is durable and Release less after  *)
(* that; a persistence item weighs one batch.                              *)
(***************************************************************************)
EXTENDS Naturals, Sequences, FiniteSets, FiniteSetsExt, SequencesExt, SequenceFilter

CONSTANTS
    Markets,
    LaneBatches,     \* market_persistence_lane_limits
    AllBatches,      \* limits of the aggregate persistence budget
    ReplayGroups,    \* maximum_groups_per_market
    ReplayBytes,     \* maximum_bytes_per_market
    Slots,           \* maximum_market_slots
    Charge,          \* retained bytes of a group that is not durable yet
    Release,         \* of which release_after_durable
    MaxGroups,       \* bound on publications
    MaxPauses,       \* bound on pauses
    MayFail          \* may the physical writer fail?

ASSUME LaneAssumption ==
    /\ IsFiniteSet(Markets)
    /\ \A n \in {LaneBatches, AllBatches, ReplayGroups, Slots} : n \in Nat \ {0}
    /\ Charge \in Nat /\ Release \in Nat /\ Release < Charge
    /\ ReplayBytes \in Nat /\ Charge <= ReplayBytes
    /\ LaneBatches <= AllBatches
    /\ MaxGroups \in Nat /\ MaxPauses \in Nat /\ MayFail \in BOOLEAN

\* new_partitioned_with_state: the partitions fit into the aggregate.
TotalBytes == ReplayBytes * Slots

VARIABLES
    replay,      \* source_market_replay::Lane per market
    total,       \* total_bytes
    occupied,    \* occupied_market_slots
    lane,        \* source_market_persistence::Lane per market
    aggregate,   \* batches of the aggregate Budget
    turn,        \* Registry.turn; scheduled is its set of members
    accepting,   \* MarketPersistence.accepting
    woken,       \* Wake.generation moved since the writer looked
    publisher,   \* MarketPublisher: where its call is, and volatile
    writer,      \* the market durability thread
    disk,        \* groups of the market's epoch in the archive
    retired,     \* markets whose retirement was accepted, until they are admitted again
    retirements, \* the retirement worker's queue: market and live_only_markets
    worker,      \* the retirement worker: waits, releases, or has ended
    failed,      \* persistence_failed and memory.error
    source,      \* accepting_events, source_ready; lanes a pause has yet to invalidate
    published    \* publications so far, bounded by MaxGroups

vars == <<replay, total, occupied, lane, aggregate, turn, accepting, woken, publisher,
          writer, disk, retired, retirements, worker, failed, source, published>>

replayVars == <<replay, total, occupied>>
queueVars == <<lane, aggregate, turn, accepting>>
retireVars == <<retired, retirements, worker>>

----------------------------------------------------------------------------
(* Replay windows.                                                         *)

Bytes(groups) == FoldLeft(LAMBDA n, g : n + g.charge, 0, groups)

\* boundary: the last cursor before the last pause; a group after it is fresh.
NewReplay == [published |-> 0, durable |-> 0, floor |-> 0, groups |-> <<>>, slot |-> FALSE,
              boundary |-> 0]
NewLane == [pending |-> <<>>, draining |-> FALSE, active |-> FALSE, used |-> 0]
Idle == [pc |-> "idle", evict |-> 0, growth |-> 0, refund |-> 0, slot |-> FALSE,
         volatile |-> FALSE]

\* The replay lane of the market is locked by its publisher.
Locked(m) == publisher[m].pc \in {"planned", "admitting", "admitted"}

\* The market is registered and has a publisher.
Present(m) == m \notin retired

\* publish_with_state_prepare_charged: how many of its own oldest groups the market
\* gives up for the next one (production expires groups that are not durable, too).
Fits(groups, n) ==
    LET kept == SubSeq(groups, n + 1, Len(groups))
    IN Len(kept) + 1 <= ReplayGroups /\ Bytes(kept) + Charge <= ReplayBytes
\* Mutant: the byte limit is checked without the new group.
EvictionsLate(groups) ==
    Min({n \in 0..Len(groups) : Bytes(SubSeq(groups, n + 1, Len(groups))) <= ReplayBytes})
Evictions(groups) == Min({n \in 0..Len(groups) : Fits(groups, n)})

Evicted(m) == Bytes(SubSeq(replay[m].groups, 1, Evictions(replay[m].groups)))

----------------------------------------------------------------------------
(* Publishing: MarketPublisher::publish_before.                            *)

\* Under the replay lane: the source accepts events, evictions are planned, and slot
\* and aggregate bytes reserved.  A publication that finds no slot or no bytes is
\* refused and changes nothing.
Plan(m) ==
    /\ Present(m) /\ publisher[m].pc = "idle" /\ published < MaxGroups
    /\ source.accepting
    /\ replay[m].slot \/ occupied < Slots
    /\ total + Charge <= TotalBytes + Evicted(m)
    /\ LET growth == IF Charge > Evicted(m) THEN Charge - Evicted(m) ELSE 0
           refund == IF Evicted(m) > Charge THEN Evicted(m) - Charge ELSE 0
       IN /\ publisher' = [publisher EXCEPT ![m] =
                [@ EXCEPT !.pc = "planned", !.evict = Evictions(replay[m].groups),
                          !.growth = growth, !.refund = refund, !.slot = ~replay[m].slot]]
          /\ total' = total + growth
    /\ occupied' = IF replay[m].slot THEN occupied ELSE occupied + 1
    /\ published' = published + 1
    /\ UNCHANGED <<replay, queueVars, woken, writer, disk, retireVars, failed, source>>

\* Mutant: only the writer is asked, so a market queues again behind its gap.
SkipsQueueWhenClosed(m) == ~accepting
\* A live-only market never queues again.
SkipsQueue(m) == publisher[m].volatile \/ ~accepting

\* The admission callback: the persistence lane is locked if the writer looked open.
Admit(m) ==
    /\ publisher[m].pc = "planned"
    /\ publisher' = [publisher EXCEPT ![m] =
            IF SkipsQueue(m) THEN [@ EXCEPT !.pc = "admitted", !.volatile = TRUE]
            ELSE [@ EXCEPT !.pc = "admitting"]]
    /\ UNCHANGED <<replayVars, queueVars, woken, writer, disk, retireVars, failed, source,
                   published>>

\* try_push_inner under the persistence lane: accepting is checked again, both budgets
\* reserved.  No capacity or no writer turns the market live-only for good.
HasCapacity(m) == lane[m].used < LaneBatches /\ aggregate < AllBatches
\* Mutant: only the check before the lane lock is made.
AssumeAccepting == TRUE
WriterAccepts == accepting

Pushed(l, item) == [l EXCEPT !.pending = Append(@, item), !.used = @ + 1]

Push(m) ==
    /\ publisher[m].pc = "admitting"
    /\ IF WriterAccepts /\ HasCapacity(m)
       THEN /\ lane' = [lane EXCEPT ![m] =
                            Pushed(@, [cursor |-> replay[m].published + 1, ready |-> FALSE])]
            /\ aggregate' = aggregate + 1
            /\ turn' = IF m \in ToSet(turn) THEN turn ELSE Append(turn, m)
            /\ woken' = TRUE
            /\ publisher' = [publisher EXCEPT ![m].pc = "admitted"]
       ELSE /\ publisher' = [publisher EXCEPT ![m].pc = "admitted", ![m].volatile = TRUE]
            /\ UNCHANGED <<lane, aggregate, turn, woken>>
    /\ UNCHANGED <<replayVars, accepting, writer, disk, retireVars, failed, source,
                   published>>

\* The group becomes visible, the planned evictions are made, the lane is unlocked.
Committed(r, n) ==
    [r EXCEPT !.published = @ + 1, !.slot = TRUE,
              !.floor = IF n = 0 THEN @ ELSE r.groups[n].cursor,
              !.groups = Append(SubSeq(@, n + 1, Len(@)),
                                [cursor |-> r.published + 1, charge |-> Charge])]
Commit(m) ==
    /\ publisher[m].pc = "admitted"
    /\ replay' = [replay EXCEPT ![m] = Committed(@, publisher[m].evict)]
    /\ total' = total - publisher[m].refund
    /\ publisher' = [publisher EXCEPT ![m] =
            [@ EXCEPT !.pc = "visible", !.evict = 0, !.growth = 0, !.refund = 0, !.slot = FALSE]]
    /\ UNCHANGED <<occupied, queueVars, woken, writer, disk, retireVars, failed, source,
                   published>>

\* ready.store and wake.notify: only now may the writer take the group.
AllReady(pending) == [i \in DOMAIN pending |-> [pending[i] EXCEPT !.ready = TRUE]]
Ready(m) ==
    /\ publisher[m].pc = "visible"
    /\ publisher' = [publisher EXCEPT ![m].pc = "idle"]
    /\ lane' = [lane EXCEPT ![m].pending = AllReady(@)]
    /\ woken' = TRUE
    /\ UNCHANGED <<replayVars, aggregate, turn, accepting, writer, disk, retireVars, failed, source,
                   published>>

----------------------------------------------------------------------------
(* The physical writer: run_writer with wait_pop and try_pop.              *)

\* A round of try_pop looks at as many turns as there are now.
Look ==
    /\ writer.pc = "look"
    /\ woken' = FALSE
    /\ writer' = [writer EXCEPT !.pc = "scan", !.left = Len(turn)]
    /\ UNCHANGED <<replayVars, queueVars, publisher, disk, retireVars, failed, source,
                   published>>

\* One turn.  A lane that is locked, empty or not ready is put back or forgotten.
Takes(m) == /\ publisher[m].pc # "admitting" /\ ~lane[m].active
            /\ lane[m].pending # <<>> /\ Head(lane[m].pending).ready
Scan ==
    /\ writer.pc = "scan" /\ writer.left > 0
    /\ IF turn = <<>> THEN writer' = [writer EXCEPT !.left = 0] /\ UNCHANGED <<turn, lane>>
       ELSE LET m == Head(turn)
                more == \/ publisher[m].pc = "admitting"
                        \/ Len(lane[m].pending) > IF Takes(m) THEN 1 ELSE 0
            IN /\ turn' = IF more THEN Append(Tail(turn), m) ELSE Tail(turn)
               /\ IF Takes(m)
                  THEN /\ lane' = [lane EXCEPT ![m].pending = Tail(@), ![m].active = TRUE]
                       /\ writer' = [writer EXCEPT !.pc = "persist", !.left = 0, !.market = m,
                                                   !.cursor = Head(lane[m].pending).cursor]
                  ELSE /\ writer' = [writer EXCEPT !.left = @ - 1]
                       /\ UNCHANGED lane
    /\ UNCHANGED <<replayVars, aggregate, accepting, woken, publisher, disk, retireVars, failed, source,
                   published>>

\* Nothing to take: end when closed and empty, else sleep until notified.
Rest ==
    /\ writer.pc = "scan" /\ writer.left = 0
    /\ IF ~accepting /\ aggregate = 0 THEN writer' = [writer EXCEPT !.pc = "ended"]
       ELSE writer' = [writer EXCEPT !.pc = "sleep"]
    /\ UNCHANGED <<replayVars, queueVars, woken, publisher, disk, retireVars, failed, source,
                   published>>
Awake ==
    /\ writer.pc = "sleep" /\ woken
    /\ writer' = [writer EXCEPT !.pc = "look"]
    /\ UNCHANGED <<replayVars, queueVars, woken, publisher, disk, retireVars, failed, source,
                   published>>

Persist ==
    /\ writer.pc = "persist"
    /\ disk' = [disk EXCEPT ![writer.market] = Append(@, writer.cursor)]
    /\ writer' = [writer EXCEPT !.pc = "acknowledge"]
    /\ UNCHANGED <<replayVars, queueVars, woken, publisher, retireVars, failed, source, published>>

\* The append fails, before or after it reached the disk.  close() comes first.
PersistFails ==
    /\ writer.pc = "persist" /\ MayFail
    /\ \/ UNCHANGED disk
       \/ disk' = [disk EXCEPT ![writer.market] = Append(@, writer.cursor)]
    /\ accepting' = FALSE /\ woken' = TRUE
    /\ writer' = [writer EXCEPT !.pc = "failing"]
    /\ UNCHANGED <<replayVars, lane, aggregate, turn, publisher, retireVars, failed, source,
                   published>>

\* acknowledge_durable: contiguous, under the replay lane.  A group that is still in the
\* window is charged less from now on.
Discounted(groups, held) ==
    [i \in DOMAIN groups |->
        IF i \in held THEN [groups[i] EXCEPT !.charge = @ - Release] ELSE groups[i]]
Acknowledge ==
    /\ writer.pc = "acknowledge" /\ ~Locked(writer.market)
    /\ LET m == writer.market
           held == {i \in DOMAIN replay[m].groups : replay[m].groups[i].cursor = writer.cursor}
       IN /\ writer.cursor = replay[m].durable + 1
          /\ replay' = [replay EXCEPT ![m].durable = writer.cursor,
                                        ![m].groups = Discounted(@, held)]
          /\ total' = total - Release * Cardinality(held)
    /\ writer' = [writer EXCEPT !.pc = "drop"]
    /\ UNCHANGED <<occupied, queueVars, woken, publisher, disk, retireVars, failed, source,
                   published>>

\* The work item is dropped: both reservations and the writer permit are returned.
Dropped(m) == /\ lane' = [lane EXCEPT ![m].used = @ - 1, ![m].active = FALSE]
              /\ aggregate' = aggregate - 1
              /\ woken' = TRUE
Drop ==
    /\ writer.pc \in {"drop", "failing"}
    /\ Dropped(writer.market)
    /\ writer' = [writer EXCEPT !.pc = IF @ = "drop" THEN "look" ELSE "abandon",
                               !.market = "none", !.cursor = 0]
    /\ failed' = IF writer.pc = "failing" /\ failed = "no" THEN "health" ELSE failed
    /\ UNCHANGED <<replayVars, turn, accepting, publisher, disk, retireVars, source, published>>

\* abandon_pending, one lane after the other.
Abandon(m) ==
    /\ writer.pc = "abandon" /\ publisher[m].pc # "admitting" /\ m \notin writer.done
    /\ lane' = [lane EXCEPT ![m].used = @ - Len(lane[m].pending), ![m].pending = <<>>]
    /\ aggregate' = aggregate - Len(lane[m].pending)
    /\ woken' = TRUE
    /\ writer' = [writer EXCEPT !.done = @ \cup {m}]
    /\ UNCHANGED <<replayVars, turn, accepting, publisher, disk, retireVars, failed, source,
                   published>>

AbandonEnd ==
    /\ writer.pc = "abandon" /\ writer.done = Markets
    /\ writer' = [writer EXCEPT !.pc = "ended"]
    /\ failed' = "error"
    /\ UNCHANGED <<replayVars, queueVars, woken, publisher, disk, retireVars, source, published>>

----------------------------------------------------------------------------
(* The owner: retirement, admission, pause and end.                        *)

\* retire_catalog_markets: the lane is fenced, live_only captured, the work queued.  The
\* market's actor was removed before.
\* Mutant: every market is retired as a durable one.
NeverLiveOnly(m) == FALSE
LiveOnly(m) == publisher[m].volatile

Retire(m) ==
    /\ source.running /\ failed # "error" /\ worker # "ended"
    /\ Present(m) /\ publisher[m].pc = "idle"
    /\ lane' = [lane EXCEPT ![m].draining = TRUE]
    /\ woken' = TRUE
    /\ retirements' = Append(retirements, [market |-> m, gap |-> LiveOnly(m)])
    /\ retired' = retired \cup {m}
    /\ UNCHANGED <<replayVars, aggregate, turn, accepting, publisher, writer, disk, worker, failed,
                   source, published>>

\* wait_drained and the physical retirement; a drain that takes too long is retried
\* unless persistence failed.
Drained(m) == lane[m].used = 0 /\ ~lane[m].active
Drain ==
    /\ worker = "wait" /\ retirements # <<>>
    /\ \/ Drained(Head(retirements).market) /\ worker' = "release"
       \/ ~Drained(Head(retirements).market) /\ failed # "no" /\ worker' = "ended"
    /\ UNCHANGED <<replayVars, queueVars, woken, publisher, writer, disk, retired, retirements,
                   failed, source, published>>

\* finish_retire, then retire_with_durability_gap, which refuses a market with groups
\* that are neither durable nor declared live-only.
Released ==
    /\ worker = "release"
    /\ LET m == Head(retirements).market
       IN /\ lane' = [lane EXCEPT ![m] = NewLane]
          /\ turn' = Kept(turn, Markets \ {m})
          /\ IF Head(retirements).gap \/ replay[m].published = replay[m].durable
             THEN /\ total' = total - Bytes(replay[m].groups)
                  /\ occupied' = IF replay[m].slot THEN occupied - 1 ELSE occupied
                  /\ replay' = [replay EXCEPT ![m] = NewReplay]
                  /\ retirements' = Tail(retirements)
                  /\ worker' = "wait"
                  /\ UNCHANGED failed
             ELSE worker' = "ended" /\ failed' = "error" /\ UNCHANGED <<replayVars, retirements>>
    /\ UNCHANGED <<aggregate, accepting, woken, publisher, writer, disk, retired, source, published>>

\* Admission again, with a new stream epoch and a new publisher.
Register(m) ==
    /\ source.running /\ accepting
    /\ m \in retired /\ m \notin {retirements[i].market : i \in DOMAIN retirements}
    /\ retired' = retired \ {m}
    /\ publisher' = [publisher EXCEPT ![m] = Idle]
    /\ disk' = [disk EXCEPT ![m] = <<>>]
    /\ UNCHANGED <<replayVars, queueVars, woken, writer, retirements, worker, failed, source,
                   published>>

\* pause_source: both fences first, then every window, one lane after the other.
Pause ==
    /\ source.running /\ source.invalidating = {} /\ source.pauses < MaxPauses
    /\ source' = [source EXCEPT !.accepting = FALSE, !.ready = FALSE, !.pauses = @ + 1,
                                !.invalidating = Markets]
    /\ UNCHANGED <<replayVars, queueVars, woken, publisher, writer, disk, retireVars, failed,
                   published>>

\* Mutant: the floor of the window stays where it was.
InvalidateGroupsOnly(r) == [r EXCEPT !.groups = <<>>, !.slot = FALSE, !.boundary = r.published]
Invalidated(r) == [r EXCEPT !.groups = <<>>, !.slot = FALSE, !.floor = r.published,
                            !.boundary = r.published]
Invalidate(m) ==
    /\ m \in source.invalidating /\ ~Locked(m)
    /\ replay' = [replay EXCEPT ![m] = Invalidated(@)]
    /\ total' = total - Bytes(replay[m].groups)
    /\ occupied' = IF replay[m].slot THEN occupied - 1 ELSE occupied
    /\ source' = [source EXCEPT !.invalidating = @ \ {m}]
    /\ UNCHANGED <<queueVars, woken, publisher, writer, disk, retireVars, failed, published>>

Resume ==
    /\ source.running /\ source.invalidating = {} /\ ~source.accepting
    /\ source' = [source EXCEPT !.accepting = TRUE]
    /\ UNCHANGED <<replayVars, queueVars, woken, publisher, writer, disk, retireVars, failed,
                   published>>

\* fresh_acquisition_started, then set_source_ready(true).
SourceReady ==
    /\ source.running /\ source.accepting /\ ~source.ready /\ failed = "no"
    /\ \E m \in Markets \ retired : replay[m].published > replay[m].boundary
    /\ source' = [source EXCEPT !.ready = TRUE]
    /\ UNCHANGED <<replayVars, queueVars, woken, publisher, writer, disk, retireVars, failed,
                   published>>

\* Publication::finish: the queue is closed and the writer drains it, then the
\* retirement worker runs out of work.
Close ==
    /\ source.running /\ source.invalidating = {}
    /\ source' = [source EXCEPT !.running = FALSE, !.accepting = FALSE, !.ready = FALSE]
    /\ accepting' = FALSE /\ woken' = TRUE
    /\ UNCHANGED <<replayVars, lane, aggregate, turn, publisher, writer, disk, retireVars, failed,
                   published>>
RetireEnd ==
    /\ ~source.running /\ writer.pc = "ended" /\ worker = "wait" /\ retirements = <<>>
    /\ worker' = "ended"
    /\ UNCHANGED <<replayVars, queueVars, woken, publisher, writer, disk, retired, retirements,
                   failed, source, published>>

----------------------------------------------------------------------------

\* start_with_limits: every configured market is registered with a publisher.
Init ==
    /\ replay = [m \in Markets |-> NewReplay] /\ total = 0 /\ occupied = 0
    /\ lane = [m \in Markets |-> NewLane] /\ aggregate = 0 /\ turn = <<>>
    /\ accepting = TRUE /\ woken = FALSE
    /\ publisher = [m \in Markets |-> Idle]
    /\ writer = [pc |-> "look", left |-> 0, market |-> "none", cursor |-> 0,
                 done |-> {}]
    /\ disk = [m \in Markets |-> <<>>]
    /\ retired = {} /\ retirements = <<>> /\ worker = "wait" /\ failed = "no"
    /\ source = [running |-> TRUE, accepting |-> TRUE, ready |-> TRUE, pauses |-> 0,
                 invalidating |-> {}]
    /\ published = 0

WriterStep == \/ Look \/ Scan \/ Rest \/ Awake \/ Persist \/ PersistFails
              \/ Acknowledge \/ Drop \/ (\E m \in Markets : Abandon(m)) \/ AbandonEnd
WorkerStep == Drain \/ Released \/ RetireEnd

Next ==
    \/ \E m \in Markets : Plan(m)
    \/ \E m \in Markets : Admit(m)
    \/ \E m \in Markets : Push(m)
    \/ \E m \in Markets : Commit(m)
    \/ \E m \in Markets : Ready(m)
    \/ WriterStep \/ WorkerStep
    \/ \E m \in Markets : Retire(m)
    \/ \E m \in Markets : Register(m)
    \/ \E m \in Markets : Invalidate(m)
    \/ Pause \/ Resume \/ SourceReady \/ Close

Spec == Init /\ [][Next]_vars

----------------------------------------------------------------------------
(* Properties.                                                             *)

\* The budgets are what the queues, windows and reservations hold, under every
\* interleaving of publication, acknowledgement, eviction, pause and retirement; and a
\* market that has or gets a slot is never refused for the aggregate bytes
\* (source_market_replay.rs, source_market_persistence.rs: Budget, ReplayReservation).
BudgetsBalance ==
    /\ \A m \in Markets : lane[m].used = Len(lane[m].pending) + IF lane[m].active THEN 1 ELSE 0
    /\ aggregate = MapThenSumSet(LAMBDA m : lane[m].used, Markets)
    /\ total = MapThenSumSet(LAMBDA m : Bytes(replay[m].groups) + publisher[m].growth, Markets)
    /\ total <= TotalBytes
    /\ occupied = Cardinality({m \in Markets : replay[m].slot \/ publisher[m].slot})
    /\ \A m \in Markets : publisher[m].pc = "idle" /\ (replay[m].slot \/ occupied < Slots) =>
            total + Charge <= TotalBytes + Evicted(m)

\* What the archive holds of a market's epoch is a prefix without holes, the durable
\* cursor never passes it, and while the writer is healthy the queue continues it
\* without a hole: nothing is ever queued behind a live-only group.
DurablePrefix ==
    \A m \in Markets :
        LET last == IF writer.pc \in {"persist", "failing"} /\ writer.market = m
                    THEN writer.cursor ELSE Len(disk[m])
        IN /\ disk[m] = [i \in 1..Len(disk[m]) |-> i]
           /\ m \notin retired => replay[m].durable <= Len(disk[m])
           /\ writer.pc \notin {"abandon", "ended"} =>
                \A i \in DOMAIN lane[m].pending : lane[m].pending[i].cursor = last + i

\* A window holds exactly the groups after its floor, so a resume cursor that is not
\* refused as expired is answered without a gap and never with nothing but the floor
\* (replay's "market replay gap" and second "market replay expired" cannot happen).
Page(m, after) ==
    Kept(replay[m].groups, {g \in ToSet(replay[m].groups) : g.cursor > after})
WindowIsTheSuffix ==
    \A m \in Markets : \A after \in replay[m].floor..replay[m].published :
        LET page == Page(m, after)
        IN /\ Len(page) = replay[m].published - after
           /\ \A i \in DOMAIN page : page[i].cursor = after + i

\* A retirement is refused only when the physical writer failed: a market that lost
\* groups to a full queue was captured as live-only, the others have drained.
RefusedOnlyByFailure ==
    [][failed' = "error" /\ failed = "no" => writer.pc = "failing"]_vars

\* No admitted work is forgotten: a lane with work has its turn, the writer sleeps only
\* while nothing is ready or a publisher is about to wake it (a refused admission unlocks
\* the lane silently, its publication notifies later), and when it has ended nothing is
\* queued, whatever publishers that saw it open still did.
NoStrandedWork ==
    /\ \A m \in Markets : lane[m].pending # <<>> /\ writer.pc # "abandon" => m \in ToSet(turn)
    /\ writer.pc = "sleep" /\ ~woken =>
            \A m \in Markets : Takes(m) => publisher[m].pc \in {"admitted", "visible"}
    /\ writer.pc = "ended" => aggregate = 0 /\ \A m \in Markets : lane[m].pending = <<>>
=============================================================================
