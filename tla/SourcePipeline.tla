--------------------------- MODULE SourcePipeline ---------------------------
(***************************************************************************)
(* One market of the source WebSocket pipeline: the owner loop             *)
(* (run_connection with its router adapter), the market's reducer actor    *)
(* (a task of the dispatcher), the control record the two share under a    *)
(* mutex, and the market's published read state.                           *)
(*                                                                         *)
(* A token whose books may have lost an update is put into recovery: a     *)
(* recovery_started event with a fresh attempt id is published and the     *)
(* token becomes readable again only from an authoritative book.  Barriers *)
(* come from the owner (lost socket, full queue, failed actor) and from    *)
(* the actor (gap or invalid frame in the input order).  Generations fence *)
(* queued work, attempt ids fence late answers.                            *)
(*                                                                         *)
(* Attempt ids are hashes and generations 64-bit counters that the code    *)
(* only compares for equality: a number that nothing holds any more is     *)
(* used again, which keeps the state space finite without a bound on the   *)
(* number of recoveries.  A book carries a ghost age that no guard reads:  *)
(* "fresh" when it was received (or requested) after the last barrier of   *)
(* its token and the last pause, "old" or "paused" when it precedes them   *)
(* (the later of the two says which), "witness" for the answer to a        *)
(* confirmation asked before.                                              *)
(***************************************************************************)
EXTENDS Naturals, Sequences, FiniteSets, SequencesExt

CONSTANTS
    Tokens,      \* the two outcome tokens of the market
    Covers,      \* the sets of tokens an incremental frame may be about
    QueueCap,    \* MARKET_QUEUE_CAPACITY, the actor's input slots
    DoneCap,     \* output_capacity, the actor's completion slots
    MaxFaults    \* bound on the rare events: gaps, overflows, failures, panics, pauses,
                 \* confirmations and socket rotations

ASSUME PipelineAssumption == /\ IsFiniteSet(Tokens) /\ Tokens # {}
                             /\ Covers \subseteq (SUBSET Tokens) \ {{}}
                             /\ QueueCap \in Nat \ {0} /\ DoneCap \in Nat \ {0}
                             /\ MaxFaults \in Nat

VARIABLES
    control,   \* Control: generation, attempts, baseline_admitted, pending_barrier
    router,    \* the owner's adapter.recoveries
    actor,     \* State of the reducer: adapter and generation; work is the reduced input
    queue,     \* the actor's input FIFO
    done,      \* completions on their way to the owner
    pub,       \* MarketReadState and accepting_events
    job,       \* the market's recovery job, with the attempts captured at spawn
    probe,     \* a confirmation request in flight
    due,       \* owed: tokens whose subscription snapshot the socket still owes; ghost
               \* refused: those whose snapshot the owner dropped without any barrier
    owner,     \* where the owner loop is; "gone" once the market is retired
    enabled,   \* leases.enabled()
    faults     \* faults left

vars == <<control, router, actor, queue, done, pub, job, probe, due, owner, enabled, faults>>

----------------------------------------------------------------------------
(* Attempt ids, generations and the ghost age of a book.                   *)

None == 0
Nothing == [t \in Tokens |-> None]
NoBooks == [t \in Tokens |-> "none"]
NoWork == [gen |-> 0, kind |-> "none", started |-> Nothing, books |-> NoBooks,
           completed |-> Nothing]
NoJob == [on |-> FALSE, attempts |-> Nothing, age |-> NoBooks]

Only(ids, T) == [t \in Tokens |-> IF t \in T THEN ids[t] ELSE None]
Held(ids) == {t \in Tokens : ids[t] # None}
Override(ids, new) == [t \in Tokens |-> IF new[t] # None THEN new[t] ELSE ids[t]]
OnlyBooks(books, T) == [t \in Tokens |-> IF t \in T THEN books[t] ELSE "none"]
BooksOf(T, age) == [t \in Tokens |-> IF t \in T THEN age ELSE "none"]

\* Ghost: the age of something that exists when a barrier ("old") or a pause comes.
Aged(a, age) == IF a = "none" THEN a ELSE age
Older(books, age) == [t \in Tokens |-> Aged(books[t], age)]

\* The state as one record, so that the calls a handler makes one after the
\* other compose as functions.
Now == [control |-> control, router |-> router, actor |-> actor, queue |-> queue,
        done |-> done, pub |-> pub, job |-> job, probe |-> probe]

Become(next) == \E s \in {next} :
    /\ control' = s.control /\ router' = s.router /\ actor' = s.actor
    /\ queue' = s.queue /\ done' = s.done /\ pub' = s.pub /\ job' = s.job
    /\ probe' = s.probe

UsedIds(s) ==
    UNION {{f[t] : t \in Tokens} : f \in
        {s.router, s.control.attempts, s.control.pending, s.actor.rec, s.actor.work.started,
         s.actor.work.completed, s.pub.rec, s.job.attempts}
        \cup {s.queue[i].recovery : i \in 1..Len(s.queue)}
        \cup UNION {{s.done[i].started, s.done[i].completed} : i \in 1..Len(s.done)}}

\* Adapter::invalidate hashes token, reason, receipt time and cursor: the least number
\* that nothing holds stands for the new hash.
FreshId(s) == Min(1..(Cardinality(UsedIds(s)) + 1) \ UsedIds(s))

UsedGens(s) == {s.control.gen, s.actor.gen, s.actor.work.gen}
               \cup {s.queue[i].gen : i \in 1..Len(s.queue)}
               \cup {s.done[i].gen : i \in 1..Len(s.done)}
NextGen(s) == Min(0..Cardinality(UsedGens(s)) \ UsedGens(s))

----------------------------------------------------------------------------
(* The published read state.                                               *)

\* A reader accepts a token's book: source_market_live::native_token.  A token
\* in recovery counts as resolved once a full snapshot of it is published, even
\* before the recovery_completed event.
Readable(p, t) == /\ p.book[t] # "none" /\ t \notin p.seed /\ ~p.fenced
                  /\ (p.rec[t] # None => t \in p.snap)

\* MarketReadState::prepare_native_group with apply_token_recovery: the events of
\* a group are applied in order, starts, then snapshots, then completions.
GroupAccepted(p, g) ==
    LET rec == Override(p.rec, g.started)
    IN /\ p.accepting
       /\ p.fenced => Held(g.started) # {} \/ Held(p.rec) # {}
       /\ \A t \in Held(g.completed) : rec[t] = g.completed[t]

GroupApplied(p, g) ==
    LET rec  == [t \in Tokens |-> IF g.completed[t] # None THEN None
                                  ELSE Override(p.rec, g.started)[t]]
        written == {t \in Tokens : g.books[t] # "none"}
        book == [t \in Tokens |-> IF t \in written THEN g.books[t]
                                  ELSE IF g.started[t] # None THEN Aged(p.book[t], "old")
                                  ELSE p.book[t]]
        seed == p.seed \ written
        snap == IF g.kind = "delta" THEN p.snap \ written
                ELSE (p.snap \ Held(g.started)) \cup written
    IN [p EXCEPT !.rec = rec, !.book = book, !.seed = seed,
                 !.snap = {t \in snap : rec[t] # None},
                 !.fenced = p.fenced /\ ~(/\ seed = {} /\ Held(rec) = {}
                                          /\ \A t \in Tokens : book[t] # "none")]

\* Publication::fence_market_capacity.
FenceMarketCapacity(p) == [p EXCEPT !.fenced = TRUE, !.seed = Tokens]

----------------------------------------------------------------------------
(* Owner calls on the pipeline, as functions of the state record.          *)

\* Ghost: everything received or requested so far precedes the owner's barrier or pause.
Age(s, age) ==
    LET work == [s.actor.work EXCEPT !.books = Older(s.actor.work.books, age)]
    IN [s EXCEPT !.actor = [s.actor EXCEPT !.book = Older(s.actor.book, age), !.work = work],
                 !.queue = [i \in DOMAIN s.queue |->
                               [s.queue[i] EXCEPT !.age = Aged(s.queue[i].age, age)]],
                 !.pub = [s.pub EXCEPT !.book = Older(s.pub.book, age)],
                 !.job = [s.job EXCEPT !.age = Older(s.job.age, age)],
                 !.probe = Aged(s.probe, "old")]

Barrier(ids) == [gen |-> 0, kind |-> "barrier", started |-> ids, books |-> NoBooks,
                 completed |-> Nothing]

\* The tail of invalidate_market: bump the generation under the control lock.
Bumped(s, ids, pending) ==
    [s EXCEPT !.control = [gen |-> NextGen(s), attempts |-> ids, baseline |-> FALSE,
                           pending |-> pending]]

\* fence_failed_market.
FenceFailedMarket(s) ==
    [Bumped(s, s.router, Nothing) EXCEPT !.pub = FenceMarketCapacity(@)]

\* invalidate_or_fence_market around invalidate_market.  `full`: the replay lane has no
\* capacity for the barrier.  A successful publication leaves pending_barrier as it was.
Unavailable(s) == Held(s.control.attempts) # {} /\ ~s.control.baseline
InvalidateMarket(s, reason, full) ==
    IF reason = "capacity" /\ Unavailable(s)
    THEN s
    ELSE LET id == FreshId(s)
             ids == [t \in Tokens |-> id]
             r == [Age(s, "old") EXCEPT !.router = ids]
         IN IF ~s.pub.accepting THEN FenceFailedMarket(r)
            ELSE IF full
            THEN [Bumped(r, ids, ids) EXCEPT !.pub = FenceMarketCapacity(@)]
            ELSE [Bumped(r, ids, s.control.pending) EXCEPT !.pub = GroupApplied(@, Barrier(ids))]

\* flush_pending_barrier: the result says whether input may be admitted.
CanFlush(s, full) == Held(s.control.pending) = {} \/ ~full
FlushPendingBarrier(s) ==
    IF Held(s.control.pending) = {} THEN s
    ELSE [s EXCEPT !.pub = GroupApplied(@, Barrier(s.control.pending)),
                   !.control = [@ EXCEPT !.pending = Nothing]]

Input(s, kind, T, recovery, age) ==
    [kind |-> kind, tokens |-> T, recovery |-> recovery, age |-> age, gen |-> s.control.gen]

\* dispatch.try_submit; an accepted input sets baseline_admitted.
HasRoom(s) == s.actor.open /\ Len(s.queue) < QueueCap
Enqueue(s, in) == [s EXCEPT !.queue = Append(@, in), !.control = [@ EXCEPT !.baseline = TRUE]]

\* submit_market_frames, submit_rest_recovery and submit_rest_replacement: they share
\* the flush, the try_submit and the rejection.  Incrementals of an unavailable
\* market are dropped before they take a slot.
IgnoresIncremental(s, kind) == kind = "delta" /\ Unavailable(s)
Submit(s, kind, T, recovery, age, full) ==
    IF ~CanFlush(s, full) THEN s
    ELSE LET f == FlushPendingBarrier(s)
         IN IF IgnoresIncremental(f, kind) THEN f
            ELSE IF HasRoom(f) THEN Enqueue(f, Input(f, kind, T, recovery, age))
            ELSE InvalidateMarket(f, IF f.actor.open \/ kind \in {"rest", "replacement"}
                                     THEN "capacity" ELSE "closed", full)

\* Faults a submission meets: no replay capacity, or no room in the queue.
SubmitCost(s, kind, full) ==
    (IF full THEN 1 ELSE 0)
    + (IF CanFlush(s, full) /\ ~IgnoresIncremental(s, kind) /\ s.actor.open /\ ~HasRoom(s)
       THEN 1 ELSE 0)
FullMatters(s) == Held(s.control.pending) # {} \/ ~HasRoom(s)

\* Ghost: the input is lost, without a slot and without a barrier.
Dropped(s, full) ==
    ~CanFlush(s, full) \/ (s.actor.open /\ ~HasRoom(s) /\ Unavailable(s))

Owed(T) == [owed |-> T, refused |-> {}]

Spend(n) == faults >= n /\ faults' = faults - n
Running == owner = "loop" /\ enabled

----------------------------------------------------------------------------
(* The owner loop.                                                         *)

\* A frame of the market's socket: submit_routed_batches of one reviewed pair.  A gap
\* or an invalid frame is a fault; a book may be the snapshot the subscription owes.
\* A price change covers one token or both; a lost connection is a gap of both.
ReceiveFrame(kind, T) ==
    /\ Running
    /\ \E full \in BOOLEAN :
        /\ full => FullMatters(Now)
        /\ Spend(SubmitCost(Now, kind, full) + IF kind \in {"gap", "bad"} THEN 1 ELSE 0)
        /\ Become(Submit(Now, kind, T, Nothing, "fresh", full))
        /\ due' = CASE kind = "book" ->
                         [owed |-> due.owed \ T,
                          refused |-> IF Dropped(Now, full) THEN due.refused \cup T
                                      ELSE due.refused \ T]
                    [] kind = "gap" -> Owed(Tokens)
                    [] OTHER -> due
    /\ UNCHANGED <<owner, enabled>>

ReceiveDelta(T) == ReceiveFrame("delta", T)
ReceiveBook(t) == ReceiveFrame("book", {t})
ReceiveGap == ReceiveFrame("gap", Tokens)
ReceiveInvalid(T) == ReceiveFrame("bad", T)

\* A batch whose frames do not belong to the reviewed pair, or a failed socket task:
\* handle_acquisition_socket_failure.
SocketFailed ==
    /\ Running
    /\ \E full \in BOOLEAN :
        /\ Spend(1 + IF full THEN 1 ELSE 0)
        /\ Become(InvalidateMarket(Now, "socket", full))
    /\ due' = Owed(Tokens)
    /\ UNCHANGED <<owner, enabled>>

\* submit_connection_checkpoint: optional work, refused without any barrier.
SubmitCheckpoint ==
    /\ Running
    /\ Held(control.attempts) = {} /\ Held(control.pending) = {} /\ HasRoom(Now)
    /\ Spend(1)
    /\ queue' = Append(queue, Input(Now, "checkpoint", Tokens, Nothing, "fresh"))
    /\ UNCHANGED <<control, router, actor, done, pub, job, probe, due, owner, enabled>>

\* Pipeline::publish: mirror the transitions of a current completion, turn an
\* error into a barrier.  An error is not compared with the control generation.
\* Mutant: only completions reach the mirrors, starts do not.
MirroredCompletions(r, d) == [t \in Tokens |-> IF d.completed[t] # None THEN None ELSE r[t]]
Mirrored(r, d) == [t \in Tokens |-> IF d.completed[t] # None THEN None
                                    ELSE Override(r, d.started)[t]]
Publish ==
    /\ owner = "loop" /\ done # <<>>
    /\ LET d == Head(done)
           s == [Now EXCEPT !.done = Tail(done)]
       IN IF d.error # "none"
          THEN \E full \in BOOLEAN :
                /\ full => pub.accepting
                /\ Spend(IF full THEN 1 ELSE 0)
                /\ Become(InvalidateMarket(s, d.error, full))
          ELSE /\ Become(IF d.gen = control.gen
                         THEN [s EXCEPT !.router = Mirrored(@, d)] ELSE s)
               /\ UNCHANGED faults
    /\ UNCHANGED <<due, owner, enabled>>

\* retry_tick: restart_closed_actors, then one recovery job for the pending tokens.
AlreadyUnavailable == /\ ~control.baseline /\ Held(control.attempts) = Tokens
                      /\ router = control.attempts
NewActor(s) == [gen |-> s.control.gen, wait |-> Tokens, rec |-> s.router, book |-> NoBooks,
                open |-> TRUE, work |-> NoWork]
Restarted(s) == [s EXCEPT !.actor = NewActor(s), !.queue = <<>>, !.done = <<>>]
WithJob(s) == IF enabled /\ Held(s.router) # {} /\ ~s.job.on
              THEN [s EXCEPT !.job = [on |-> TRUE, attempts |-> s.router, age |-> BooksOf(Tokens, "fresh")]] ELSE s
RetryTick ==
    /\ owner = "loop"
    /\ ~actor.open \/ WithJob(Now) # Now
    /\ \E full \in BOOLEAN :
        /\ full => ~actor.open /\ ~AlreadyUnavailable /\ pub.accepting
        /\ Spend(IF full THEN 1 ELSE 0)
        /\ Become(WithJob(
              IF actor.open THEN Now
              ELSE Restarted(IF AlreadyUnavailable THEN Now
                             ELSE InvalidateMarket(Now, "closed", full))))
    /\ UNCHANGED <<due, owner, enabled>>

\* recovery_jobs.join_next: each token whose attempt is still the router's submits its
\* snapshot; a failed job is asked again on a later tick.
Matching(s, t) == s.job.attempts[t] # None /\ s.router[t] = s.job.attempts[t]
SubmitSnapshot(s, t) ==
    IF Matching(s, t)
    THEN Submit(s, "book", {t}, Only(s.job.attempts, {t}), s.job.age[t], FALSE) ELSE s
Submitted(s, order) ==
    LET after[i \in 0..Len(order)] ==
            IF i = 0 THEN s ELSE SubmitSnapshot(after[i - 1], order[i])
    IN after[Len(order)]
JobAnswered ==
    /\ owner = "loop" /\ job.on
    /\ LET ended(s) == [s EXCEPT !.job = NoJob]
           overflows ==
               /\ enabled /\ actor.open
               /\ Cardinality({t \in Tokens : Matching(Now, t)}) + Len(queue) > QueueCap
       IN /\ Spend(IF overflows THEN 1 ELSE 0)
          /\ IF enabled
             THEN \E order \in SetToSeqs(Tokens) : Become(ended(Submitted(Now, order)))
             ELSE Become(ended(Now))
    /\ UNCHANGED <<due, owner, enabled>>

JobFailed ==
    /\ owner = "loop" /\ job.on
    /\ Spend(1)
    /\ job' = NoJob
    /\ UNCHANGED <<control, router, actor, queue, done, pub, probe, due, owner, enabled>>

\* A confirmation request (run_confirmations or a freshness socket) and its answer: it
\* completes the recoveries pending on arrival, or replaces a pair that differs.
AskConfirmation ==
    /\ Running /\ probe = "none"
    /\ Spend(1)
    /\ probe' = "fresh"
    /\ UNCHANGED <<control, router, actor, queue, done, pub, job, due, owner, enabled>>

ConfirmationAnswered ==
    /\ owner = "loop" /\ probe # "none"
    /\ LET age == IF probe = "old" THEN "witness" ELSE "fresh"
           s == [Now EXCEPT !.probe = "none"]
           kind == IF Held(router) # {} THEN "rest" ELSE "replacement"
       IN IF ~enabled THEN Become(s) /\ UNCHANGED faults
          ELSE \/ Become(s) /\ UNCHANGED faults     \* confirmed, superseded or failed
               \/ \E full \in BOOLEAN :
                    /\ full => FullMatters(Now)
                    /\ Spend(SubmitCost(Now, kind, full))
                    /\ Become(Submit(s, kind, Tokens,
                                     IF kind = "rest" THEN router ELSE Nothing, age, full))
    /\ UNCHANGED <<due, owner, enabled>>

\* pause_acquisition: pause_source closes the publication without the control lock,
\* pause_all then bumps the generation.
PauseSource ==
    /\ Running
    /\ Spend(1)
    /\ enabled' = FALSE /\ owner' = "pausing" /\ due' = Owed({})
    /\ pub' = [pub EXCEPT !.accepting = FALSE, !.rec = Nothing, !.book = NoBooks,
                          !.seed = Tokens, !.snap = {}, !.fenced = FALSE]
    /\ UNCHANGED <<control, router, actor, queue, done, job, probe>>

PauseAll ==
    /\ owner = "pausing"
    /\ Become(Bumped(Age(Now, "paused"), router, control.pending))
    /\ owner' = "loop"
    /\ UNCHANGED <<due, enabled, faults>>

\* AcquireLease: add_pairs subscribes again, resume_acquisition accepts events.
AcquireLease ==
    /\ owner = "loop" /\ ~enabled
    /\ enabled' = TRUE /\ due' = Owed(Tokens)
    /\ pub' = [pub EXCEPT !.accepting = TRUE]
    /\ UNCHANGED <<control, router, actor, queue, done, job, probe, owner, faults>>

\* A terminal lifecycle fact: published first, the market removed afterwards.  A
\* refused publication ends run_connection.
TerminalPublished ==
    /\ Running
    /\ Spend(1)
    /\ IF pub.fenced /\ Held(pub.rec) = {}
       THEN owner' = "failed" /\ UNCHANGED pub
       ELSE /\ owner' = "retiring"
            /\ pub' = [pub EXCEPT !.rec = Nothing, !.book = NoBooks, !.snap = {},
                                  !.terminal = TRUE]
    /\ UNCHANGED <<control, router, actor, queue, done, job, probe, due, enabled>>

\* remove_market with retire_market.
RemoveMarket ==
    /\ owner = "retiring"
    /\ owner' = "gone" /\ due' = Owed({})
    /\ control' = [control EXCEPT !.gen = NextGen(Now), !.attempts = Nothing,
                                  !.pending = Nothing]
    /\ router' = Nothing /\ job' = NoJob /\ probe' = "none" /\ done' = <<>>
    /\ UNCHANGED <<actor, queue, pub, enabled, faults>>

----------------------------------------------------------------------------
(* The market actor: reduce an input, then publish it under the control    *)
(* lock.  The owner may act between the two.                               *)

\* Adapter::invalidate for a set of tokens.
Invalidated(a, ids) ==
    LET T == Held(ids)
    IN [a EXCEPT !.rec = Override(@, ids), !.wait = @ \cup T,
                 !.book = [t \in Tokens |-> IF t \in T THEN "none" ELSE @[t]]]

\* A full book of the tokens T seeds the reducer; the recoveries in ids complete.
Seeded(a, T, age, ids) ==
    [a EXCEPT !.wait = @ \ T,
              !.book = [t \in Tokens |-> IF t \in T THEN age ELSE @[t]],
              !.rec = [t \in Tokens |-> IF ids[t] # None THEN None ELSE @[t]]]

Work(in, started, books, completed) ==
    [gen |-> in.gen, kind |-> in.kind, started |-> started, books |-> books,
     completed |-> completed]

\* The start of the closure: a generation change discards the connection's books.
\* Mutant: the reducer forgets the attempts when the generation changes.
SyncedForgets(a) == IF a.gen = control.gen THEN a
                    ELSE [a EXCEPT !.gen = control.gen, !.wait = Tokens, !.book = NoBooks,
                                   !.rec = Nothing]
Synced(a) == IF a.gen = control.gen THEN a
             ELSE [a EXCEPT !.gen = control.gen, !.wait = Tokens, !.book = NoBooks,
                            !.rec = control.attempts]

\* Every attempt the input carries has been superseded.
StaleRecovery(a, in) == /\ Held(in.recovery) # {}
                        /\ \A t \in Held(in.recovery) : a.rec[t] # in.recovery[t]

\* apply_isolated, apply_rest_recovery, the replacement and stage_connection_checkpoint:
\* the reducer after the input and the group it wants published.
Reduced(a, in, id) ==
    LET ids(T) == [t \in Tokens |-> IF t \in T THEN id ELSE None]
        nothing == [actor |-> a, work |-> NoWork]
        restart(T) == [actor |-> Invalidated(a, ids(T)),
                       work |-> Work(in, ids(T), NoBooks, Nothing)]
        matched == [t \in Tokens |-> IF in.recovery[t] = a.rec[t] THEN a.rec[t] ELSE None]
    IN CASE in.kind = "delta" ->
              IF a.wait \cap in.tokens # {} THEN nothing
              ELSE [actor |-> a, work |-> Work(in, Nothing, OnlyBooks(a.book, in.tokens), Nothing)]
         [] in.kind = "book" ->
              [actor |-> Seeded(a, in.tokens, in.age, Only(a.rec, in.tokens)),
               work |-> Work(in, Nothing, BooksOf(in.tokens, in.age), Only(a.rec, in.tokens))]
         [] in.kind = "gap" ->
              IF Held(a.rec) = Tokens THEN nothing ELSE restart(Tokens \ Held(a.rec))
         [] in.kind = "bad" ->
              IF Cardinality(in.tokens) > 1 /\ in.tokens \cap a.wait # {} THEN nothing
              ELSE restart(in.tokens)
         [] in.kind = "rest" ->
              [actor |-> Seeded(a, Tokens, in.age, matched),
               work |-> Work(in, Nothing, BooksOf(Tokens, in.age), matched)]
         [] in.kind = "replacement" ->
              [actor |-> Seeded(Invalidated(a, ids(Tokens)), Tokens, in.age, ids(Tokens)),
               work |-> Work(in, ids(Tokens), BooksOf(Tokens, in.age), ids(Tokens))]
         [] in.kind = "checkpoint" ->
              IF a.wait # {} \/ Held(a.rec) # {} THEN nothing
              ELSE [actor |-> a, work |-> Work(in, Nothing, BooksOf(Tokens, in.age), Nothing)]

\* The actor waits for a completion slot before it takes more input.
ActorTakes == actor.open /\ actor.work = NoWork /\ queue # <<>> /\ Len(done) <= DoneCap

ActorReduces ==
    /\ ActorTakes
    /\ LET in == Head(queue)
           a == Synced(actor)
           r == Reduced(a, in, FreshId(Now))
       IN actor' = IF in.gen # control.gen THEN actor
                   ELSE IF StaleRecovery(a, in) THEN a
                   ELSE [r.actor EXCEPT !.work = r.work]
    /\ queue' = Tail(queue)
    /\ UNCHANGED <<control, router, done, pub, job, probe, due, owner, enabled, faults>>

\* A panic of the reducer closes this actor's queue; completions of the same CPU
\* batch that were not sent yet are lost with it.
ActorPanics ==
    /\ ActorTakes
    /\ Spend(1)
    /\ \E k \in 0..Len(done) :
        done' = Append(SubSeq(done, 1, k), [gen |-> control.gen, error |-> "worker",
                                            started |-> Nothing, completed |-> Nothing])
    /\ actor' = [actor EXCEPT !.open = FALSE]
    /\ queue' = <<>>
    /\ UNCHANGED <<control, router, pub, job, probe, due, owner, enabled>>

\* The publication part of the closure, under the control lock.
Completion(w, error) == [gen |-> w.gen, error |-> error,
                         started |-> IF error = "none" THEN w.started ELSE Nothing,
                         completed |-> IF error = "none" THEN w.completed ELSE Nothing]
\* Mutant: completions without a start are not sent to the owner.
ReportedStarts(w, error) ==
    IF error # "none" \/ Held(w.started) # {} THEN Append(done, Completion(w, error)) ELSE done
Reported(w, error) ==
    IF error # "none" \/ Held(w.started) \cup Held(w.completed) # {}
    THEN Append(done, Completion(w, error)) ELSE done
Committed(w) == IF w.kind = "checkpoint" THEN Seeded(actor, Tokens, w.books[CHOOSE t \in Tokens : TRUE], Nothing)
                ELSE actor
\* Mutant: the generation is not compared again under the control lock.
NeverFenced(w) == FALSE
Fenced(w) == w.gen # control.gen

ActorPublishes ==
    /\ actor.work # NoWork
    /\ LET w == actor.work
           idle(a) == [a EXCEPT !.work = NoWork]
       IN \/ /\ Fenced(w)
             /\ actor' = idle(actor)
             /\ UNCHANGED <<control, done, pub, job, probe, due, faults>>
          \/ /\ ~Fenced(w) /\ GroupAccepted(pub, w)
             /\ pub' = GroupApplied(pub, w)
             /\ control' = [control EXCEPT !.attempts = Mirrored(@, w)]
             /\ done' = Reported(w, "none")
             /\ actor' = idle(Committed(w))
             /\ job' = [job EXCEPT !.age = [t \in Tokens |->
                           IF w.started[t] # None THEN Aged(@[t], "old") ELSE @[t]]]
             /\ probe' = IF Held(w.started) # {} THEN Aged(probe, "old") ELSE probe
             /\ due' = [due EXCEPT !.refused = {t \in @ : w.books[t] = "none"}]
             /\ UNCHANGED faults
          \/ /\ ~Fenced(w)
             /\ \E error \in {"capacity", "worker"} :
                  /\ IF error = "worker" THEN ~GroupAccepted(pub, w) /\ UNCHANGED faults
                     ELSE GroupAccepted(pub, w) /\ Spend(1)
                  /\ done' = IF w.kind = "checkpoint" THEN done ELSE Reported(w, error)
             /\ actor' = idle(actor)
             /\ UNCHANGED <<control, pub, job, probe, due>>
    /\ UNCHANGED <<router, queue, owner, enabled>>

----------------------------------------------------------------------------
Init ==
    /\ control = [gen |-> 0, attempts |-> Nothing, baseline |-> FALSE, pending |-> Nothing]
    /\ router = Nothing
    /\ actor = [gen |-> 0, wait |-> Tokens, rec |-> Nothing, book |-> NoBooks, open |-> TRUE,
                work |-> NoWork]
    /\ queue = <<>> /\ done = <<>>
    /\ pub = [accepting |-> TRUE, rec |-> Nothing, book |-> NoBooks, seed |-> {}, snap |-> {},
              fenced |-> FALSE, terminal |-> FALSE]
    /\ job = NoJob /\ probe = "none" /\ due = Owed(Tokens)
    /\ owner = "loop" /\ enabled = TRUE /\ faults = MaxFaults

Next ==
    \/ \E T \in Covers : ReceiveDelta(T) \/ ReceiveInvalid(T)
    \/ ReceiveGap
    \/ \E t \in Tokens : ReceiveBook(t)
    \/ SocketFailed \/ SubmitCheckpoint \/ Publish \/ RetryTick
    \/ JobAnswered \/ JobFailed \/ AskConfirmation \/ ConfirmationAnswered
    \/ PauseSource \/ PauseAll \/ AcquireLease
    \/ TerminalPublished \/ RemoveMarket
    \/ ActorReduces \/ ActorPanics \/ ActorPublishes

\* The actor, the owner loop and its timer run whenever they can; the socket sends
\* the snapshots a subscription owes, and a recovery socket answers in the end.
Fairness ==
    /\ WF_vars(ActorReduces) /\ WF_vars(ActorPublishes)
    /\ WF_vars(Publish) /\ WF_vars(RetryTick) /\ SF_vars(JobAnswered)
    /\ SF_vars(ConfirmationAnswered) /\ WF_vars(PauseAll) /\ WF_vars(RemoveMarket)
    /\ \A t \in Tokens : SF_vars(t \in due.owed /\ ReceiveBook(t))

Spec == Init /\ [][Next]_vars
FairSpec == Spec /\ Fairness

----------------------------------------------------------------------------
\* After a recovery_started event of a token, no reader is served a book of that token
\* that was received before it: neither one queued in the actor, nor one reduced and not
\* yet published when the owner published the barrier, nor the answer of an earlier
\* recovery job.
ReadableIsAfterBarrier ==
    \A t \in Tokens : Readable(pub, t) => pub.book[t] # "old"

\* When no input is queued or being reduced and no completion is on its way, the
\* owner's router, the control record and the reducer hold the same recovery attempts:
\* a lost or reordered completion would leave the owner recovering with an id that
\* nobody accepts.
Settled == /\ owner = "loop" /\ actor.open /\ actor.work = NoWork
           /\ queue = <<>> /\ done = <<>>
MirrorsAgree ==
    Settled => /\ router = control.attempts
               /\ actor.gen = control.gen => actor.rec = control.attempts
\* The token knows what restores it: the owner's retry tick opens a job for it, or the
\* socket still owes its subscription snapshot.
Restorable(t) == router[t] # None \/ t \in due.owed

\* A token that no reader is served, while nothing is under way for it, is one the
\* owner knows to recover or whose subscription snapshot the socket still owes, or one
\* whose snapshot the owner dropped as "already unavailable"; for a capacity-fenced
\* market one such token is enough, its snapshots lift the fence together.
NoStrandedRecovery ==
    Settled /\ enabled => \A t \in Tokens : Readable(pub, t)
        \/ \E u \in IF pub.fenced THEN Tokens ELSE {t} : Restorable(u) \/ u \in due.refused

\* While the source stays leased and the reducer catches up again and again, every token
\* becomes readable again and again: no sequence of barriers, refused publications and
\* late answers leaves it unavailable for ever.
UnavailableRecovers ==
    \A t \in Tokens : <>[]Running /\ []<>(queue = <<>>) => []<>Readable(pub, t)

=============================================================================
