--------------------------- MODULE PolymarketLive ---------------------------
(***************************************************************************)
(* The live Polymarket service: the single owner that applies frames,      *)
(* checkpoints and switches universe generations, the files it writes      *)
(* (PolymarketStore), and the WebSocket clients that read the runtime, the  *)
(* published projection and the broadcast channel at their own pace.       *)
(* Crashes fall between any two writes of a file.                          *)
(***************************************************************************)
EXTENDS PolymarketStore, SequenceFilter, FiniteSets

CONSTANTS Generations,      \* 1..n: universe generations, activated in order
          CatalogOf,        \* the catalog revision of each generation
          Kinds,            \* kinds of frames that the transport delivers
          Faults,           \* I/O failures that may happen: "append", "audit"
          Clients,
          RecentCapacity,   \* recent_event_capacity
          StreamCapacity,   \* broadcast channel
          MaxCursor, MaxBoots

ASSUME LiveAssumption ==
    /\ Generations \subseteq Nat /\ 1 \in Generations
    /\ CatalogOf \in [Generations -> Nat \ {0}]
    /\ RecentCapacity \in Nat \ {0} /\ StreamCapacity \in Nat \ {0}

VARIABLES
    root,        \* the files of each generation
    pointer,     \* active-scope.json: the generation a restart opens
    boots, up,   \* processes started; one runs now
    runtime,     \* AppState.runtime: generation, projection, recent events, manifest
    candidate,   \* the runtime prepared for the next generation, or None
    published,   \* AppState.projection
    active,      \* AppState.active_polymarket_scope
    owner,       \* where the live owner is
    dirty,       \* events_since_checkpoint > 0
    outbox,      \* outcomes applied and not yet sent on the channel
    switches,    \* the scope switch channel
    client

vars == <<root, pointer, boots, up, runtime, candidate, published, active, owner, dirty,
          outbox, switches, client>>
disk == <<root, pointer>>
process == <<boots, up>>
memory == <<runtime, candidate, published, active, owner, dirty, outbox, switches>>

Recent(recs) ==
    IF Len(recs) <= RecentCapacity THEN recs
    ELSE SubSeq(recs, Len(recs) - RecentCapacity + 1, Len(recs))

\* polymarket_projection_ready of projection p under the active generation g.
Ready(p, g) == p.catalog = CatalogOf[g] /\ p.books /\ ~p.gap /\ ~p.stale

\* Mutant: a change of the catalog is streamed like any other record.
NeedsResyncFaults(rec) == rec.kind = "late"

\* Records that end a stream: catalogs, and faults of no known market.
NeedsResync(rec) == rec.kind \in {"catalog", "late"}

Record(kind, cursor, g) == [kind |-> kind, cursor |-> cursor, catalog |-> CatalogOf[g], gen |-> g]

---------------------------------------------------------------------------
(* Writing the files *)

\* Bring generation g's root to its catalog and books: one append per frame,
\* then a checkpoint, unless the projection matches already.
SeedWrites(r, p, g, manifest) ==
    LET matches == p.catalog = CatalogOf[g] /\ p.books
        kinds == CASE matches -> <<>>
                   [] p.catalog # CatalogOf[g] -> <<"catalog", "book">>
                   [] OTHER -> <<"book">>
        recs == [i \in DOMAIN kinds |-> Record(kinds[i], p.cursor + i, g)]
        one == AppendOutcomes(r, <<recs[1]>>)
        appended == IF Len(recs) = 1 THEN <<one>> ELSE <<one, AppendOutcomes(one, <<recs[2]>>)>>
        q == Replay(p, recs, boots)
        check == CheckpointWrites(Last(appended), q, manifest)
    IN  IF matches
        THEN [writes |-> <<r>>, ok |-> TRUE, proj |-> p, recs |-> <<>>, manifest |-> manifest]
        ELSE [writes |-> appended \o check.writes, ok |-> check.ok, proj |-> q, recs |-> recs,
              manifest |-> Last(check.writes).manifest]

\* A sequence of writes of one generation, as states of all files.
In(roots, g, writes) == [i \in DOMAIN writes |-> [roots EXCEPT ![g] = writes[i]]]

\* prepare_polymarket_scope_candidate: clear the candidate's directory,
\* checkpoint the active generation, fork it, seed the catalog and the books
\* and checkpoint the candidate.  The files after each write, and the outcome.
Prepare(g) ==
    LET cleared == [root EXCEPT ![g] = EmptyRoot]
        own == CheckpointWrites(cleared[runtime.gen], runtime.proj, runtime.manifest)
        first == <<cleared>> \o In(cleared, runtime.gen, own.writes)
        parent == Last(own.writes).manifest
        fork == In(Last(first), g, ForkWrites(runtime.proj, parent))
        forked == Last(fork)[g]
        seed == SeedWrites(forked, Prune(runtime.proj), g, forked.manifest)
        seeded == In(Last(fork), g, seed.writes)
        final == CheckpointWrites(Last(seed.writes), seed.proj, seed.manifest)
        last == In(Last(seeded), g, final.writes)
        prepared == [gen |-> g, proj |-> seed.proj, manifest |-> Last(final.writes).manifest,
                     recent |-> Recent(runtime.recent \o seed.recs)]
    IN  CASE ~own.ok -> [writes |-> first, runtime |-> None, manifest |-> runtime.manifest]
          [] own.ok /\ ~seed.ok -> [writes |-> first \o fork \o seeded, runtime |-> None,
                                    manifest |-> parent]
          [] OTHER -> [writes |-> first \o fork \o seeded \o last, manifest |-> parent,
                       runtime |-> IF final.ok THEN prepared ELSE None]

\* runtime.checkpoint of the running generation.
CheckpointRuntime(ok) ==
    LET check == CheckpointWrites(root[runtime.gen], runtime.proj, runtime.manifest) IN
    /\ ok = check.ok
    /\ root' = [root EXCEPT ![runtime.gen] = Last(check.writes)]
    /\ runtime' = IF ok THEN [runtime EXCEPT !.manifest = Last(check.writes).manifest]
                  ELSE runtime
    /\ published' = IF ok THEN runtime.proj ELSE published

---------------------------------------------------------------------------
(* Clients' ends of the broadcast channel *)

\* The channel keeps the last records; a receiver that has not read the others lags.
Push(c, recs) ==
    LET queue == c.queue \o recs
        over == Len(queue) - StreamCapacity
    IN  IF over > 0 THEN [c EXCEPT !.queue = SubSeq(queue, over + 1, Len(queue)), !.lagged = TRUE]
                    ELSE [c EXCEPT !.queue = queue]

Send(recs) ==
    client' = [c \in Clients |-> IF client[c].phase = "away" THEN client[c]
                                 ELSE Push(client[c], recs)]

\* A client that is not connected; it resumes after cursor resume (None: it
\* takes a full sync first) holding generation gen.
Away(resume, gen) ==
    [phase |-> "away", resume |-> resume, gen |-> gen, seen |-> gen, universe |-> 0, last |-> 0,
     boundary |-> 0, records |-> <<>>, view |-> None, queue |-> <<>>, lagged |-> FALSE]

\* Told to take a full sync; lost its connection.
Resynced == Away(None, 0)
Dropped(c) == IF c.phase = "streaming" \/ c.phase = "replaying" THEN Away(c.last, c.gen)
              ELSE Away(c.resume, c.gen)

---------------------------------------------------------------------------
(* The process *)

Init ==
    /\ root = [g \in Generations |-> EmptyRoot]
    /\ pointer = 1 /\ boots = 0 /\ up = FALSE
    /\ runtime = [gen |-> 1, proj |-> Bootstrap(0), recent |-> <<>>, manifest |-> None]
    /\ candidate = None /\ published = Bootstrap(0) /\ active = 1
    /\ owner = "stopped" /\ dirty = FALSE /\ outbox = <<>> /\ switches = <<>>
    /\ client = [c \in Clients |-> Resynced]

\* serve: open the generation that active-scope.json names, recover it and
\* seed it, or refuse to start.
Open ==
    LET g == pointer
        p == RecoverProjection(root[g], boots)
        seed == SeedWrites(root[g], p, g, root[g].manifest)
    IN
    /\ ~up /\ owner = "starting"
    /\ owner' = IF p # None /\ seed.ok THEN "serving" ELSE "refused"
    /\ up' = (p # None /\ seed.ok)
    /\ IF p = None THEN UNCHANGED <<root, runtime, published, active, dirty>>
       ELSE /\ root' = [root EXCEPT ![g] = Last(seed.writes)]
            /\ runtime' = [gen |-> g, proj |-> seed.proj, manifest |-> seed.manifest,
                           recent |-> Recent(RecordsOf(Last(seed.writes).wal))]
            /\ published' = seed.proj /\ active' = g /\ dirty' = FALSE
    /\ UNCHANGED <<pointer, boots, candidate, outbox, switches, client>>

Start ==
    /\ ~up /\ boots < MaxBoots /\ owner # "starting"
    /\ boots' = boots + 1 /\ owner' = "starting"
    /\ candidate' = None /\ outbox' = <<>> /\ switches' = <<>>
    /\ UNCHANGED <<root, pointer, up, runtime, published, active, dirty, client>>

\* The process dies; its memory and its connections are gone.  runtime keeps
\* the last durable projection, which the properties compare with recovery.
Die ==
    /\ up' = FALSE
    /\ owner' = "stopped"
    /\ client' = [c \in Clients |-> Dropped(client[c])]
    /\ UNCHANGED <<pointer, boots, candidate, published, active, dirty, outbox, switches>>

Crash == up /\ Die /\ UNCHANGED <<root, runtime>>

\* Between the writes of a checkpoint.
CrashInCheckpoint ==
    LET check == CheckpointWrites(root[runtime.gen], runtime.proj, runtime.manifest) IN
    /\ up
    /\ \E files \in Range(check.writes) : root' = [root EXCEPT ![runtime.gen] = files]
    /\ Die /\ UNCHANGED runtime

\* Between the writes of a candidate's preparation.
CrashInPrepare ==
    /\ up /\ owner \in {"serving", "waiting"} /\ switches # <<>>
    /\ Head(switches) = active + 1 /\ Head(switches) \in Generations
    /\ root' \in Range(Prepare(Head(switches)).writes)
    /\ Die /\ UNCHANGED runtime

\* Between the writes of the seed; what was appended is durable.
CrashInOpen ==
    LET g == pointer
        p == RecoverProjection(root[g], boots)
        seed == SeedWrites(root[g], p, g, root[g].manifest)
    IN
    /\ ~up /\ owner = "starting" /\ p # None
    /\ \E i \in DOMAIN seed.writes :
         /\ root' = [root EXCEPT ![g] = seed.writes[i]]
         /\ runtime' = [runtime EXCEPT !.gen = g, !.proj = Replay(p, SubSeq(seed.recs, 1,
                          IF i < Len(seed.recs) THEN i ELSE Len(seed.recs)), boots)]
    /\ Die

\* A stop signal: the owner checkpoints and ends, then the server.
Shutdown ==
    /\ up /\ owner \in {"serving", "waiting", "stopped"} /\ outbox = <<>>
    /\ IF owner = "serving" THEN \E ok \in BOOLEAN : CheckpointRuntime(ok)
                            ELSE UNCHANGED <<root, runtime, published>>
    /\ up' = FALSE /\ owner' = "stopped"
    /\ client' = [c \in Clients |-> Dropped(client[c])]
    /\ UNCHANGED <<pointer, boots, candidate, active, dirty, outbox, switches>>

---------------------------------------------------------------------------
(* The live owner *)

\* PolymarketRuntime::apply_raw: under the runtime lock the record is appended
\* and applied, and the projection stored; the channel comes after.
ApplyRaw(kind) ==
    LET rec == Record(kind, runtime.proj.cursor + 1, runtime.gen)
        p == Evaluate(runtime.proj, rec, boots)
    IN
    /\ up /\ owner = "serving" /\ outbox = <<>> /\ runtime.proj.cursor < MaxCursor
    /\ root' = [root EXCEPT ![runtime.gen] = AppendOutcomes(@, <<rec>>)]
    /\ runtime' = [runtime EXCEPT !.proj = p, !.recent = Recent(Append(@, rec))]
    /\ published' = p
    /\ outbox' = <<rec>> /\ dirty' = TRUE
    /\ UNCHANGED <<pointer, process, candidate, active, owner, switches, client>>

ApplyFrames(kind) == ApplyRaw(kind)

\* apply_market_recovery_snapshot: both books of the market, one group.
RecoverySnapshot == ApplyRaw("book")

\* The append fails before a byte is written: the frame is dropped, the owner
\* checkpoints what it has and restarts the transport.
AppendFails ==
    /\ "append" \in Faults
    /\ up /\ owner = "serving" /\ outbox = <<>>
    /\ \E ok \in BOOLEAN : CheckpointRuntime(ok)
    /\ owner' = "waiting"
    /\ UNCHANGED <<pointer, process, candidate, active, dirty, outbox, switches, client>>

\* A record that no market explains makes the owner checkpoint and reconnect.
Publish ==
    LET recovery == \E i \in DOMAIN outbox : outbox[i].kind = "late" IN
    /\ up /\ outbox # <<>>
    /\ Send(outbox) /\ outbox' = <<>>
    /\ IF recovery THEN \E ok \in BOOLEAN : CheckpointRuntime(ok)
                   ELSE UNCHANGED <<root, runtime, published>>
    /\ owner' = IF recovery THEN "waiting" ELSE owner
    /\ UNCHANGED <<pointer, process, candidate, active, dirty, switches>>

\* The checkpoint interval; a failed checkpoint ends the owner.
CheckpointTick ==
    /\ up /\ owner = "serving" /\ outbox = <<>> /\ dirty
    /\ \E ok \in BOOLEAN :
         /\ CheckpointRuntime(ok)
         /\ owner' = IF ok THEN owner ELSE "stopped"
         /\ dirty' = ~ok
    /\ UNCHANGED <<pointer, process, candidate, active, outbox, switches, client>>

\* The transport ends: checkpoint, wait, reconnect.
TransportEnds ==
    /\ up /\ owner = "serving" /\ outbox = <<>>
    /\ \E ok \in BOOLEAN : CheckpointRuntime(ok)
    /\ owner' = "waiting"
    /\ UNCHANGED <<pointer, process, candidate, active, dirty, outbox, switches, client>>

Retry ==
    /\ up /\ owner = "waiting" /\ outbox = <<>>
    /\ owner' = "serving" /\ dirty' = FALSE
    /\ UNCHANGED <<disk, process, runtime, candidate, published, active, outbox, switches, client>>

\* The refresh validates the books over HTTP: a book that differs or is missing
\* quarantines its market, and a quarantined market takes both books.
RefreshQuarantines == runtime.proj.books /\ ~runtime.proj.gap /\ ApplyRaw("gap")
RefreshRecovers == runtime.proj.gap /\ RecoverySnapshot

\* An administrator's checkpoint takes the runtime lock at any time.
AdminCheckpoint ==
    /\ up
    /\ \E ok \in BOOLEAN : CheckpointRuntime(ok)
    /\ UNCHANGED <<pointer, process, candidate, active, owner, dirty, outbox, switches, client>>

---------------------------------------------------------------------------
(* Switching generations *)

\* admin_activate_polymarket_scope: one request may wait for the owner.
RequestSwitch(g) ==
    /\ up /\ g # active /\ switches = <<>> /\ owner # "stopped"
    /\ switches' = <<g>>
    /\ UNCHANGED <<disk, process, runtime, candidate, published, active, owner, dirty, outbox,
                   client>>

\* The owner validates the transition and prepares the candidate, or fails
\* and waits.
PrepareSwitch ==
    LET g == Head(switches)
        valid == g = active + 1
        prepared == Prepare(g)
    IN
    /\ up /\ owner \in {"serving", "waiting"} /\ outbox = <<>> /\ switches # <<>>
    /\ runtime.proj.cursor + 2 <= MaxCursor
    /\ switches' = Tail(switches)
    /\ IF valid
       THEN /\ root' = Last(prepared.writes)
            /\ candidate' = prepared.runtime
            /\ runtime' = [runtime EXCEPT !.manifest = prepared.manifest]
            /\ owner' = IF prepared.runtime = None THEN "waiting" ELSE "prepared"
       ELSE /\ owner' = "waiting"
            /\ UNCHANGED <<root, candidate, runtime>>
    /\ UNCHANGED <<pointer, process, published, active, dirty, outbox, client>>

\* Mutant: the switch is made in memory only.
CommitInMemory ==
    /\ up /\ owner = "prepared"
    /\ LET check == CheckpointWrites(root[runtime.gen], runtime.proj, runtime.manifest) IN
       /\ root' = [root EXCEPT ![runtime.gen] = Last(check.writes)]
       /\ owner' = IF check.ok THEN "swapped" ELSE "waiting"
       /\ runtime' = IF check.ok THEN candidate ELSE runtime
    /\ candidate' = None
    /\ UNCHANGED <<pointer, process, published, active, dirty, outbox, switches, client>>

\* commit_polymarket_scope_switch: checkpoint the old generation, name the new
\* one in active-scope.json, audit it, and swap the writer under its lock.
CommitSwitch ==
    /\ up /\ owner = "prepared"
    /\ LET check == CheckpointWrites(root[runtime.gen], runtime.proj, runtime.manifest) IN
       \E audit \in {TRUE} \cup (IF "audit" \in Faults THEN {FALSE} ELSE {}) :
         /\ root' = [root EXCEPT ![runtime.gen] = Last(check.writes)]
         /\ pointer' = IF check.ok THEN candidate.gen ELSE pointer
         /\ owner' = IF check.ok /\ audit THEN "swapped" ELSE "waiting"
         /\ runtime' = CASE check.ok /\ audit -> candidate
                         [] check.ok /\ ~audit ->
                              [runtime EXCEPT !.manifest = Last(check.writes).manifest]
                         [] OTHER -> runtime
    /\ candidate' = None
    /\ UNCHANGED <<process, published, active, dirty, outbox, switches, client>>

\* Then the projection, the active scope and the catalog events, in this
\* order and visible one by one.
StoreProjection ==
    /\ up /\ owner = "swapped"
    /\ published' = runtime.proj /\ owner' = "stored"
    /\ UNCHANGED <<disk, process, runtime, candidate, active, dirty, outbox, switches, client>>

StoreScope ==
    /\ up /\ owner = "stored"
    /\ active' = runtime.gen /\ owner' = "activated"
    /\ UNCHANGED <<disk, process, runtime, candidate, published, dirty, outbox, switches, client>>

\* Mutant: the catalog events of the new generation are not sent.
SendNothing ==
    /\ up /\ owner = "activated"
    /\ owner' = "serving" /\ dirty' = FALSE
    /\ UNCHANGED <<disk, process, runtime, candidate, published, active, outbox, switches, client>>

SendCatalog ==
    /\ up /\ owner = "activated"
    /\ LET catalogs == {rec \in Range(runtime.recent) : rec.kind = "catalog"
                                                        /\ rec.gen = runtime.gen}
       IN  Send(Kept(runtime.recent, catalogs))
    /\ owner' = "serving" /\ dirty' = FALSE
    /\ UNCHANGED <<disk, process, runtime, candidate, published, active, outbox, switches>>

---------------------------------------------------------------------------
(* The clients of the stream *)

Streams(c, next) == client' = [client EXCEPT ![c] = next] /\ UNCHANGED <<disk, process, memory>>

\* market_data_stream: ready now, then subscribe to the channel.
Subscribe(c) ==
    /\ up /\ client[c].phase = "away" /\ Ready(published, active)
    /\ Streams(c, [client[c] EXCEPT !.phase = "subscribed"])

\* The projection and its replay window, captured under the runtime lock.
Capture(c) ==
    /\ up /\ client[c].phase = "subscribed"
    /\ Streams(c, IF Ready(runtime.proj, active)
                  THEN [client[c] EXCEPT !.phase = "captured", !.boundary = runtime.proj.cursor,
                          !.records = runtime.recent,
                          !.gen = IF client[c].resume = None THEN runtime.gen ELSE @,
                          !.seen = IF client[c].resume = None THEN runtime.gen ELSE @]
                  ELSE Away(client[c].resume, client[c].gen))

\* partition_point: how many records, in the order of their cursors, end at n.
UpTo(recs, n) == Cardinality({i \in DOMAIN recs : recs[i].cursor <= n})

\* The records after resume up to boundary, if they are all there.
Window(recs, resume, boundary) == SubSeq(recs, UpTo(recs, resume) + 1, UpTo(recs, boundary))
Complete(recs, resume, boundary) ==
    LET window == Window(recs, resume, boundary) IN
    /\ resume <= boundary
    /\ \A i \in 1..Len(recs) - 1 : recs[i].cursor < recs[i + 1].cursor
    /\ \A i \in DOMAIN window : window[i].cursor = resume + i
    /\ Len(window) = boundary - resume

\* Deliver records in turn; one that needs a full sync ends the stream.
Deliver(s, recs) ==
    IF \E i \in DOMAIN recs : NeedsResync(recs[i]) THEN Resynced
    ELSE [s EXCEPT !.last = IF recs = <<>> THEN @ ELSE Last(recs).cursor,
                   !.seen = IF recs = <<>> THEN @ ELSE Last(recs).gen]

\* The upgraded socket reads the universe now, and replays from resume.
Begin(c) ==
    LET s == client[c]
        begun == [s EXCEPT !.phase = "streaming", !.universe = active, !.records = <<>>,
                           !.boundary = 0, !.resume = None,
                           !.last = IF s.resume = None THEN s.boundary ELSE s.resume]
        window == Window(s.records, s.resume, s.boundary)
    IN
    /\ up /\ s.phase = "captured"
    /\ Streams(c, CASE s.resume = None -> begun
                    [] s.resume # None /\ Complete(s.records, s.resume, s.boundary) ->
                         Deliver(begun, window)
                    [] OTHER -> Resynced)

\* The next record of the channel: old ones are skipped, a new universe ends
\* the stream, the next cursor is delivered, a later one is replayed.
Receive(c) ==
    LET s == client[c]
        rec == Head(s.queue)
        rest == [s EXCEPT !.queue = Tail(s.queue)]
        delivered == Deliver(rest, <<rec>>)
    IN
    /\ up /\ s.phase = "streaming" /\ s.queue # <<>> /\ ~s.lagged
    /\ Streams(c, CASE rec.cursor <= s.last -> rest
                    [] rec.cursor > s.last /\ s.universe # active -> Resynced
                    [] rec.cursor = s.last + 1 /\ s.universe = active ->
                         IF Ready(published, active) THEN delivered ELSE Resynced
                    [] OTHER -> [rest EXCEPT !.phase = "replaying", !.boundary = rec.cursor,
                                             !.view = published])

\* The channel overwrote unread records: replay up to the projection.
Lagged(c) ==
    /\ up /\ client[c].phase = "streaming" /\ client[c].lagged
    /\ Streams(c, [client[c] EXCEPT !.lagged = FALSE, !.phase = "replaying",
                                    !.boundary = published.cursor, !.view = published])

\* The replay reads the runtime when its lock is free; whether the stream goes
\* on is decided by the projection loaded before.
ReplayWindow(c) ==
    LET s == client[c]
        complete == /\ runtime.proj.cursor >= s.boundary
                    /\ Complete(runtime.recent, s.last, s.boundary)
        streaming == [s EXCEPT !.phase = "streaming", !.boundary = 0, !.view = None]
    IN
    /\ up /\ s.phase = "replaying"
    /\ Streams(c, IF complete /\ Ready(s.view, active)
                  THEN Deliver(streaming, Window(runtime.recent, s.last, s.boundary))
                  ELSE Resynced)

\* Once a second: a new universe, or a projection that is not ready.
FreshnessCheck(c) ==
    /\ up /\ client[c].phase = "streaming"
    /\ client[c].universe # active \/ ~Ready(published, active)
    /\ Streams(c, Resynced)

Disconnect(c) ==
    /\ client[c].phase # "away"
    /\ Streams(c, Dropped(client[c]))

---------------------------------------------------------------------------
ClientStep(c) ==
    \/ Subscribe(c) \/ Capture(c) \/ Begin(c) \/ Receive(c) \/ Lagged(c) \/ ReplayWindow(c)
    \/ FreshnessCheck(c) \/ Disconnect(c)

OwnerStep ==
    \/ \E kind \in Kinds : ApplyFrames(kind)
    \/ AppendFails \/ Publish \/ CheckpointTick \/ TransportEnds \/ Retry
    \/ RefreshQuarantines \/ RefreshRecovers
    \/ PrepareSwitch \/ CommitSwitch \/ StoreProjection \/ StoreScope \/ SendCatalog

Next ==
    \/ Start \/ Open \/ Shutdown
    \/ Crash \/ CrashInOpen \/ CrashInCheckpoint \/ CrashInPrepare
    \/ OwnerStep
    \/ AdminCheckpoint
    \/ \E g \in Generations : RequestSwitch(g)
    \/ \E c \in Clients : ClientStep(c)

Spec == Init /\ [][Next]_vars

\* The tasks of a running process are scheduled: the owner finishes a switch
\* it has committed and sends what it applied, and a client's task reads its
\* channel and its one-second timer.
FairSpec ==
    /\ Spec
    /\ WF_vars(Publish) /\ WF_vars(StoreProjection) /\ WF_vars(StoreScope) /\ WF_vars(SendCatalog)
    /\ \A c \in Clients : WF_vars(\/ Capture(c) \/ Begin(c) \/ Receive(c) \/ Lagged(c)
                                  \/ ReplayWindow(c) \/ FreshnessCheck(c))

---------------------------------------------------------------------------
(* Properties *)

Committed(p) == [p EXCEPT !.boot = 0, !.stale = FALSE]

\* Wherever the process dies - between the writes of a checkpoint, of a
\* preparation or of a switch - the generation that active-scope.json names
\* reopens with exactly the last projection that was durable.
RestartLosesNothing ==
    ~up =>
        LET p == RecoverProjection(root[pointer], 0) IN
        /\ p # None
        /\ Committed(p) = Committed(runtime.proj)

\* A stream never carries a record of another universe generation than the one
\* whose state the client holds: the switch ends it first, however the client's
\* reads of the runtime, the projection, the active scope and the channel fall
\* between the owner's.
GenerationsNotMixed ==
    \A c \in Clients : client[c].seen = client[c].gen

\* A client that holds an older generation than the active one is told to take
\* a full sync (or is gone): no subscription survives a switch unnoticed.
SwitchReachesClients ==
    \A c \in Clients :
        (client[c].phase \in {"captured", "streaming"} /\ client[c].gen < active /\ up)
            ~> (client[c].phase \notin {"captured", "streaming"} \/ ~up)

=============================================================================
