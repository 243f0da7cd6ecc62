------------------------ MODULE SubscriptionRotation ------------------------
(***************************************************************************)
(* The upstream connection of one market: run_rotating_connection with its *)
(* hot standby, the retry loop around it (run_transport_attempts,          *)
(* supervise_polymarket_transport_managed), the bounded FIFO to the market *)
(* owner with its edge-triggered notification, and the owner's Shard       *)
(* record, which changes the subscribed pair by command and receipt.       *)
(*                                                                         *)
(* Each socket has a reader task (SocketPump) of its own.  Only the active *)
(* socket publishes; a standby is seeded with a complete baseline and      *)
(* buffers what follows it; a third socket may be seeded to replace it.    *)
(* When the active socket lags for long enough, the standby's buffer is    *)
(* offered to the owner as one checkpoint, and the standby becomes active  *)
(* once the owner has committed it.                                        *)
(*                                                                         *)
(* The venue is a counter of updates.  A socket sends, in its own time, a  *)
(* book of every subscribed token and every later update.  Ages and        *)
(* elapsed times are choices, made where the code compares them.           *)
(***************************************************************************)
EXTENDS Naturals, Sequences, FiniteSets

CONSTANTS
    Pairs,        \* the token pairs a shard may own, one after the other; disjoint.  The
                  \* market of a pair that was replaced is over: it never comes back
    Initial,      \* the one it is created with
    MaxVersion,   \* bound on the updates of the venue
    IngressCap,   \* SOCKET_INGRESS_MESSAGES
    BufferCap,    \* frames a standby may buffer (STANDBY_BYTES)
    OutCap,       \* slots of the market's FIFO
    MaxFaults     \* bound on failing sockets, connects, sends, tasks and refused checkpoints

ASSUME RotationAssumption ==
    /\ Initial \in Pairs /\ \A P \in Pairs : P \subseteq Nat /\ IsFiniteSet(P) /\ P # {}
    /\ \A P, Q \in Pairs : P = Q \/ P \cap Q = {}
    /\ \A n \in {IngressCap, BufferCap, OutCap} : n \in Nat \ {0}
    /\ \A n \in {MaxVersion, MaxFaults} : n \in Nat

VARIABLES
    venue,   \* updates the venue has made
    sock,    \* the sockets by role: active, ready, prep, and the candidate of a switch
    tr,      \* the transport task: where it is, tokens, the frame in its hands, ghost epoch
    rot,     \* Rotation: "low", "high" while the switch dwell runs, "confirmed"
    out,     \* the market's FIFO to the owner
    bell,    \* TransportReadyHandle: queued, the id in the ready channel, a signal that is due
    owner,   \* the owner: where it is in take_ready, its books; ghost: the socket they follow
    shard,   \* Shard: tokens, retirement_target, whether a receipt is pending
    command, \* the subscription command channel, of one slot
    reply,   \* the receipt of a command
    receipt, \* the handoff receipt
    left     \* faults left, and the pairs that the shard has not had yet

vars == <<venue, sock, tr, rot, out, bell, owner, shard, command, reply, receipt, left>>

----------------------------------------------------------------------------
(* Frames and sockets.                                                     *)

Tokens == UNION Pairs
Roles == {"active", "ready", "prep", "candidate"}
NoFrame == [kind |-> "none", toks |-> {}, ver |-> 0]
NoCommand == [expected |-> {}, target |-> {}]

\* Versions start at 1; 0 is the book that the owner does not have.
Unknown == [t \in Tokens |-> 0]

\* What the venue may send next on a socket: the books in the order of the subscription
\* (a sorted set; nothing tells its tokens apart), and the next update at any time.
First(S) == {t \in S : \A u \in S : t <= u}
VenueFrames(s) ==
    {[kind |-> "book", toks |-> {t}, ver |-> s.ver] : t \in First(s.owed)}
    \cup {[kind |-> "delta", toks |-> s.sub, ver |-> v] : v \in {s.ver + 1} \cap (1..venue)}

Sent(s, f) == IF f.kind = "book" THEN [s EXCEPT !.owed = @ \ f.toks]
                                 ELSE [s EXCEPT !.ver = f.ver]

\* phase: "seeding" while prepare_standby reads it, "pumped" with a SocketPump.
NoSocket == [phase |-> "none", sub |-> {}, owed |-> {}, ver |-> 0, alive |-> FALSE,
             queue |-> <<>>, books |-> {}, view |-> Unknown, size |-> 0]
NoSockets == [r \in Roles |-> NoSocket]
NewSocket(phase) == [NoSocket EXCEPT !.phase = phase, !.sub = tr.tokens, !.owed = tr.tokens,
                                     !.ver = venue, !.alive = TRUE]

\* Reducing a frame: a book sets a token, an update advances the tokens that have one.
Reduced(view, f) ==
    [t \in Tokens |-> IF t \in f.toks /\ (f.kind = "book" \/ view[t] # 0) THEN f.ver ELSE view[t]]
OutOfOrder(view, f) ==
    f.kind = "delta" /\ \E t \in f.toks : view[t] # 0 /\ f.ver # view[t] + 1

\* subscription::owned_or_unclassified: frames of tokens that left the subscription
\* are dropped.
Owned(f) == f.toks \cap tr.tokens # {}

Faulty == left.faults > 0 /\ left' = [left EXCEPT !.faults = @ - 1]

----------------------------------------------------------------------------
(* Readers: SocketPump::start.  A socket that is being seeded is read by   *)
(* prepare_standby itself.                                                 *)

VenueUpdates ==
    /\ venue < MaxVersion /\ venue' = venue + 1
    /\ UNCHANGED <<sock, tr, rot, out, bell, owner, shard, command, reply, receipt, left>>

\* The reader hands a frame to its bounded queue.
Queued(s, f) == [s EXCEPT !.queue = Append(@, f)]
\* Mutant: a frame that finds no room is skipped.
SkipFrame(s, f) == Sent(s, f)
\* A frame that finds no room ends the reader: the prefix is broken.
Overflow(s, f) == [s EXCEPT !.alive = FALSE]

Receive(r) ==
    /\ sock[r].phase = "pumped" /\ sock[r].alive
    /\ \E f \in VenueFrames(sock[r]) :
        \/ /\ Len(sock[r].queue) < IngressCap
           /\ sock' = [sock EXCEPT ![r] = Queued(Sent(@, f), f)]
           /\ UNCHANGED left
        \/ /\ Len(sock[r].queue) >= IngressCap /\ Faulty
           /\ sock' = [sock EXCEPT ![r] = Overflow(@, f)]
    /\ UNCHANGED <<venue, tr, rot, out, bell, owner, shard, command, reply, receipt>>

\* Closed by the venue, unreadable, or a write failed.
SocketEnds(r) ==
    /\ sock[r].phase = "pumped" /\ sock[r].alive /\ Faulty
    /\ sock' = [sock EXCEPT ![r].alive = FALSE]
    /\ UNCHANGED <<venue, tr, rot, out, bell, owner, shard, command, reply, receipt>>

----------------------------------------------------------------------------
(* A standby: prepare_standby, Standby::retain, fresh, switchable.         *)

Retained(s, f) ==
    [s EXCEPT !.books = IF f.kind = "book" THEN @ \cup f.toks ELSE @,
              !.view = Reduced(@, f), !.size = @ + 1]

\* An update before the complete baseline cannot be replayed; the buffer is bounded.
Retains(s, f) == s.size < BufferCap /\ (f.kind = "book" \/ s.books = s.sub)

Seeded(s) == s.books = s.sub

\* One message of the seeding loop.
Seed ==
    /\ sock.prep.phase = "seeding"
    /\ \E f \in VenueFrames(sock.prep) :
        LET s == Sent(Retained(sock.prep, f), f)
        IN sock' = [sock EXCEPT !.prep =
                IF ~Retains(sock.prep, f) THEN [NoSocket EXCEPT !.phase = "failed"]
                ELSE IF Seeded(s) THEN [s EXCEPT !.phase = "pumped"] ELSE s]
    /\ UNCHANGED <<venue, tr, rot, out, bell, owner, shard, command, reply, receipt, left>>

\* Connect error, deadline, read error.
SeedFails ==
    /\ sock.prep.phase = "seeding" /\ Faulty
    /\ sock' = [sock EXCEPT !.prep = [NoSocket EXCEPT !.phase = "failed"]]
    /\ UNCHANGED <<venue, tr, rot, out, bell, owner, shard, command, reply, receipt>>

\* Standby::fresh and switchable, without the quote clocks.
MayBeFresh(s) == s.alive /\ s.books = tr.tokens
MayBeSwitchable(s) == MayBeFresh(s) /\ s.queue = <<>>

----------------------------------------------------------------------------
(* The transport task.                                                     *)

\* The task is at pc and does not owe the signal of a batch that it has just sent.
At(pc) == tr.pc = pc /\ ~bell.due

\* Rotation::observe of one more age of the active socket.  The switch dwell starts at
\* the switch age, is over at the earliest at the second observation of such an age,
\* and is cancelled by a lower one.  The preparation threshold only decides when a
\* standby is seeded, which After leaves open.
Observed(r) ==
    {"low"} \cup (IF r = "low" THEN {"high"} ELSE IF r = "high" THEN {"high", "confirmed"}
                  ELSE {"confirmed"})

\* The rest of a loop round after one of its arms: the threshold, then a switch, a new
\* standby or nothing.  Quote clocks, tenure, the second between two seedings and the
\* size of a checkpoint in bytes are choices.
After(s, observed) ==
    \E r \in observed :
        /\ rot' = r
        /\ \/ /\ sock' = s /\ tr' = [tr EXCEPT !.pc = "select", !.held = NoFrame]
           \/ /\ s.prep.phase = "none"
              /\ sock' = [s EXCEPT !.prep = NewSocket("seeding")]
              /\ tr' = [tr EXCEPT !.pc = "select", !.held = NoFrame]
           \/ /\ r = "confirmed" /\ MayBeSwitchable(s.ready)
              /\ sock' = [s EXCEPT !.candidate = s.ready, !.ready = NoSocket]
              /\ tr' = [tr EXCEPT !.pc = "offer", !.held = NoFrame]
           \/ /\ r = "confirmed" /\ MayBeSwitchable(s.ready)     \* over the checkpoint budget
              /\ sock' = [s EXCEPT !.ready = NoSocket]
              /\ tr' = [tr EXCEPT !.pc = "select", !.held = NoFrame]

\* The future returns; its sockets are dropped.
End(tokens) == /\ tr' = [tr EXCEPT !.pc = "gap", !.held = NoFrame, !.tokens = tokens]
               /\ sock' = NoSockets

\* Start of run_rotating_connection: the first standby is seeded at once.
Connect ==
    /\ At("connect") /\ tr' = [tr EXCEPT !.pc = "select", !.epoch = 1 - @]
    /\ rot' = "low"
    /\ sock' = [NoSockets EXCEPT !.active = NewSocket("pumped"), !.prep = NewSocket("seeding")]
    /\ UNCHANGED <<venue, out, bell, owner, shard, command, reply, receipt, left>>

ConnectFails ==
    /\ At("connect") /\ Faulty /\ End(tr.tokens)
    /\ UNCHANGED <<venue, rot, out, bell, owner, shard, command, reply, receipt>>

NoBell == [queued |-> FALSE, note |-> FALSE, due |-> FALSE]

\* TransportReadyHandle::signal.
Rung(b) == IF b.queued THEN b ELSE [b EXCEPT !.queued = TRUE, !.note = TRUE]

\* send_bounded once the FIFO has a slot: the batch is sent, then signalled.
Push(f, epoch) ==
    /\ Len(out) < OutCap
    /\ out' = Append(out, [frame |-> f, source |-> tr.tokens, epoch |-> epoch])
    /\ bell' = [bell EXCEPT !.due = TRUE]

Signal ==
    /\ bell.due /\ bell' = [Rung(bell) EXCEPT !.due = FALSE]
    /\ UNCHANGED <<venue, sock, tr, rot, out, owner, shard, command, reply, receipt, left>>

\* The arm of the active socket: publish its frame, waiting for a slot if need be.
TakeActive ==
    /\ At("select") /\ sock.active.queue # <<>>
    /\ LET f == Head(sock.active.queue)
           s == [sock EXCEPT !.active.queue = Tail(@)]
       IN \/ /\ ~Owned(f) /\ sock' = s /\ UNCHANGED <<tr, rot, out, bell>>
          \/ /\ Owned(f) /\ Push(f, tr.epoch) /\ After(s, Observed(rot))
          \/ /\ Owned(f) /\ Len(out) = OutCap /\ sock' = s
             /\ tr' = [tr EXCEPT !.pc = "sending", !.held = f]
             /\ UNCHANGED <<rot, out, bell>>
    /\ UNCHANGED <<venue, owner, shard, command, reply, receipt, left>>

Publish ==
    /\ At("sending") /\ Push(tr.held, tr.epoch) /\ After(sock, Observed(rot))
    /\ UNCHANGED <<venue, owner, shard, command, reply, receipt, left>>

\* The reader has ended: seen while publishing, or once its queue is read.
ActiveEnds ==
    /\ ~sock.active.alive
    /\ \/ At("sending")
       \/ At("select") /\ sock.active.queue # <<>> /\ Owned(Head(sock.active.queue))
       \/ At("select") /\ sock.active.queue = <<>>
    /\ End(tr.tokens)
    /\ UNCHANGED <<venue, rot, out, bell, owner, shard, command, reply, receipt, left>>

ControlTick ==
    /\ At("select") /\ After(sock, {rot})
    /\ UNCHANGED <<venue, out, bell, owner, shard, command, reply, receipt, left>>

\* The arm of the seeding task: its standby is kept only when fresh.
Prepared ==
    /\ At("select") /\ sock.prep.phase \in {"pumped", "failed"}
    /\ LET s == [sock EXCEPT !.prep = NoSocket]
       IN \/ After(s, {rot})
          \/ MayBeFresh(sock.prep) /\ After([s EXCEPT !.ready = sock.prep], {rot})
    /\ UNCHANGED <<venue, out, bell, owner, shard, command, reply, receipt, left>>

\* The arm of the standby: buffer a frame, or discard the standby.
StandbyArm ==
    /\ At("select") /\ sock.ready.phase = "pumped"
    /\ \/ /\ sock.ready.queue # <<>>
          /\ LET f == Head(sock.ready.queue)
                 s == [sock.ready EXCEPT !.queue = Tail(@)]
             IN After([sock EXCEPT !.ready = IF ~Owned(f) THEN s
                          ELSE IF Retains(s, f) THEN Retained(s, f) ELSE NoSocket], {rot})
       \/ /\ sock.ready.queue = <<>> /\ ~sock.ready.alive
          /\ After([sock EXCEPT !.ready = NoSocket], {rot})
    /\ UNCHANGED <<venue, out, bell, owner, shard, command, reply, receipt, left>>

\* The standby's buffer as one frame, with a receipt.
Offer ==
    /\ At("offer") /\ tr' = [tr EXCEPT !.pc = "await"]
    /\ Push([kind |-> "checkpoint", toks |-> tr.tokens, view |-> sock.candidate.view],
            1 - tr.epoch)
    /\ UNCHANGED <<venue, sock, rot, owner, shard, command, reply, receipt, left>>

\* Mutant: when the committed standby has ended, the old connection goes on.
ResumeOld == /\ tr' = [tr EXCEPT !.pc = "select"]
             /\ sock' = [sock EXCEPT !.candidate = NoSocket] /\ UNCHANGED rot
\* The committed standby has ended: the connection is lost.
CandidateLost == End(tr.tokens) /\ UNCHANGED rot

Switch ==
    /\ At("await") /\ receipt # "none" /\ receipt' = "none"
    /\ \/ /\ receipt = "rejected" /\ UNCHANGED rot
          /\ tr' = [tr EXCEPT !.pc = "select"] /\ sock' = [sock EXCEPT !.candidate = NoSocket]
       \/ receipt = "committed" /\ ~sock.candidate.alive /\ CandidateLost
       \/ /\ receipt = "committed" /\ sock.candidate.alive
          /\ tr' = [tr EXCEPT !.pc = "select", !.epoch = 1 - @] /\ rot' = "low"
          /\ sock' = [NoSockets EXCEPT !.active =
                [sock.candidate EXCEPT !.books = {}, !.view = Unknown, !.size = 0]]
    /\ UNCHANGED <<venue, out, bell, owner, shard, command, reply, left>>

\* publish_connection_gaps, then backoff or cooldown and the next attempt.
PublishGap ==
    /\ At("gap") /\ Push([kind |-> "gap", toks |-> tr.tokens], tr.epoch)
    /\ tr' = [tr EXCEPT !.pc = "connect"]
    /\ UNCHANGED <<venue, sock, rot, owner, shard, command, reply, receipt, left>>

----------------------------------------------------------------------------
(* A membership command.  Standby and switch decision belong to the old    *)
(* membership and go first, also when the command is refused.              *)

\* subscription::diff.
Conflict == command.expected # tr.tokens

DropStandby(s) == [s EXCEPT !.prep = NoSocket, !.ready = NoSocket]

UpdateRefused ==
    /\ At("select") /\ command # NoCommand /\ Conflict
    /\ reply' = "failed" /\ command' = NoCommand
    /\ sock' = DropStandby(sock) /\ rot' = "low"
    /\ UNCHANGED <<venue, tr, out, bell, owner, shard, receipt, left>>

\* Unsubscribe, then subscribe: the receipt says that the writes are done.
Update ==
    /\ At("select") /\ command # NoCommand /\ ~Conflict
    /\ sock.active.alive
    /\ reply' = "done" /\ command' = NoCommand /\ rot' = "low"
    /\ tr' = [tr EXCEPT !.tokens = command.target]
    /\ sock' = [DropStandby(sock) EXCEPT !.active.sub = command.target,
                                         !.active.owed = command.target]
    /\ UNCHANGED <<venue, out, bell, owner, shard, receipt, left>>

\* One of the two writes fails; what may be subscribed is kept for the reconnect.
UpdateFails ==
    /\ At("select") /\ command # NoCommand /\ ~Conflict
    /\ IF sock.active.alive THEN Faulty ELSE UNCHANGED left
    /\ reply' = "failed" /\ command' = NoCommand
    /\ End(tr.tokens \cup command.target) \/ End(command.target)
    /\ UNCHANGED <<venue, rot, out, bell, owner, shard, receipt>>

----------------------------------------------------------------------------
(* The market owner: Shards::take_ready and the routing of a batch.        *)

\* TransportReadyHandle::consumed.  Mutant: the flag is not cleared.
ConsumedNever(b) == b
Consumed(b) == [b EXCEPT !.queued = FALSE]

\* The id leaves the channel, then the flag is cleared; a signal in between is silent.
Wake ==
    /\ owner.pc = "idle" /\ bell.note
    /\ bell' = [bell EXCEPT !.note = FALSE] /\ owner' = [owner EXCEPT !.pc = "woken"]
    /\ UNCHANGED <<venue, sock, tr, rot, out, shard, command, reply, receipt, left>>

Consume ==
    /\ owner.pc = "woken" /\ bell' = Consumed(bell) /\ owner' = [owner EXCEPT !.pc = "take"]
    /\ UNCHANGED <<venue, sock, tr, rot, out, shard, command, reply, receipt, left>>

\* Ghosts: skewed, an update was reduced that does not follow the book; mixed, a frame
\* of another socket than the one the books come from.
Reduce(f, epoch) ==
    [owner EXCEPT !.pc = "idle", !.view = Reduced(@, f), !.source = {epoch},
                  !.skewed = @ \/ OutOfOrder(owner.view, f),
                  !.mixed = @ \/ owner.source \notin {{}, {epoch}}]

Without(T) == [t \in Tokens |-> IF t \in T THEN 0 ELSE owner.view[t]]

\* A batch of tokens the shard does not own is dropped, its receipt with it.
Take ==
    /\ owner.pc = "take" /\ out # <<>> /\ out' = Tail(out)
    /\ bell' = IF Len(out) > 1 THEN Rung(bell) ELSE bell
    /\ LET f == Head(out).frame
           epoch == Head(out).epoch
           routed == Head(out).source \subseteq shard.tokens
           back == [owner EXCEPT !.pc = "idle"]
       IN \/ /\ f.kind \in {"book", "delta"} /\ UNCHANGED <<receipt, left>>
             /\ owner' = IF routed THEN Reduce(f, epoch) ELSE back
          \/ /\ f.kind = "gap" /\ UNCHANGED <<receipt, left>>
             /\ owner' = IF routed THEN [back EXCEPT !.source = {}, !.view = Without(f.toks)]
                         ELSE back
          \/ /\ f.kind = "checkpoint" /\ routed /\ UNCHANGED left     \* both books committed
             /\ receipt' = "committed"
             /\ owner' = [back EXCEPT !.source = {epoch}, !.view = f.view]
          \/ /\ f.kind = "checkpoint" /\ receipt' = "rejected" /\ owner' = back
             /\ IF routed THEN Faulty ELSE UNCHANGED left
    /\ UNCHANGED <<venue, sock, tr, rot, shard, command, reply>>

TakeNothing ==
    /\ owner.pc = "take" /\ out = <<>> /\ owner' = [owner EXCEPT !.pc = "idle"]
    /\ UNCHANGED <<venue, sock, tr, rot, out, bell, shard, command, reply, receipt, left>>

----------------------------------------------------------------------------
(* The shard: request_pair_replacement, poll_retirements, handle_finished, *)
(* run by the owner's task between two batches.                            *)

Replace(P) ==
    /\ owner.pc = "idle" /\ P \in left.pairs /\ left' = [left EXCEPT !.pairs = @ \ {P}]
    /\ shard.target = {} /\ command = NoCommand
    /\ shard' = [shard EXCEPT !.target = P, !.pending = TRUE]
    /\ command' = [expected |-> shard.tokens, target |-> P]
    /\ UNCHANGED <<venue, sock, tr, rot, out, bell, owner, reply, receipt>>

\* A failed command is sent again; the old pair leaves the shard when one is done.
PollRetirements ==
    /\ owner.pc = "idle" /\ shard.target # {}
    /\ \/ /\ ~shard.pending /\ command = NoCommand
          /\ shard' = [shard EXCEPT !.pending = TRUE]
          /\ command' = [expected |-> shard.tokens, target |-> shard.target]
          /\ UNCHANGED <<owner, reply>>
       \/ /\ shard.pending /\ reply = "failed" /\ reply' = "none"
          /\ shard' = [shard EXCEPT !.pending = FALSE]
          /\ UNCHANGED <<owner, command>>
       \/ /\ shard.pending /\ reply = "done" /\ reply' = "none"
          /\ shard' = [tokens |-> shard.target, target |-> {}, pending |-> FALSE]
          /\ owner' = [owner EXCEPT !.view = Unknown, !.source = {}]
          /\ UNCHANGED command
    /\ UNCHANGED <<venue, sock, tr, rot, out, bell, receipt, left>>

\* The task panicked or met a closed budget: a new one with the tokens of the shard,
\* behind a recovery barrier and without the old FIFO.  Its target is tried again.
ShardRestarts ==
    /\ tr.pc # "stopped" /\ owner.pc = "idle" /\ Faulty
    /\ sock' = NoSockets /\ rot' = "low"
    /\ tr' = [tr EXCEPT !.pc = "connect", !.tokens = shard.tokens, !.held = NoFrame]
    /\ out' = <<>> /\ bell' = NoBell
    /\ owner' = [owner EXCEPT !.view = Unknown, !.source = {}]
    /\ shard' = [shard EXCEPT !.pending = FALSE]
    /\ command' = NoCommand /\ reply' = "none" /\ receipt' = "none"
    /\ UNCHANGED venue

\* The shutdown signal is an arm of every wait.
Shutdown ==
    /\ ~bell.due /\ tr.pc \in {"select", "sending", "offer", "await", "gap", "connect"}
    /\ tr' = [tr EXCEPT !.pc = "stopped", !.held = NoFrame] /\ sock' = NoSockets
    /\ command' = NoCommand /\ rot' = "low"
    /\ UNCHANGED <<venue, out, bell, owner, shard, reply, receipt, left>>

----------------------------------------------------------------------------
Init ==
    /\ venue = 1
    /\ sock = NoSockets
    /\ tr = [pc |-> "connect", tokens |-> Initial, held |-> NoFrame, epoch |-> 0]
    /\ rot = "low"
    /\ out = <<>> /\ bell = NoBell
    /\ owner = [pc |-> "idle", view |-> Unknown, source |-> {}, skewed |-> FALSE, mixed |-> FALSE]
    /\ shard = [tokens |-> Initial, target |-> {}, pending |-> FALSE]
    /\ command = NoCommand /\ reply = "none" /\ receipt = "none"
    /\ left = [faults |-> MaxFaults, pairs |-> Pairs \ {Initial}]

Next ==
    \/ VenueUpdates \/ Seed \/ SeedFails
    \/ \E r \in Roles : Receive(r) \/ SocketEnds(r)
    \/ Connect \/ ConnectFails \/ TakeActive \/ Publish \/ Signal \/ ActiveEnds \/ ControlTick
    \/ Prepared \/ StandbyArm \/ Offer \/ Switch \/ PublishGap
    \/ UpdateRefused \/ Update \/ UpdateFails \/ Shutdown
    \/ Wake \/ Consume \/ Take \/ TakeNothing
    \/ (\E P \in Pairs : Replace(P)) \/ PollRetirements \/ ShardRestarts

Spec == Init /\ [][Next]_vars

----------------------------------------------------------------------------
(* Properties.                                                             *)

\* All that the active socket read has been taken by the owner, as frames of its pair.
Arrived == /\ tr.pc = "select" /\ sock.active.alive /\ sock.active.queue = <<>> /\ out = <<>>
           /\ owner.source = {tr.epoch} /\ shard.tokens = tr.tokens

\* The owner reduces every update of the venue to a book it holds, none left out and
\* none twice, across lost sockets, overflowing readers, switches to the standby (whose
\* buffer ends where its next frame begins) and pair replacements; once all has arrived,
\* its books are at the last update that the socket was sent.
UpdatesInOrder ==
    /\ ~owner.skewed
    /\ Arrived => \A t \in tr.tokens : owner.view[t] \in {0, sock.active.ver}

\* The books of the owner change to another socket only with a gap or with a committed
\* checkpoint between them: after a commit no frame of the old connection is reduced,
\* after a lost connection none of the next before the gap.
NoSilentSwitch == ~owner.mixed

\* Edge-triggered notification: whenever a batch waits and the owner is not about to
\* take one, the market's id is in the ready channel or its sender is about to signal.
ReadyIsSignalled == out # <<>> /\ owner.pc = "idle" => bell.note \/ bell.due
=============================================================================
