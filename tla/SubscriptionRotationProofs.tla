--------------------- MODULE SubscriptionRotationProofs ---------------------
(***************************************************************************)
(* What SubscriptionRotation promises about the owner's FIFO, for every    *)
(* set of pairs and every bound: its batches are always announced, the     *)
(* books of the owner never move to another socket in silence, and they    *)
(* follow every update in order.                                           *)
(*                                                                         *)
(* None is inductive.  A batch is announced because the bell is, at        *)
(* every point of the owner's wake-up, in one of a few states (Bell).  No  *)
(* silent switch needs the whole FIFO: two batches of one pair from two    *)
(* sockets have that pair's gap between them, also between what the owner  *)
(* has reduced and what it will take, and between the FIFO and what the    *)
(* transport will push next (Fifo, Reduction, Coming); a checkpoint is     *)
(* always the last batch (Checkpoints).  A gap is only as good as its      *)
(* routing: the owner drops the gap of a pair that it does not own, so     *)
(* which pairs the transport, the shard and the command may name while a   *)
(* pair is replaced is part of the invariant (Membership, Fresh).          *)
(*                                                                         *)
(* The second half proves that no update is left out or reduced twice on   *)
(* the way from a socket to the owner's books, across a switch of sockets, *)
(* a gap and a replacement of the pair (Ordered).                          *)
(***************************************************************************)
EXTENDS SubscriptionRotation, SequenceTheorems, TLAPS

Frame == [kind : {"book", "delta"}, toks : SUBSET Tokens, ver : Nat]
Checkpoint == [kind : {"checkpoint"}, toks : SUBSET Tokens, view : [Tokens -> Nat]]
Gap == [kind : {"gap"}, toks : SUBSET Tokens]
Entry == [frame : Frame \cup Checkpoint \cup Gap, source : SUBSET Tokens, epoch : {0, 1}]
Socket == [phase : {"none", "seeding", "pumped", "failed"}, sub : SUBSET Tokens,
           owed : SUBSET Tokens, ver : Nat, alive : BOOLEAN, queue : Seq(Frame),
           books : SUBSET Tokens, view : [Tokens -> Nat], size : Nat]
TransportState == [pc : {"connect", "select", "sending", "offer", "await", "gap", "stopped"},
                   tokens : SUBSET Tokens, held : Frame \cup {NoFrame}, epoch : {0, 1}]
OwnerState == [pc : {"idle", "woken", "take"}, view : [Tokens -> Nat], source : SUBSET {0, 1},
               skewed : BOOLEAN, mixed : BOOLEAN]

TransportTypes ==
    /\ venue \in Nat /\ sock \in [Roles -> Socket]
    /\ tr \in TransportState /\ (tr.pc = "sending" => tr.held \in Frame)
    /\ rot \in {"low", "high", "confirmed"} /\ out \in Seq(Entry)

OwnerTypes ==
    /\ owner \in OwnerState
    /\ shard \in [tokens : SUBSET Tokens, target : SUBSET Tokens, pending : BOOLEAN]
    /\ command \in [expected : SUBSET Tokens, target : SUBSET Tokens]
    /\ reply \in {"none", "failed", "done"} /\ receipt \in {"none", "committed", "rejected"}
    /\ left \in [faults : Nat, pairs : SUBSET Pairs]

\* An id in the channel or on its way to the flag; a signal is silent only before that.
Bell ==
    /\ bell \in [queued : BOOLEAN, note : BOOLEAN, due : BOOLEAN]
    /\ bell.note => bell.queued
    /\ owner.pc = "woken" => bell.queued /\ ~bell.note
    /\ bell.queued => bell.note \/ owner.pc = "woken"
    /\ out # <<>> => bell.note \/ bell.due \/ owner.pc \in {"woken", "take"}

IsData(e) == e.frame.kind \in {"book", "delta"}
IsGap(e) == e.frame.kind = "gap"
In(e, T) == e.source \subseteq T

\* What a replacement may have done to the pair of the transport.
Membership ==
    /\ shard.tokens \in Pairs /\ shard.target \in Pairs \cup {{}} /\ shard.target # shard.tokens
    /\ tr.tokens \in {shard.tokens, shard.target, shard.tokens \cup shard.target} \ {{}}
    /\ shard.pending => shard.target # {}
    /\ command # NoCommand =>
          /\ command = [expected |-> shard.tokens, target |-> shard.target]
          /\ shard.pending /\ reply = "none"
    /\ reply # "none" => shard.pending
    /\ reply = "done" => tr.tokens = shard.target

\* The batches of a pair are pushed once: before, there are none.
Absent(T) == \A i \in 1..Len(out) : ~In(out[i], T)
Fresh ==
    /\ \A T \in left.pairs : T # shard.tokens /\ T # shard.target /\ Absent(T)
    /\ shard.target # {} /\ tr.tokens = shard.tokens => Absent(shard.target)

\* A gap of T between the positions i and j.
Between(i, j, T) == \E k \in 1..Len(out) : i < k /\ k < j /\ IsGap(out[k]) /\ In(out[k], T)

Fifo ==
    \A T \in Pairs : \A i, j \in 1..Len(out) :
        /\ i < j /\ IsData(out[i]) /\ IsData(out[j]) /\ In(out[i], T) /\ In(out[j], T)
        => out[i].epoch = out[j].epoch \/ Between(i, j, T)

\* What the owner has reduced, and what it will take.
Reduction ==
    /\ ~owner.mixed
    /\ \A i \in 1..Len(out) : IsData(out[i]) /\ In(out[i], shard.tokens)
          => owner.source \subseteq {out[i].epoch} \/ Between(0, i, shard.tokens)

\* What waits, and what the transport will push next.
Running == tr.pc \in {"select", "sending", "offer", "await"}
Coming ==
    /\ Running => \A T \in Pairs : tr.tokens \subseteq T =>
          \A i \in 1..Len(out) : IsData(out[i]) /\ In(out[i], T)
             => out[i].epoch = tr.epoch \/ Between(i, Len(out) + 1, T)
    /\ Running /\ receipt # "committed" /\ tr.tokens \subseteq shard.tokens =>
          owner.source \subseteq {tr.epoch} \/ Between(0, Len(out) + 1, shard.tokens)

\* Between two connections: the gap is the last batch, or the owner has taken it.
Reconnecting ==
    tr.pc = "connect" =>
        \/ out = <<>> /\ (tr.tokens \subseteq shard.tokens => owner.source = {})
        \/ out # <<>> /\ IsGap(out[Len(out)]) /\ out[Len(out)].source = tr.tokens

Checkpoints ==
    /\ \A i \in 1..Len(out) : out[i].frame.kind = "checkpoint"
          => i = Len(out) /\ tr.pc \in {"await", "stopped"} /\ out[i].epoch = 1 - tr.epoch
    /\ receipt # "none" => out = <<>> /\ tr.pc \in {"await", "stopped"}
    /\ receipt = "committed" => owner.source \subseteq {1 - tr.epoch}

IInv == /\ TransportTypes /\ OwnerTypes /\ Bell /\ Membership /\ Fresh
        /\ Fifo /\ Reduction /\ Coming /\ Reconnecting /\ Checkpoints

-----------------------------------------------------------------------------
(* Types of the sockets.                                                   *)

LEMMA NoSocketTypes ==
  /\ Unknown \in [Tokens -> Nat] /\ NoSocket \in Socket /\ NoSockets \in [Roles -> Socket]
  /\ [NoSocket EXCEPT !.phase = "failed"] \in Socket
<1>1. Unknown \in [Tokens -> Nat]
  BY DEF Unknown
<1>2. <<>> \in Seq(Frame)
  OBVIOUS
<1>3. NoSocket \in Socket /\ [NoSocket EXCEPT !.phase = "failed"] \in Socket
  BY <1>1, <1>2 DEF NoSocket, Socket
<1>4. QED BY <1>1, <1>3 DEF NoSockets

LEMMA NewSocketTypes ==
  ASSUME TransportTypes, NEW phase \in {"seeding", "pumped"} PROVE NewSocket(phase) \in Socket
<1>1. tr.tokens \in SUBSET Tokens /\ venue \in Nat
  BY DEF TransportTypes, TransportState
<1>2. QED BY <1>1, NoSocketTypes DEF NewSocket, Socket

LEMMA VenueFramesTypes ==
  ASSUME NEW s \in Socket, venue \in Nat, NEW f \in VenueFrames(s)
  PROVE f \in Frame /\ Sent(s, f) \in Socket
<1>1. s.sub \in SUBSET Tokens /\ s.owed \in SUBSET Tokens /\ s.ver \in Nat
  BY DEF Socket
<1>2. f \in Frame
  <2>1. CASE \E t \in First(s.owed) : f = [kind |-> "book", toks |-> {t}, ver |-> s.ver]
    BY <1>1, <2>1 DEF First, Frame
  <2>2. CASE \E v \in {s.ver + 1} \cap (1..venue) :
               f = [kind |-> "delta", toks |-> s.sub, ver |-> v]
    <3>1. PICK v \in {s.ver + 1} \cap (1..venue) :
               f = [kind |-> "delta", toks |-> s.sub, ver |-> v]
      BY <2>2
    <3>2. v \in Nat
      BY <1>1
    <3>3. QED BY <1>1, <3>1, <3>2 DEF Frame
  <2>3. QED BY <2>1, <2>2 DEF VenueFrames
<1>3. QED BY <1>1, <1>2 DEF Sent, Socket, Frame

LEMMA RetainedTypes ==
  ASSUME NEW s \in Socket, NEW f \in Frame PROVE Retained(s, f) \in Socket
<1>1. /\ s.books \in SUBSET Tokens /\ s.view \in [Tokens -> Nat] /\ s.size \in Nat
      /\ f.toks \in SUBSET Tokens /\ f.ver \in Nat
  BY DEF Socket, Frame
<1>2. Reduced(s.view, f) \in [Tokens -> Nat]
  BY <1>1 DEF Reduced
<1>3. s.size + 1 \in Nat
  BY <1>1
<1>4. QED BY <1>1, <1>2, <1>3 DEF Retained, Socket

\* The end of a loop round leaves well-typed sockets, and the transport in one of
\* two places.
LEMMA AfterTypes ==
  ASSUME TransportTypes, NEW s \in [Roles -> Socket],
         NEW observed \in SUBSET {"low", "high", "confirmed"}, After(s, observed)
  PROVE /\ sock' \in [Roles -> Socket] /\ rot' \in {"low", "high", "confirmed"}
        /\ tr' \in TransportState /\ tr'.pc \in {"select", "offer"}
        /\ tr'.tokens = tr.tokens /\ tr'.epoch = tr.epoch
<1>1. PICK r \in observed :
        /\ rot' = r
        /\ \/ /\ sock' = s /\ tr' = [tr EXCEPT !.pc = "select", !.held = NoFrame]
           \/ /\ sock' = [s EXCEPT !.prep = NewSocket("seeding")]
              /\ tr' = [tr EXCEPT !.pc = "select", !.held = NoFrame]
           \/ /\ sock' = [s EXCEPT !.candidate = s.ready, !.ready = NoSocket]
              /\ tr' = [tr EXCEPT !.pc = "offer", !.held = NoFrame]
           \/ /\ sock' = [s EXCEPT !.ready = NoSocket]
              /\ tr' = [tr EXCEPT !.pc = "select", !.held = NoFrame]
  BY DEF After
<1>2. NewSocket("seeding") \in Socket /\ NoSocket \in Socket
  BY NewSocketTypes, NoSocketTypes
<1>3. s.ready \in Socket
  BY DEF Roles
<1>4. /\ [s EXCEPT !.prep = NewSocket("seeding")] \in [Roles -> Socket]
      /\ [s EXCEPT !.candidate = s.ready, !.ready = NoSocket] \in [Roles -> Socket]
      /\ [s EXCEPT !.ready = NoSocket] \in [Roles -> Socket]
  BY <1>2, <1>3
<1>5. /\ tr \in TransportState
      /\ tr' = [tr EXCEPT !.pc = "select", !.held = NoFrame]
         \/ tr' = [tr EXCEPT !.pc = "offer", !.held = NoFrame]
  BY <1>1 DEF TransportTypes
<1>6. /\ tr' \in TransportState /\ tr'.pc \in {"select", "offer"}
      /\ tr'.tokens = tr.tokens /\ tr'.epoch = tr.epoch
  BY <1>5 DEF TransportState
<1>7. sock' \in [Roles -> Socket] /\ rot' \in {"low", "high", "confirmed"}
  BY <1>1, <1>4
<1>8. QED BY <1>6, <1>7

-----------------------------------------------------------------------------
(* Steps that leave the FIFO alone.                                        *)

\* Pairs are disjoint and not empty: what the transport subscribes to is no part of a
\* pair that the shard neither has nor gets, nor the old pair a part of the new one.
LEMMA Apart ==
  ASSUME Membership
  PROVE /\ \A T \in Pairs : T # shard.tokens /\ T # shard.target => ~(tr.tokens \subseteq T)
        /\ shard.target # {} => ~(shard.tokens \subseteq shard.target)
        /\ shard.target # {} => ~(shard.tokens \cup shard.target \subseteq shard.tokens)
        /\ shard.target # {} => ~(shard.target \subseteq shard.tokens)
<1>1. \A P \in Pairs : P # {}
  BY RotationAssumption
<1>2. \A P, Q \in Pairs : P # Q => ~(P \subseteq Q)
  BY <1>1, RotationAssumption
<1>3. /\ shard.tokens \in Pairs /\ shard.target \in Pairs \cup {{}} /\ shard.target # shard.tokens
      /\ tr.tokens \in {shard.tokens, shard.target, shard.tokens \cup shard.target} \ {{}}
  BY DEF Membership
<1>4. \A T \in Pairs : T # shard.tokens /\ T # shard.target => ~(tr.tokens \subseteq T)
  <2> SUFFICES ASSUME NEW T \in Pairs, T # shard.tokens, T # shard.target, tr.tokens \subseteq T
               PROVE FALSE
    OBVIOUS
  <2>1. ~(shard.tokens \subseteq T)
    BY <1>2, <1>3
  <2>2. tr.tokens = shard.target /\ shard.target \in Pairs
    BY <1>3, <2>1
  <2>3. QED BY <1>2, <2>2
<1>5. QED BY <1>2, <1>3, <1>4

\* The transport moves without a batch: what it subscribes to and its socket stay.
LEMMA TransportStep ==
  ASSUME IInv, TransportTypes', OwnerTypes', Membership',
         UNCHANGED <<out, bell, owner, shard, receipt>>, left'.pairs = left.pairs,
         tr'.tokens = tr.tokens, tr'.epoch = tr.epoch,
         \/ tr'.pc = tr.pc \/ tr'.pc = "stopped"
         \/ tr.pc \in {"select", "sending"} /\ tr'.pc \in {"select", "sending", "offer", "gap"}
         \/ tr.pc = "connect" /\ tr'.pc = "gap"
  PROVE IInv'
<1>1. Bell' /\ Fresh' /\ Fifo' /\ Reduction'
  BY DEF IInv, Bell, Fresh, Fifo, Reduction, Absent, Between, In, IsData, IsGap
<1>2. Running' => Running
  BY DEF Running
<1>3. Coming'
  BY <1>2 DEF IInv, Coming, Between, In, IsData, IsGap
<1>4. Reconnecting'
  BY DEF IInv, Reconnecting, IsGap
<1>5. Checkpoints'
  BY DEF IInv, Checkpoints
<1>6. QED BY <1>1, <1>3, <1>4, <1>5 DEF IInv

-----------------------------------------------------------------------------
(* Batches pushed.                                                         *)

Pushed(e) ==
    /\ e \in Entry /\ Len(out) \in Nat /\ out' \in Seq(Entry) /\ Len(out') = Len(out) + 1
    /\ \A i \in 1..Len(out) : out'[i] = out[i]
    /\ out'[Len(out) + 1] = e

LEMMA PushIndex ==
  ASSUME TransportTypes, NEW f \in Frame \cup Checkpoint \cup Gap, NEW epoch \in {0, 1},
         Push(f, epoch)
  PROVE Pushed([frame |-> f, source |-> tr.tokens, epoch |-> epoch])
<1> DEFINE e == [frame |-> f, source |-> tr.tokens, epoch |-> epoch]
<1>1. e \in Entry
  BY DEF TransportTypes, TransportState, Entry
<1>2. out \in Seq(Entry) /\ Len(out) \in Nat
  BY LenProperties DEF TransportTypes
<1>3. out' = Append(out, e)
  BY DEF Push
<1> HIDE DEF e
<1>4. out' \in Seq(Entry) /\ Len(out') = Len(out) + 1
  BY <1>1, <1>2, <1>3, AppendProperties
<1>5. (\A i \in 1..Len(out) : out'[i] = out[i]) /\ out'[Len(out) + 1] = e
  BY <1>1, <1>2, <1>3, AppendProperties
<1>6. QED BY <1>1, <1>2, <1>4, <1>5 DEF Pushed, e

\* A gap stays between two positions, and before the end.
LEMMA BetweenPushed ==
  ASSUME NEW e, Pushed(e)
  PROVE /\ \A i, j, T : Between(i, j, T) => Between(i, j, T)'
        /\ \A i, T : Between(i, Len(out) + 1, T) => Between(i, Len(out) + 1, T)'
<1>1. ASSUME NEW i, NEW j, NEW T, Between(i, j, T) PROVE Between(i, j, T)'
  <2>1. PICK k \in 1..Len(out) : i < k /\ k < j /\ IsGap(out[k]) /\ In(out[k], T)
    BY <1>1 DEF Between
  <2>2. k \in 1..Len(out') /\ out'[k] = out[k]
    BY DEF Pushed
  <2>3. QED BY <2>1, <2>2 DEF Between, IsGap, In
<1>2. ASSUME NEW i, NEW T, Between(i, Len(out) + 1, T) PROVE Between(i, Len(out) + 1, T)'
  <2>1. PICK k \in 1..Len(out) : i < k /\ IsGap(out[k]) /\ In(out[k], T)
    BY <1>2 DEF Between
  <2>2. k \in 1..Len(out') /\ out'[k] = out[k] /\ k < Len(out') + 1
    BY DEF Pushed
  <2>3. QED BY <2>1, <2>2 DEF Between, IsGap, In
<1>3. QED BY <1>1, <1>2

\* A pushed batch keeps the FIFO in order.
LEMMA FifoPushed ==
  ASSUME IInv, NEW e, Pushed(e), e.source = tr.tokens,
         IsData(e) => Running /\ receipt # "committed" /\ e.epoch = tr.epoch,
         UNCHANGED <<owner, shard, receipt, left>>, bell' = [bell EXCEPT !.due = TRUE],
         tr'.tokens = tr.tokens, tr'.epoch = tr.epoch, Running' => Running
  PROVE Bell' /\ Fresh' /\ Fifo' /\ Reduction' /\ Coming'
<1>1. /\ Len(out) \in Nat /\ Len(out') = Len(out) + 1
      /\ \A i \in 1..Len(out) : out'[i] = out[i]
      /\ out'[Len(out) + 1] = e
  BY DEF Pushed
<1>2. \A i \in 1..Len(out') : i \in 1..Len(out) \/ i = Len(out')
  BY <1>1
<1>3. Bell'
  BY DEF IInv, Bell
<1>4. Fresh'
  <2>1. ASSUME NEW T, Absent(T), ~(tr.tokens \subseteq T) PROVE Absent(T)'
    BY <1>1, <1>2, <2>1 DEF Absent, In
  <2>2. \A T \in left.pairs : ~(tr.tokens \subseteq T)
    BY Apart DEF IInv, Fresh, OwnerTypes
  <2>3. shard.target # {} => ~(shard.tokens \subseteq shard.target)
    BY Apart DEF IInv
  <2>4. QED BY <2>1, <2>2, <2>3 DEF IInv, Fresh
<1>5. Fifo'
  <2> SUFFICES ASSUME NEW T \in Pairs, NEW i \in 1..Len(out'), NEW j \in 1..Len(out'), i < j,
                      IsData(out'[i]), IsData(out'[j]), In(out'[i], T), In(out'[j], T)
               PROVE out'[i].epoch = out'[j].epoch \/ Between(i, j, T)'
    BY DEF Fifo, IsData, In
  <2>1. i \in 1..Len(out) /\ out'[i] = out[i]
    BY <1>1
  <2>2. CASE j \in 1..Len(out)
    <3>1. out'[j] = out[j]
      BY <1>1, <2>2
    <3>2. out[i].epoch = out[j].epoch \/ Between(i, j, T)
      BY <2>1, <2>2, <3>1 DEF IInv, Fifo
    <3>3. QED BY <2>1, <3>1, <3>2, BetweenPushed
  <2>3. CASE j = Len(out) + 1
    <3>1. IsData(e) /\ tr.tokens \subseteq T /\ e.epoch = tr.epoch /\ Running
      BY <1>1, <2>3 DEF In
    <3>2. out[i].epoch = tr.epoch \/ Between(i, Len(out) + 1, T)
      BY <2>1, <3>1 DEF IInv, Coming
    <3>3. QED BY <1>1, <2>1, <2>3, <3>1, <3>2, BetweenPushed
  <2>4. QED BY <1>1, <1>2, <2>2, <2>3
<1>6. Reduction'
  <2> SUFFICES ASSUME NEW i \in 1..Len(out'), IsData(out'[i]), In(out'[i], shard.tokens)
               PROVE owner.source \subseteq {out'[i].epoch} \/ Between(0, i, shard.tokens)'
    BY DEF IInv, Reduction, IsData, In
  <2>1. CASE i \in 1..Len(out)
    <3>1. owner.source \subseteq {out[i].epoch} \/ Between(0, i, shard.tokens)
      BY <1>1, <2>1 DEF IInv, Reduction
    <3>2. QED BY <1>1, <2>1, <3>1, BetweenPushed
  <2>2. CASE i = Len(out) + 1
    <3>1. IsData(e) /\ tr.tokens \subseteq shard.tokens /\ e.epoch = tr.epoch /\ Running
      BY <1>1, <2>2 DEF In
    <3>2. owner.source \subseteq {tr.epoch} \/ Between(0, Len(out) + 1, shard.tokens)
      BY <3>1 DEF IInv, Coming
    <3>3. QED BY <1>1, <2>2, <3>1, <3>2, BetweenPushed
  <2>3. QED BY <1>1, <1>2, <2>1, <2>2
<1>7. Coming'
  <2>1. ASSUME Running, NEW T \in Pairs, tr.tokens \subseteq T, NEW i \in 1..Len(out'),
               IsData(out'[i]), In(out'[i], T)
        PROVE out'[i].epoch = tr.epoch \/ Between(i, Len(out) + 1, T)'
    <3>1. CASE i \in 1..Len(out)
      <4>1. out[i].epoch = tr.epoch \/ Between(i, Len(out) + 1, T)
        BY <1>1, <2>1, <3>1 DEF IInv, Coming
      <4>2. QED BY <1>1, <3>1, <4>1, BetweenPushed
    <3>2. CASE i = Len(out) + 1
      BY <1>1, <2>1, <3>2
    <3>3. QED BY <1>1, <1>2, <3>1, <3>2
  <2>2. Running /\ receipt # "committed" /\ tr.tokens \subseteq shard.tokens =>
          owner.source \subseteq {tr.epoch} \/ Between(0, Len(out) + 1, shard.tokens)'
    BY BetweenPushed DEF IInv, Coming
  <2>3. QED BY <2>1, <2>2 DEF Coming, In, IsData
<1>8. QED BY <1>3, <1>4, <1>5, <1>6, <1>7

\* Where the transport can push, no receipt and no checkpoint is on its way.
LEMMA NoReceipt ==
  ASSUME IInv, tr.pc \notin {"await", "stopped"}
  PROVE /\ receipt = "none"
        /\ \A i \in 1..Len(out) : out[i].frame.kind # "checkpoint"
BY DEF IInv, Checkpoints, OwnerTypes

\* Membership does not look at the FIFO nor at the place of the transport.
LEMMA MembershipStays ==
  ASSUME Membership, UNCHANGED <<shard, command, reply>>, tr'.tokens = tr.tokens
  PROVE Membership'
BY DEF Membership

LEMMA DataPush ==
  ASSUME IInv, TransportTypes', NEW f \in Frame, Push(f, tr.epoch),
         tr.pc \in {"select", "sending"}, tr'.pc \in {"select", "offer"},
         tr'.tokens = tr.tokens, tr'.epoch = tr.epoch,
         UNCHANGED <<owner, shard, command, reply, receipt, left>>
  PROVE IInv'
<1> DEFINE e == [frame |-> f, source |-> tr.tokens, epoch |-> tr.epoch]
<1>1. tr.epoch \in {0, 1}
  BY DEF IInv, TransportTypes, TransportState
<1>2. Pushed(e)
  BY <1>1, PushIndex DEF IInv
<1>3. f.kind \in {"book", "delta"} /\ e.frame = f /\ e.source = tr.tokens /\ e.epoch = tr.epoch
  BY DEF Frame
<1> HIDE DEF e
<1>4. Running /\ receipt = "none" /\ bell' = [bell EXCEPT !.due = TRUE]
  BY NoReceipt DEF Running, Push
<1>5. Bell' /\ Fresh' /\ Fifo' /\ Reduction' /\ Coming'
  BY <1>2, <1>3, <1>4, FifoPushed
<1>6. OwnerTypes' /\ Membership' /\ Reconnecting'
  BY MembershipStays DEF IInv, OwnerTypes, Reconnecting
<1>7. Checkpoints'
  <2>1. \A i \in 1..Len(out') : out'[i].frame.kind # "checkpoint"
    BY <1>2, <1>3, NoReceipt DEF Pushed
  <2>2. QED BY <1>4, <2>1 DEF Checkpoints
<1>8. QED BY <1>5, <1>6, <1>7 DEF IInv

LEMMA OfferStep == ASSUME IInv, Offer PROVE IInv'
<1> DEFINE f == [kind |-> "checkpoint", toks |-> tr.tokens, view |-> sock.candidate.view]
           e == [frame |-> f, source |-> tr.tokens, epoch |-> 1 - tr.epoch]
<1>1. /\ tr \in TransportState /\ sock.candidate \in Socket
      /\ tr.tokens \in SUBSET Tokens /\ tr.epoch \in {0, 1} /\ tr.pc = "offer"
  BY DEF IInv, TransportTypes, TransportState, Roles, Offer, At
<1>2. f \in Checkpoint /\ 1 - tr.epoch \in {0, 1}
  BY <1>1 DEF Checkpoint, Socket
<1>3. Pushed(e)
  BY <1>2, PushIndex DEF IInv, Offer
<1>4. ~IsData(e) /\ e.source = tr.tokens /\ e.epoch = 1 - tr.epoch
  BY DEF IsData
<1> HIDE DEF f, e
<1>5. /\ tr' = [tr EXCEPT !.pc = "await"] /\ bell' = [bell EXCEPT !.due = TRUE]
      /\ UNCHANGED <<venue, sock, rot, owner, shard, command, reply, receipt, left>>
  BY DEF Offer, Push
<1>6. /\ tr' \in TransportState /\ tr'.tokens = tr.tokens /\ tr'.epoch = tr.epoch
      /\ tr'.pc = "await" /\ Running
  BY <1>1, <1>5 DEF TransportState, Running
<1>7. Bell' /\ Fresh' /\ Fifo' /\ Reduction' /\ Coming'
  BY <1>3, <1>4, <1>5, <1>6, FifoPushed
<1>8. TransportTypes' /\ OwnerTypes'
  BY <1>3, <1>5, <1>6 DEF IInv, TransportTypes, OwnerTypes, Pushed
<1>9. Membership' /\ Reconnecting'
  BY <1>5, <1>6, MembershipStays DEF IInv, Reconnecting
<1>10. Checkpoints'
  <2>1. \A i \in 1..Len(out') : out'[i].frame.kind = "checkpoint" =>
             i = Len(out') /\ out'[i].epoch = 1 - tr.epoch
    BY <1>1, <1>3, <1>4, NoReceipt DEF Pushed
  <2>2. receipt' = "none"
    BY <1>1, <1>5, NoReceipt
  <2>3. QED BY <1>6, <2>1, <2>2 DEF Checkpoints
<1>11. QED BY <1>7, <1>8, <1>9, <1>10 DEF IInv

LEMMA PublishGapStep == ASSUME IInv, PublishGap PROVE IInv'
<1> DEFINE f == [kind |-> "gap", toks |-> tr.tokens]
           e == [frame |-> f, source |-> tr.tokens, epoch |-> tr.epoch]
<1>1. /\ tr \in TransportState /\ tr.tokens \in SUBSET Tokens /\ tr.epoch \in {0, 1}
      /\ tr.pc = "gap"
  BY DEF IInv, TransportTypes, TransportState, PublishGap, At
<1>2. f \in Gap
  BY <1>1 DEF Gap
<1>3. Pushed(e)
  BY <1>1, <1>2, PushIndex DEF IInv, PublishGap
<1>4. ~IsData(e) /\ IsGap(e) /\ e.source = tr.tokens
  BY DEF IsData, IsGap
<1> HIDE DEF f, e
<1>5. /\ tr' = [tr EXCEPT !.pc = "connect"] /\ bell' = [bell EXCEPT !.due = TRUE]
      /\ UNCHANGED <<venue, sock, rot, owner, shard, command, reply, receipt, left>>
  BY DEF PublishGap, Push
<1>6. /\ tr' \in TransportState /\ tr'.tokens = tr.tokens /\ tr'.epoch = tr.epoch
      /\ tr'.pc = "connect" /\ ~Running'
  BY <1>1, <1>5 DEF TransportState, Running
<1>7. Bell' /\ Fresh' /\ Fifo' /\ Reduction' /\ Coming'
  BY <1>3, <1>4, <1>5, <1>6, FifoPushed
<1>8. TransportTypes' /\ OwnerTypes'
  BY <1>3, <1>5, <1>6 DEF IInv, TransportTypes, OwnerTypes, Pushed
<1>9. Membership'
  BY <1>5, <1>6, MembershipStays DEF IInv
<1>10. Reconnecting'
  <2>1. Len(out') = Len(out) + 1 /\ out'[Len(out')] = e /\ Len(out) \in Nat
    BY <1>3 DEF Pushed
  <2>2. out' # <<>>
    BY <2>1
  <2>3. QED BY <1>4, <1>6, <2>1, <2>2 DEF Reconnecting, IsGap
<1>11. Checkpoints'
  <2>1. \A i \in 1..Len(out') : out'[i].frame.kind # "checkpoint"
    BY <1>1, <1>3, <1>4, NoReceipt DEF Pushed, IsGap
  <2>2. receipt' = "none"
    BY <1>1, <1>5, NoReceipt
  <2>3. QED BY <2>1, <2>2 DEF Checkpoints
<1>12. QED BY <1>7, <1>8, <1>9, <1>10, <1>11 DEF IInv

\* A batch of the active socket, and the rest of the round.
LEMMA TakeActiveStep == ASSUME IInv, TakeActive PROVE IInv'
<1> DEFINE f == Head(sock.active.queue)
           s == [sock EXCEPT !.active.queue = Tail(@)]
<1>1. /\ sock \in [Roles -> Socket] /\ sock.active \in Socket /\ tr \in TransportState
      /\ sock.active.queue \in Seq(Frame) /\ sock.active.queue # <<>>
      /\ tr.pc = "select" /\ TransportTypes /\ rot \in {"low", "high", "confirmed"}
      /\ UNCHANGED <<venue, owner, shard, command, reply, receipt, left>>
  BY DEF IInv, TransportTypes, Roles, Socket, TakeActive, At
<1>2. f \in Frame /\ Tail(sock.active.queue) \in Seq(Frame)
  BY <1>1, HeadTailProperties
<1>3. s \in [Roles -> Socket]
  BY <1>1, <1>2 DEF Roles, Socket
<1>4. Observed(rot) \in SUBSET {"low", "high", "confirmed"}
  BY <1>1 DEF Observed
<1>5. OwnerTypes' /\ (tr'.tokens = tr.tokens => Membership')
  BY <1>1, MembershipStays DEF IInv, OwnerTypes
<1>6. CASE sock' = s /\ UNCHANGED <<tr, rot, out, bell>>
  <2>1. TransportTypes'
    BY <1>1, <1>3, <1>6 DEF TransportTypes
  <2>2. QED BY <1>1, <1>5, <1>6, <2>1, TransportStep
<1>7. CASE Push(f, tr.epoch) /\ After(s, Observed(rot))
  <2>1. /\ sock' \in [Roles -> Socket] /\ rot' \in {"low", "high", "confirmed"}
        /\ tr' \in TransportState /\ tr'.pc \in {"select", "offer"}
        /\ tr'.tokens = tr.tokens /\ tr'.epoch = tr.epoch
    BY <1>1, <1>3, <1>4, <1>7, AfterTypes
  <2>2. out' \in Seq(Entry)
    BY <1>1, <1>2, <1>7, PushIndex DEF Pushed, TransportState
  <2>3. TransportTypes'
    BY <1>1, <2>1, <2>2 DEF TransportTypes
  <2>4. QED BY <1>1, <1>2, <1>7, <2>1, <2>3, DataPush
<1>8. CASE /\ sock' = s /\ tr' = [tr EXCEPT !.pc = "sending", !.held = f]
           /\ UNCHANGED <<rot, out, bell>>
  <2>1. /\ tr' \in TransportState /\ tr'.held \in Frame /\ tr'.pc = "sending"
        /\ tr'.tokens = tr.tokens /\ tr'.epoch = tr.epoch
    BY <1>1, <1>2, <1>8 DEF TransportState
  <2>2. TransportTypes'
    BY <1>1, <1>3, <1>8, <2>1 DEF TransportTypes
  <2>3. QED BY <1>1, <1>5, <1>8, <2>1, <2>2, TransportStep
<1>9. QED BY <1>6, <1>7, <1>8 DEF TakeActive

LEMMA PublishStep == ASSUME IInv, Publish PROVE IInv'
<1>1. /\ sock \in [Roles -> Socket] /\ tr \in TransportState /\ tr.held \in Frame
      /\ tr.pc = "sending" /\ TransportTypes /\ rot \in {"low", "high", "confirmed"}
      /\ Push(tr.held, tr.epoch) /\ After(sock, Observed(rot))
      /\ UNCHANGED <<venue, owner, shard, command, reply, receipt, left>>
  BY DEF IInv, TransportTypes, Publish, At
<1>2. Observed(rot) \in SUBSET {"low", "high", "confirmed"}
  BY <1>1 DEF Observed
<1>3. /\ sock' \in [Roles -> Socket] /\ rot' \in {"low", "high", "confirmed"}
      /\ tr' \in TransportState /\ tr'.pc \in {"select", "offer"}
      /\ tr'.tokens = tr.tokens /\ tr'.epoch = tr.epoch
  BY <1>1, <1>2, AfterTypes
<1>4. out' \in Seq(Entry)
  BY <1>1, PushIndex DEF Pushed, TransportState
<1>5. TransportTypes'
  BY <1>1, <1>3, <1>4 DEF TransportTypes
<1>6. QED BY <1>1, <1>3, <1>5, DataPush

-----------------------------------------------------------------------------
(* The other steps of the transport.                                       *)

\* Only the sockets change.
LEMMA SocketStep ==
  ASSUME IInv, sock' \in [Roles -> Socket], venue' \in Nat,
         UNCHANGED <<tr, rot, out, bell, owner, shard, command, reply, receipt>>,
         left' \in [faults : Nat, pairs : SUBSET Pairs], left'.pairs = left.pairs
  PROVE IInv'
<1>1. TransportTypes' /\ OwnerTypes' /\ Membership'
  BY MembershipStays DEF IInv, TransportTypes, OwnerTypes
<1>2. QED BY <1>1, TransportStep

LEMMA FaultyLeft ==
  ASSUME IInv, Faulty
  PROVE left' \in [faults : Nat, pairs : SUBSET Pairs] /\ left'.pairs = left.pairs
<1>1. left \in [faults : Nat, pairs : SUBSET Pairs] /\ left.faults \in Nat
  BY DEF IInv, OwnerTypes
<1>2. left.faults - 1 \in Nat /\ left' = [left EXCEPT !.faults = @ - 1]
  BY <1>1 DEF Faulty
<1>3. QED BY <1>1, <1>2

LEMMA LeftStays ==
  ASSUME IInv, UNCHANGED left
  PROVE left' \in [faults : Nat, pairs : SUBSET Pairs] /\ left'.pairs = left.pairs
BY DEF IInv, OwnerTypes

LEMMA ReaderSteps ==
  ASSUME IInv,
         VenueUpdates \/ Seed \/ SeedFails \/ (\E r \in Roles : Receive(r) \/ SocketEnds(r))
  PROVE IInv'
<1>1. sock \in [Roles -> Socket] /\ venue \in Nat /\ sock.prep \in Socket
  BY DEF IInv, TransportTypes, Roles
<1>2. CASE VenueUpdates
  <2>1. venue + 1 \in Nat
    BY <1>1
  <2>2. QED BY <1>1, <1>2, <2>1, SocketStep, LeftStays DEF VenueUpdates
<1>3. CASE Seed
  <2>1. PICK f \in VenueFrames(sock.prep) :
          LET s == Sent(Retained(sock.prep, f), f)
          IN sock' = [sock EXCEPT !.prep =
                IF ~Retains(sock.prep, f) THEN [NoSocket EXCEPT !.phase = "failed"]
                ELSE IF Seeded(s) THEN [s EXCEPT !.phase = "pumped"] ELSE s]
    BY <1>3 DEF Seed
  <2> DEFINE s == Sent(Retained(sock.prep, f), f)
  <2>2. f \in Frame
    BY <1>1, VenueFramesTypes
  <2>3. s \in Socket /\ [s EXCEPT !.phase = "pumped"] \in Socket
    <3>1. Retained(sock.prep, f) \in Socket
      BY <1>1, <2>2, RetainedTypes
    <3>2. s \in Socket
      BY <2>2, <3>1 DEF Sent, Socket, Frame
    <3>3. QED BY <3>2 DEF Socket
  <2> HIDE DEF s
  <2>4. sock' \in [Roles -> Socket]
    BY <1>1, <2>1, <2>3, NoSocketTypes DEF s
  <2>5. QED BY <1>1, <1>3, <2>4, SocketStep, LeftStays DEF Seed
<1>4. CASE SeedFails
  <2>1. sock' \in [Roles -> Socket]
    BY <1>1, <1>4, NoSocketTypes DEF SeedFails
  <2>2. QED BY <1>1, <1>4, <2>1, SocketStep, FaultyLeft DEF SeedFails
<1>5. ASSUME NEW r \in Roles, Receive(r) PROVE IInv'
  <2>1. PICK f \in VenueFrames(sock[r]) :
          \/ /\ sock' = [sock EXCEPT ![r] = Queued(Sent(sock[r], f), f)]
             /\ UNCHANGED left
          \/ Faulty /\ sock' = [sock EXCEPT ![r] = Overflow(sock[r], f)]
    BY <1>5 DEF Receive
  <2>2. sock[r] \in Socket /\ f \in Frame /\ Sent(sock[r], f) \in Socket
    BY <1>1, VenueFramesTypes
  <2>3. Queued(Sent(sock[r], f), f) \in Socket
    <3>1. Append(Sent(sock[r], f).queue, f) \in Seq(Frame)
      BY <2>2, AppendProperties DEF Socket
    <3>2. QED BY <2>2, <3>1 DEF Queued, Socket
  <2>4. Overflow(sock[r], f) \in Socket
    BY <2>2 DEF Overflow, Socket
  <2>5. sock' \in [Roles -> Socket]
    <3>1. \A x \in Socket : [sock EXCEPT ![r] = x] \in [Roles -> Socket]
      BY <1>1
    <3>2. QED BY <2>1, <2>3, <2>4, <3>1
  <2>6. QED BY <1>1, <1>5, <2>1, <2>5, SocketStep, FaultyLeft, LeftStays DEF Receive
<1>6. ASSUME NEW r \in Roles, SocketEnds(r) PROVE IInv'
  <2>1. sock' = [sock EXCEPT ![r] = [@ EXCEPT !.alive = FALSE]] /\ sock[r] \in Socket
    BY <1>1, <1>6 DEF SocketEnds
  <2>2. [sock[r] EXCEPT !.alive = FALSE] \in Socket
    BY <2>1 DEF Socket
  <2>3. sock' \in [Roles -> Socket]
    BY <1>1, <2>1, <2>2
  <2>4. QED BY <1>1, <1>6, <2>3, SocketStep, FaultyLeft DEF SocketEnds
<1>7. QED BY <1>2, <1>3, <1>4, <1>5, <1>6

\* A round without a batch.
LEMMA RoundStep ==
  ASSUME IInv, tr.pc = "select", NEW s \in [Roles -> Socket], After(s, {rot}),
         UNCHANGED <<venue, out, bell, owner, shard, command, reply, receipt, left>>
  PROVE IInv'
<1>1. TransportTypes /\ {rot} \in SUBSET {"low", "high", "confirmed"}
  BY DEF IInv, TransportTypes
<1>2. /\ sock' \in [Roles -> Socket] /\ rot' \in {"low", "high", "confirmed"}
      /\ tr' \in TransportState /\ tr'.pc \in {"select", "offer"}
      /\ tr'.tokens = tr.tokens /\ tr'.epoch = tr.epoch
  BY <1>1, AfterTypes
<1>3. TransportTypes' /\ OwnerTypes' /\ Membership'
  BY <1>1, <1>2, MembershipStays DEF IInv, TransportTypes, OwnerTypes
<1>4. QED BY <1>2, <1>3, TransportStep

LEMMA RoundSteps == ASSUME IInv, ControlTick \/ Prepared \/ StandbyArm PROVE IInv'
<1>1. /\ sock \in [Roles -> Socket] /\ sock.prep \in Socket /\ sock.ready \in Socket
      /\ NoSocket \in Socket
  BY NoSocketTypes DEF IInv, TransportTypes, Roles
<1>2. CASE ControlTick
  BY <1>1, <1>2, RoundStep DEF ControlTick, At
<1>3. CASE Prepared
  <2> DEFINE s == [sock EXCEPT !.prep = NoSocket]
  <2>1. s \in [Roles -> Socket]
    BY <1>1
  <2> HIDE DEF s
  <2>2. [s EXCEPT !.ready = sock.prep] \in [Roles -> Socket]
    BY <1>1, <2>1
  <2>3. /\ tr.pc = "select" /\ UNCHANGED <<venue, out, bell, owner, shard, command, reply, receipt, left>>
        /\ After(s, {rot}) \/ After([s EXCEPT !.ready = sock.prep], {rot})
    BY <1>3 DEF Prepared, At, s
  <2>4. QED BY <2>1, <2>2, <2>3, RoundStep
<1>4. CASE StandbyArm
  <2>1. tr.pc = "select" /\ UNCHANGED <<venue, out, bell, owner, shard, command, reply, receipt, left>>
    BY <1>4 DEF StandbyArm, At
  <2>2. CASE sock.ready.queue # <<>>
    <3> DEFINE f == Head(sock.ready.queue)
               s == [sock.ready EXCEPT !.queue = Tail(@)]
               next == IF ~Owned(f) THEN s
                       ELSE IF Retains(s, f) THEN Retained(s, f) ELSE NoSocket
    <3>1. f \in Frame /\ Tail(sock.ready.queue) \in Seq(Frame)
      BY <1>1, <2>2, HeadTailProperties DEF Socket
    <3>2. s \in Socket
      BY <1>1, <3>1 DEF Socket
    <3> HIDE DEF f, s
    <3>3. next \in Socket
      BY <1>1, <3>1, <3>2, RetainedTypes
    <3> HIDE DEF next
    <3>4. [sock EXCEPT !.ready = next] \in [Roles -> Socket]
      BY <1>1, <3>3
    <3>5. After([sock EXCEPT !.ready = next], {rot})
      BY <1>4, <2>2 DEF StandbyArm, next, s, f
    <3>6. QED BY <2>1, <3>4, <3>5, RoundStep
  <2>3. CASE sock.ready.queue = <<>>
    <3>1. [sock EXCEPT !.ready = NoSocket] \in [Roles -> Socket]
      BY <1>1
    <3>2. After([sock EXCEPT !.ready = NoSocket], {rot})
      BY <1>4, <2>3 DEF StandbyArm
    <3>3. QED BY <2>1, <3>1, <3>2, RoundStep
  <2>4. QED BY <2>2, <2>3
<1>5. QED BY <1>2, <1>3, <1>4

\* The connection ends; the gap is due.
LEMMA EndSteps == ASSUME IInv, ConnectFails \/ ActiveEnds PROVE IInv'
<1>1. /\ End(tr.tokens) /\ tr.pc \in {"connect", "select", "sending"}
      /\ UNCHANGED <<venue, rot, out, bell, owner, shard, command, reply, receipt>>
      /\ Faulty \/ UNCHANGED left
  BY DEF ConnectFails, ActiveEnds, At
<1>2. /\ tr' = [tr EXCEPT !.pc = "gap", !.held = NoFrame, !.tokens = tr.tokens]
      /\ tr \in TransportState /\ sock' \in [Roles -> Socket]
  BY <1>1, NoSocketTypes DEF End, IInv, TransportTypes
<1>3. /\ tr' \in TransportState /\ tr'.pc = "gap" /\ tr'.tokens = tr.tokens
      /\ tr'.epoch = tr.epoch
  BY <1>2 DEF TransportState
<1>4. left' \in [faults : Nat, pairs : SUBSET Pairs] /\ left'.pairs = left.pairs
  BY <1>1, FaultyLeft, LeftStays
<1>5. TransportTypes' /\ OwnerTypes' /\ Membership'
  BY <1>1, <1>2, <1>3, <1>4, MembershipStays DEF IInv, TransportTypes, OwnerTypes
<1>6. QED BY <1>1, <1>3, <1>4, <1>5, TransportStep

LEMMA UpdateRefusedStep == ASSUME IInv, UpdateRefused PROVE IInv'
<1>1. /\ sock' = DropStandby(sock) /\ rot' = "low" /\ reply' = "failed"
      /\ command' = NoCommand /\ command # NoCommand
      /\ UNCHANGED <<venue, tr, out, bell, owner, shard, receipt, left>>
  BY DEF UpdateRefused
<1>2. sock' \in [Roles -> Socket]
  BY <1>1, NoSocketTypes DEF IInv, TransportTypes, DropStandby
<1>3. TransportTypes' /\ OwnerTypes'
  <2>1. NoCommand \in [expected : SUBSET Tokens, target : SUBSET Tokens]
    BY DEF NoCommand
  <2>2. QED BY <1>1, <1>2, <2>1 DEF IInv, TransportTypes, OwnerTypes
<1>4. Membership'
  BY <1>1 DEF IInv, Membership
<1>5. QED BY <1>1, <1>3, <1>4, TransportStep

LEMMA ShutdownStep == ASSUME IInv, Shutdown PROVE IInv'
<1>1. /\ tr' = [tr EXCEPT !.pc = "stopped", !.held = NoFrame] /\ sock' = NoSockets
      /\ command' = NoCommand /\ rot' = "low" /\ tr \in TransportState
      /\ UNCHANGED <<venue, out, bell, owner, shard, reply, receipt, left>>
  BY DEF Shutdown, IInv, TransportTypes
<1>2. /\ tr' \in TransportState /\ tr'.pc = "stopped" /\ tr'.tokens = tr.tokens
      /\ tr'.epoch = tr.epoch
  BY <1>1 DEF TransportState
<1>3. TransportTypes' /\ OwnerTypes'
  <2>1. NoCommand \in [expected : SUBSET Tokens, target : SUBSET Tokens]
    BY DEF NoCommand
  <2>2. QED BY <1>1, <1>2, <2>1, NoSocketTypes DEF IInv, TransportTypes, OwnerTypes
<1>4. Membership'
  BY <1>1, <1>2 DEF IInv, Membership
<1>5. QED BY <1>1, <1>2, <1>3, <1>4, TransportStep

\* The next connection: every batch of the old one has its gap behind it.
LEMMA ConnectStep == ASSUME IInv, Connect PROVE IInv'
<1>1. /\ tr.pc = "connect" /\ tr' = [tr EXCEPT !.pc = "select", !.epoch = 1 - @] /\ rot' = "low"
      /\ sock' = [NoSockets EXCEPT !.active = NewSocket("pumped"), !.prep = NewSocket("seeding")]
      /\ UNCHANGED <<venue, out, bell, owner, shard, command, reply, receipt, left>>
      /\ tr \in TransportState
  BY DEF Connect, At, IInv, TransportTypes
<1>2. tr.epoch \in {0, 1} /\ 1 - tr.epoch \in {0, 1}
  BY <1>1 DEF TransportState
<1>3. /\ tr' \in TransportState /\ tr'.pc = "select" /\ tr'.tokens = tr.tokens
      /\ tr'.epoch = 1 - tr.epoch
  BY <1>1, <1>2 DEF TransportState
<1>4. TransportTypes' /\ OwnerTypes' /\ Membership'
  <2>1. NewSocket("pumped") \in Socket /\ NewSocket("seeding") \in Socket
    BY NewSocketTypes DEF IInv
  <2>2. sock' \in [Roles -> Socket]
    BY <1>1, <2>1, NoSocketTypes
  <2>3. QED BY <1>1, <1>3, <2>2, MembershipStays DEF IInv, TransportTypes, OwnerTypes
<1>5. Bell' /\ Fresh' /\ Fifo' /\ Reduction'
  BY <1>1, <1>3 DEF IInv, Bell, Fresh, Fifo, Reduction, Absent, Between, In, IsData, IsGap
<1>6. Reconnecting' /\ Checkpoints'
  BY <1>1, <1>3, NoReceipt DEF Reconnecting, Checkpoints
<1>7. Coming'
  <2>1. CASE out = <<>> /\ (tr.tokens \subseteq shard.tokens => owner.source = {})
    BY <1>1, <1>3, <2>1 DEF Coming
  <2>2. CASE out # <<>> /\ IsGap(out[Len(out)]) /\ out[Len(out)].source = tr.tokens
    <3>1. Len(out) \in Nat /\ Len(out) # 0
      BY <2>2, EmptySeq, LenProperties DEF IInv, TransportTypes
    <3>2. ASSUME NEW T, tr.tokens \subseteq T, NEW i \in 0..Len(out) - 1
          PROVE Between(i, Len(out) + 1, T)
      <4>1. Len(out) \in 1..Len(out) /\ i < Len(out) /\ Len(out) < Len(out) + 1
        BY <3>1
      <4>2. QED BY <2>2, <3>2, <4>1 DEF Between, In
    <3>3. \A i \in 1..Len(out) : i \in 0..Len(out) - 1 \/ ~IsData(out[i])
      BY <2>2, <3>1 DEF IsData, IsGap
    <3>4. 0 \in 0..Len(out) - 1
      BY <3>1
    <3>5. \A T : tr.tokens \subseteq T => \A i \in 1..Len(out) :
             IsData(out[i]) => Between(i, Len(out) + 1, T)
      BY <3>2, <3>3
    <3>6. tr.tokens \subseteq shard.tokens => Between(0, Len(out) + 1, shard.tokens)
      BY <3>2, <3>4
    <3>7. QED BY <1>1, <1>3, <3>5, <3>6 DEF Coming, Between, In, IsData, IsGap
  <2>3. QED BY <1>1, <2>1, <2>2 DEF IInv, Reconnecting
<1>8. QED BY <1>4, <1>5, <1>6, <1>7 DEF IInv

\* The FIFO is empty when the receipt arrives: what comes next is of the new socket.
LEMMA SwitchStep == ASSUME IInv, Switch PROVE IInv'
<1>1. /\ tr.pc = "await" /\ receipt # "none" /\ receipt' = "none" /\ tr \in TransportState
      /\ UNCHANGED <<venue, out, bell, owner, shard, command, reply, left>>
      /\ tr.epoch \in {0, 1} /\ sock.candidate \in Socket /\ sock \in [Roles -> Socket]
      /\ NoSocket \in Socket /\ NoSockets \in [Roles -> Socket] /\ Unknown \in [Tokens -> Nat]
  BY NoSocketTypes DEF Switch, At, IInv, TransportTypes, TransportState, Roles
<1>2. out = <<>> /\ (receipt = "committed" => owner.source \subseteq {1 - tr.epoch})
  BY <1>1 DEF IInv, Checkpoints
<1>3. Len(out) = 0
  BY <1>2
<1>4. /\ TransportTypes' /\ tr'.tokens = tr.tokens
      /\ \/ tr'.pc = "gap"
         \/ tr'.pc = "select" /\ receipt = "rejected" /\ tr'.epoch = tr.epoch
         \/ tr'.pc = "select" /\ receipt = "committed" /\ tr'.epoch = 1 - tr.epoch
  <2>1. CASE /\ receipt = "rejected" /\ UNCHANGED rot /\ tr' = [tr EXCEPT !.pc = "select"]
             /\ sock' = [sock EXCEPT !.candidate = NoSocket]
    <3>1. sock' \in [Roles -> Socket]
      BY <1>1, <2>1
    <3>2. tr' \in TransportState /\ tr'.pc = "select" /\ tr'.tokens = tr.tokens /\ tr'.epoch = tr.epoch
      BY <1>1, <2>1 DEF TransportState
    <3>3. QED BY <1>1, <2>1, <3>1, <3>2 DEF IInv, TransportTypes
  <2>2. CASE CandidateLost
    <3>1. /\ tr' = [tr EXCEPT !.pc = "gap", !.held = NoFrame, !.tokens = tr.tokens]
          /\ UNCHANGED rot /\ sock' = NoSockets
      BY <2>2 DEF CandidateLost, End
    <3>2. tr' \in TransportState /\ tr'.pc = "gap" /\ tr'.tokens = tr.tokens
      BY <1>1, <3>1 DEF TransportState
    <3>3. QED BY <1>1, <3>1, <3>2 DEF IInv, TransportTypes
  <2>3. CASE /\ receipt = "committed" /\ rot' = "low"
             /\ tr' = [tr EXCEPT !.pc = "select", !.epoch = 1 - @]
             /\ sock' = [NoSockets EXCEPT !.active =
                  [sock.candidate EXCEPT !.books = {}, !.view = Unknown, !.size = 0]]
    <3>1. [sock.candidate EXCEPT !.books = {}, !.view = Unknown, !.size = 0] \in Socket
      BY <1>1 DEF Socket
    <3>2. sock' \in [Roles -> Socket]
      BY <1>1, <2>3, <3>1
    <3>3. 1 - tr.epoch \in {0, 1}
      BY <1>1
    <3>4. /\ tr' \in TransportState /\ tr'.pc = "select" /\ tr'.tokens = tr.tokens
          /\ tr'.epoch = 1 - tr.epoch
      BY <1>1, <2>3, <3>3 DEF TransportState
    <3>5. QED BY <1>1, <2>3, <3>2, <3>4 DEF IInv, TransportTypes
  <2>4. QED BY <2>1, <2>2, <2>3 DEF Switch
<1>5. OwnerTypes' /\ Membership'
  BY <1>1, <1>4, MembershipStays DEF IInv, OwnerTypes
<1>6. Bell' /\ Fresh' /\ Fifo' /\ Reduction'
  BY <1>1, <1>4 DEF IInv, Bell, Fresh, Fifo, Reduction, Absent, Between, In, IsData, IsGap
<1>7. Reconnecting' /\ Checkpoints'
  BY <1>1, <1>2, <1>3, <1>4 DEF Reconnecting, Checkpoints
<1>8. Coming'
  <2>1. ~Between(0, Len(out) + 1, shard.tokens)
    BY <1>3 DEF Between
  <2>2. tr.tokens \subseteq shard.tokens /\ receipt = "rejected" => owner.source \subseteq {tr.epoch}
    BY <1>1, <2>1 DEF IInv, Coming, Running
  <2>3. tr'.pc = "select" /\ tr'.tokens \subseteq shard.tokens => owner.source \subseteq {tr'.epoch}
    BY <1>2, <1>4, <2>2
  <2>4. Running' => tr'.pc = "select"
    BY <1>4 DEF Running
  <2>5. QED BY <1>1, <1>3, <2>3, <2>4 DEF Coming
<1>9. QED BY <1>4, <1>5, <1>6, <1>7, <1>8 DEF IInv

\* A command is executed: no batch of the new pair is in the FIFO yet.
LEMMA UpdateSteps == ASSUME IInv, Update \/ UpdateFails PROVE IInv'
<1>1. /\ tr.pc = "select" /\ command # NoCommand /\ command.expected = tr.tokens
      /\ tr \in TransportState /\ command' = NoCommand
      /\ UNCHANGED <<venue, out, bell, owner, shard, receipt>>
      /\ rot' \in {"low", "high", "confirmed"} /\ reply' \in {"done", "failed"}
      /\ sock \in [Roles -> Socket]
      /\ command \in [expected : SUBSET Tokens, target : SUBSET Tokens]
  BY DEF Update, UpdateFails, Conflict, At, IInv, TransportTypes, OwnerTypes
<1>2. /\ command.expected = shard.tokens /\ command.target = shard.target /\ shard.pending
      /\ shard.target # {} /\ reply = "none" /\ tr.tokens = shard.tokens
      /\ command.target \in SUBSET Tokens /\ tr.tokens \in SUBSET Tokens
  <2>1. command = [expected |-> shard.tokens, target |-> shard.target]
    BY <1>1 DEF IInv, Membership
  <2>2. QED BY <1>1, <2>1 DEF IInv, Membership, TransportState
<1>3. /\ TransportTypes' /\ tr'.epoch = tr.epoch
      /\ \/ tr'.pc = "select" /\ tr'.tokens = shard.target /\ reply' = "done"
         \/ /\ tr'.pc = "gap" /\ reply' = "failed"
            /\ tr'.tokens \in {shard.target, shard.tokens \cup shard.target}
  <2>1. CASE Update
    <3>1. /\ tr' = [tr EXCEPT !.tokens = command.target] /\ reply' = "done"
          /\ sock' = [DropStandby(sock) EXCEPT !.active =
                        [@ EXCEPT !.sub = command.target, !.owed = command.target]]
      BY <2>1 DEF Update
    <3>2. DropStandby(sock) \in [Roles -> Socket] /\ DropStandby(sock).active \in Socket
      BY <1>1, NoSocketTypes DEF DropStandby, Roles
    <3>3. [DropStandby(sock).active EXCEPT !.sub = command.target, !.owed = command.target] \in Socket
      BY <1>2, <3>2 DEF Socket
    <3>4. sock' \in [Roles -> Socket]
      BY <3>1, <3>2, <3>3
    <3>5. /\ tr' \in TransportState /\ tr'.pc = "select" /\ tr'.tokens = shard.target
          /\ tr'.epoch = tr.epoch
      BY <1>1, <1>2, <3>1 DEF TransportState
    <3>6. QED BY <1>1, <3>1, <3>4, <3>5 DEF IInv, TransportTypes
  <2>2. CASE UpdateFails
    <3>1. PICK T \in {tr.tokens \cup command.target, command.target} : End(T)
      BY <2>2 DEF UpdateFails
    <3>2. /\ tr' = [tr EXCEPT !.pc = "gap", !.held = NoFrame, !.tokens = T]
          /\ sock' = NoSockets /\ T \in SUBSET Tokens /\ reply' = "failed"
      BY <1>2, <2>2, <3>1 DEF End, UpdateFails
    <3>3. tr' \in TransportState /\ tr'.pc = "gap" /\ tr'.tokens = T /\ tr'.epoch = tr.epoch
      BY <1>1, <3>2 DEF TransportState
    <3>4. QED BY <1>1, <1>2, <3>2, <3>3, NoSocketTypes DEF IInv, TransportTypes
  <2>3. QED BY <2>1, <2>2
<1>4. left' \in [faults : Nat, pairs : SUBSET Pairs] /\ left'.pairs = left.pairs
  BY FaultyLeft, LeftStays DEF Update, UpdateFails
<1>5. OwnerTypes'
  <2>1. NoCommand \in [expected : SUBSET Tokens, target : SUBSET Tokens]
    BY DEF NoCommand
  <2>2. QED BY <1>1, <1>4, <2>1 DEF IInv, OwnerTypes
<1>6. Membership'
  BY <1>1, <1>2, <1>3 DEF IInv, Membership
<1>7. ~(tr'.tokens \subseteq shard.tokens)
  BY <1>2, <1>3, Apart DEF IInv
<1>8. Bell' /\ Fresh' /\ Fifo' /\ Reduction'
  BY <1>1, <1>4, <1>7 DEF IInv, Bell, Fresh, Fifo, Reduction, Absent, Between, In, IsData, IsGap
<1>9. Reconnecting' /\ Checkpoints'
  BY <1>1, <1>3, NoReceipt DEF Reconnecting, Checkpoints
<1>10. Coming'
  <2>1. ASSUME Running', NEW T \in Pairs, tr'.tokens \subseteq T PROVE Absent(T)
    <3>1. tr'.tokens = shard.target /\ Absent(shard.target) /\ shard.target \in Pairs
      BY <1>2, <1>3, <2>1 DEF Running, IInv, Fresh, Membership
    <3>2. T = shard.target
      BY <2>1, <3>1, RotationAssumption
    <3>3. QED BY <3>1, <3>2
  <2>2. QED BY <1>1, <1>7, <2>1 DEF Coming, Absent, In
<1>11. QED BY <1>3, <1>5, <1>6, <1>8, <1>9, <1>10 DEF IInv

-----------------------------------------------------------------------------
(* The owner.                                                              *)

\* The owner's task moves without taking a batch, or the bell rings.
LEMMA BellSteps == ASSUME IInv, Signal \/ Wake \/ Consume \/ TakeNothing PROVE IInv'
<1>1. /\ UNCHANGED <<venue, sock, tr, rot, out, shard, command, reply, receipt, left>>
      /\ owner \in OwnerState /\ Bell
      /\ \/ owner' = owner \/ owner' = [owner EXCEPT !.pc = "woken"]
         \/ owner' = [owner EXCEPT !.pc = "take"] \/ owner' = [owner EXCEPT !.pc = "idle"]
  BY DEF Signal, Wake, Consume, TakeNothing, IInv, OwnerTypes
<1>2. owner' \in OwnerState /\ owner'.source = owner.source /\ owner'.mixed = owner.mixed
  BY <1>1 DEF OwnerState
<1>3. Bell'
  <2>1. CASE Signal
    BY <1>1, <2>1 DEF Bell, Signal, Rung
  <2>2. CASE Wake
    BY <1>1, <2>2 DEF Bell, Wake, OwnerState
  <2>3. CASE Consume
    BY <1>1, <2>3 DEF Bell, Consume, Consumed, OwnerState
  <2>4. CASE TakeNothing
    BY <1>1, <2>4 DEF Bell, TakeNothing, OwnerState
  <2>5. QED BY <2>1, <2>2, <2>3, <2>4
<1>4. TransportTypes' /\ OwnerTypes' /\ Membership'
  BY <1>1, <1>2, MembershipStays DEF IInv, TransportTypes, OwnerTypes
<1>5. Fresh' /\ Fifo' /\ Reduction' /\ Coming'
  BY <1>1, <1>2 DEF IInv, Fresh, Fifo, Reduction, Coming, Running, Absent, Between, In, IsData, IsGap
<1>6. Reconnecting' /\ Checkpoints'
  BY <1>1, <1>2 DEF IInv, Reconnecting, Checkpoints, IsGap
<1>7. QED BY <1>3, <1>4, <1>5, <1>6 DEF IInv

Popped == /\ out \in Seq(Entry) /\ out # <<>> /\ Len(out) \in Nat \ {0} /\ out' \in Seq(Entry)
          /\ Len(out') = Len(out) - 1 /\ \A i \in 1..Len(out') : out'[i] = out[i + 1]

\* A gap stays where it is relative to the batches behind it, unless it was the head.
LEMMA BetweenPopped ==
  ASSUME Popped
  PROVE /\ \A i, j \in Nat : \A T : i > 0 /\ Between(i, j, T) => Between(i - 1, j - 1, T)'
        /\ \A j \in Nat : \A T : ~(IsGap(out[1]) /\ In(out[1], T)) /\ Between(0, j, T)
              => Between(0, j - 1, T)'
<1>1. ASSUME NEW k \in 1..Len(out), k > 1 PROVE k - 1 \in 1..Len(out') /\ out'[k - 1] = out[k]
  BY <1>1 DEF Popped
<1>2. ASSUME NEW i \in Nat, NEW j \in Nat, NEW T, i > 0, Between(i, j, T)
      PROVE Between(i - 1, j - 1, T)'
  <2>1. PICK k \in 1..Len(out) : i < k /\ k < j /\ IsGap(out[k]) /\ In(out[k], T)
    BY <1>2 DEF Between
  <2>2. k > 1 /\ i - 1 < k - 1 /\ k - 1 < j - 1
    BY <1>2, <2>1 DEF Popped
  <2>3. QED BY <1>1, <2>1, <2>2 DEF Between, IsGap, In
<1>3. ASSUME NEW j \in Nat, NEW T, ~(IsGap(out[1]) /\ In(out[1], T)), Between(0, j, T)
      PROVE Between(0, j - 1, T)'
  <2>1. PICK k \in 1..Len(out) : k < j /\ IsGap(out[k]) /\ In(out[k], T)
    BY <1>3 DEF Between
  <2>2. k > 1 /\ 0 < k - 1 /\ k - 1 < j - 1
    <3>1. k # 1
      BY <1>3, <2>1
    <3>2. QED BY <2>1, <3>1 DEF Popped
  <2>3. QED BY <1>1, <2>1, <2>2 DEF Between, IsGap, In
<1>4. QED BY <1>2, <1>3

LEMMA TakeStep == ASSUME IInv, Take PROVE IInv'
<1> DEFINE e == out[1]
           f == e.frame
           routed == In(e, shard.tokens)
           back == [owner EXCEPT !.pc = "idle"]
<1>1. Popped /\ Head(out) = e /\ e \in Entry
  <2>1. out \in Seq(Entry) /\ out # <<>> /\ out' = Tail(out)
    BY DEF IInv, TransportTypes, Take
  <2>2. Len(out) \in Nat \ {0}
    BY <2>1, EmptySeq, LenProperties
  <2>3. /\ out' \in Seq(Entry) /\ Len(out') = Len(out) - 1
        /\ \A i \in 1..Len(out') : out'[i] = out[i + 1]
    BY <2>1, <2>2, HeadTailProperties
  <2>4. Head(out) = e /\ e \in Entry
    BY <2>1, <2>2, HeadTailProperties, ElementOfSeq
  <2>5. QED BY <2>1, <2>2, <2>3, <2>4 DEF Popped
<1>2. /\ owner.pc = "take" /\ owner \in OwnerState
      /\ UNCHANGED <<venue, sock, tr, rot, shard, command, reply>>
      /\ bell' = IF Len(out) > 1 THEN Rung(bell) ELSE bell
      /\ \/ /\ f.kind \in {"book", "delta"} /\ UNCHANGED <<receipt, left>>
            /\ owner' = IF routed THEN Reduce(f, e.epoch) ELSE back
         \/ /\ f.kind = "gap" /\ UNCHANGED <<receipt, left>>
            /\ owner' = IF routed THEN [back EXCEPT !.source = {}, !.view = Without(f.toks)]
                        ELSE back
         \/ /\ f.kind = "checkpoint" /\ routed /\ UNCHANGED left
            /\ receipt' = "committed"
            /\ owner' = [back EXCEPT !.source = {e.epoch}, !.view = f.view]
         \/ /\ f.kind = "checkpoint" /\ receipt' = "rejected" /\ owner' = back
            /\ Faulty \/ UNCHANGED left
  BY <1>1 DEF Take, In, IInv, OwnerTypes
<1>3. /\ e.epoch \in {0, 1} /\ f \in Frame \cup Checkpoint \cup Gap
      /\ e.source \in SUBSET Tokens
  BY <1>1 DEF Entry
<1>4. 1 \in 1..Len(out)
  BY <1>1 DEF Popped
<1> HIDE DEF e
\* What the owner reduces comes from the socket that its books follow.
<1>5. f.kind \in {"book", "delta"} /\ routed => owner.source \in {{}, {e.epoch}}
  <2>1. ~Between(0, 1, shard.tokens)
    BY DEF Between
  <2>2. QED BY <1>2, <1>4, <2>1 DEF IInv, Reduction, IsData, e
\* What each kind of batch does to the owner.
<1>6. /\ owner' \in OwnerState /\ owner'.pc = "idle" /\ owner'.mixed = FALSE
      /\ \/ f.kind \in {"book", "delta"} /\ routed /\ owner'.source = {e.epoch}
         \/ f.kind = "gap" /\ routed /\ owner'.source = {}
         \/ ~routed /\ owner'.source = owner.source
         \/ f.kind = "checkpoint" /\ receipt' = "committed" /\ owner'.source = {e.epoch}
         \/ f.kind = "checkpoint" /\ receipt' = "rejected" /\ owner'.source = owner.source
      /\ f.kind # "checkpoint" => receipt' = receipt
      /\ f.kind = "checkpoint" => receipt' \in {"committed", "rejected"}
  <2>1. /\ owner.mixed = FALSE /\ owner.view \in [Tokens -> Nat] /\ owner.skewed \in BOOLEAN
        /\ owner.source \in SUBSET {0, 1}
    BY <1>2 DEF IInv, Reduction, OwnerState
  <2>2. CASE f.kind \in {"book", "delta"} /\ routed
    <3>1. owner' = Reduce(f, e.epoch) /\ receipt' = receipt
      BY <1>2, <2>2
    <3>2. f \in Frame
      BY <1>3, <2>2 DEF Checkpoint, Gap
    <3>3. Reduced(owner.view, f) \in [Tokens -> Nat]
      BY <2>1, <3>2 DEF Reduced, Frame
    <3>4. OutOfOrder(owner.view, f) \in BOOLEAN
      BY DEF OutOfOrder
    <3>5. (owner.mixed \/ owner.source \notin {{}, {e.epoch}}) = FALSE
      BY <1>5, <2>1, <2>2
    <3>6. /\ owner' \in OwnerState /\ owner'.pc = "idle" /\ owner'.mixed = FALSE
          /\ owner'.source = {e.epoch}
      BY <1>2, <1>3, <2>1, <3>1, <3>3, <3>4, <3>5 DEF Reduce, OwnerState
    <3>7. QED BY <2>2, <3>1, <3>6
  <2>3. CASE f.kind = "gap" /\ routed
    <3>1. owner' = [back EXCEPT !.source = {}, !.view = Without(f.toks)] /\ receipt' = receipt
      BY <1>2, <2>3
    <3>2. Without(f.toks) \in [Tokens -> Nat]
      BY <2>1 DEF Without
    <3>3. QED BY <1>2, <2>1, <2>3, <3>1, <3>2 DEF OwnerState
  <2>4. CASE f.kind = "checkpoint" /\ receipt' = "committed"
             /\ owner' = [back EXCEPT !.source = {e.epoch}, !.view = f.view]
    <3>1. f.view \in [Tokens -> Nat]
      BY <1>3, <2>4 DEF Frame, Gap, Checkpoint
    <3>2. QED BY <1>2, <1>3, <2>1, <2>4, <3>1 DEF OwnerState
  <2>5. CASE \/ ~routed /\ owner' = back
             \/ f.kind = "checkpoint" /\ receipt' = "rejected" /\ owner' = back
    <3>1. /\ owner' \in OwnerState /\ owner'.pc = "idle" /\ owner'.mixed = FALSE
          /\ owner'.source = owner.source
      BY <1>2, <2>1, <2>5 DEF OwnerState
    <3>2. /\ f.kind # "checkpoint" => receipt' = receipt
          /\ f.kind = "checkpoint" => receipt' \in {"committed", "rejected"}
      BY <1>2
    <3>3. QED BY <2>5, <3>1, <3>2
  <2>6. \/ f.kind \in {"book", "delta"} /\ routed
        \/ f.kind = "gap" /\ routed
        \/ /\ f.kind = "checkpoint" /\ receipt' = "committed"
           /\ owner' = [back EXCEPT !.source = {e.epoch}, !.view = f.view]
        \/ ~routed /\ owner' = back
        \/ f.kind = "checkpoint" /\ receipt' = "rejected" /\ owner' = back
    <3> HIDE DEF back, routed, f
    <3>1. QED BY <1>2
  <2> HIDE DEF back, routed, f
  <2>7. QED BY <2>2, <2>3, <2>4, <2>5, <2>6
<1>7. left' \in [faults : Nat, pairs : SUBSET Pairs] /\ left'.pairs = left.pairs
  BY <1>2, FaultyLeft, LeftStays
<1>8. TransportTypes' /\ OwnerTypes' /\ Membership'
  BY <1>1, <1>2, <1>6, <1>7, MembershipStays DEF IInv, TransportTypes, OwnerTypes, Popped
<1>9. Bell'
  <2>1. Len(out) > 1 \/ out' = <<>>
    BY <1>1, EmptySeq DEF Popped
  <2>2. QED BY <1>2, <1>6, <2>1 DEF IInv, Bell, Rung
<1>10. Fresh'
  <2>1. \A T : Absent(T) => Absent(T)'
    BY <1>1 DEF Absent, Popped, In
  <2>2. QED BY <1>2, <1>7, <2>1 DEF IInv, Fresh
<1>11. \A i \in 1..Len(out') : i + 1 \in 1..Len(out) /\ out'[i] = out[i + 1] /\ i + 1 > 0 /\ (i + 1) - 1 = i
  BY <1>1 DEF Popped
<1>12. Fifo'
  <2> SUFFICES ASSUME NEW T \in Pairs, NEW i \in 1..Len(out'), NEW j \in 1..Len(out'), i < j,
                      IsData(out'[i]), IsData(out'[j]), In(out'[i], T), In(out'[j], T)
               PROVE out'[i].epoch = out'[j].epoch \/ Between(i, j, T)'
    BY DEF Fifo, IsData, In
  <2>1. out[i + 1].epoch = out[j + 1].epoch \/ Between(i + 1, j + 1, T)
    <3>1. i + 1 < j + 1
      OBVIOUS
    <3>2. QED BY <1>11, <3>1 DEF IInv, Fifo
  <2>2. Between(i + 1, j + 1, T) => Between(i, j, T)'
    <3>1. Between(i + 1, j + 1, T) => Between((i + 1) - 1, (j + 1) - 1, T)'
      BY <1>1, <1>11, BetweenPopped
    <3>2. QED BY <1>11, <3>1
  <2>3. QED BY <1>11, <2>1, <2>2
\* The books and a batch that waits.
<1>13. Reduction'
  <2> SUFFICES ASSUME NEW i \in 1..Len(out'), IsData(out'[i]), In(out'[i], shard.tokens)
               PROVE owner'.source \subseteq {out'[i].epoch} \/ Between(0, i, shard.tokens)'
    BY <1>2, <1>6 DEF IInv, Reduction, IsData, In
  <2>1. /\ IsData(out[i + 1]) /\ In(out[i + 1], shard.tokens) /\ out'[i] = out[i + 1]
        /\ i + 1 \in 1..Len(out)
    BY <1>11
  <2>2. CASE f.kind \in {"book", "delta"} /\ routed /\ owner'.source = {e.epoch}
    <3>1. e.epoch = out[i + 1].epoch \/ Between(1, i + 1, shard.tokens)
      <4>1. 1 < i + 1 /\ IsData(e) /\ In(e, shard.tokens)
        BY <2>2 DEF IsData
      <4>2. shard.tokens \in Pairs
        BY DEF IInv, Membership
      <4>3. QED BY <1>4, <2>1, <4>1, <4>2 DEF IInv, Fifo, e
    <3>2. Between(1, i + 1, shard.tokens) => Between(1 - 1, (i + 1) - 1, shard.tokens)'
      <4>1. 1 \in Nat /\ i + 1 \in Nat /\ 1 > 0 /\ shard'.tokens = shard.tokens
        BY <1>2
      <4>2. QED BY <1>1, <4>1, BetweenPopped
    <3>3. 1 - 1 = 0 /\ (i + 1) - 1 = i
      OBVIOUS
    <3>4. QED BY <2>1, <2>2, <3>1, <3>2, <3>3
  <2>3. CASE owner'.source = {}
    BY <2>3
  <2>4. CASE ~routed /\ owner'.source = owner.source
    <3>1. owner.source \subseteq {out[i + 1].epoch} \/ Between(0, i + 1, shard.tokens)
      BY <2>1 DEF IInv, Reduction
    <3>2. Between(0, i + 1, shard.tokens) => Between(0, (i + 1) - 1, shard.tokens)'
      BY <1>1, <1>2, <2>4, BetweenPopped DEF e
    <3>3. (i + 1) - 1 = i
      OBVIOUS
    <3>4. QED BY <2>1, <2>4, <3>1, <3>2, <3>3
  <2>5. CASE f.kind = "checkpoint"
    <3>1. 1 = Len(out)
      BY <1>4, <2>5 DEF IInv, Checkpoints, e
    <3>2. QED BY <1>1, <3>1 DEF Popped
  <2>6. QED BY <1>6, <2>2, <2>3, <2>4, <2>5
\* The books and the next batch.
<1>14. Coming'
  <2>1. ASSUME Running, NEW T \in Pairs, tr.tokens \subseteq T, NEW i \in 1..Len(out'),
               IsData(out'[i]), In(out'[i], T)
        PROVE out'[i].epoch = tr.epoch \/ Between(i, Len(out) + 1, T)'
    <3>1. out[i + 1].epoch = tr.epoch \/ Between(i + 1, Len(out) + 1, T)
      BY <1>11, <2>1 DEF IInv, Coming
    <3>2. Len(out) + 1 \in Nat /\ (Len(out) + 1) - 1 = Len(out') + 1
      BY <1>1 DEF Popped
    <3>3. Between(i + 1, Len(out) + 1, T) => Between(i, Len(out) + 1, T)'
      <4>1. \A j \in Nat : Between(i + 1, j, T) => Between((i + 1) - 1, j - 1, T)'
        BY <1>1, <1>11, BetweenPopped
      <4>2. \A j \in Nat : j - 1 = Len(out') + 1 =>
               (Between(i, j - 1, T)' => Between(i, Len(out) + 1, T)')
        BY DEF Between
      <4>3. QED BY <1>11, <3>2, <4>1, <4>2
    <3>4. QED BY <1>11, <3>1, <3>3
  <2>2. ASSUME Running, receipt' # "committed", tr.tokens \subseteq shard.tokens
        PROVE owner'.source \subseteq {tr.epoch} \/ Between(0, Len(out) + 1, shard.tokens)'
    <3>1. Len(out) + 1 \in Nat /\ (Len(out) + 1) - 1 = Len(out') + 1
      BY <1>1 DEF Popped
    <3>2. shard.tokens \in Pairs /\ receipt # "committed"
      BY <1>1 DEF IInv, Membership, Checkpoints, Popped
    <3>3. CASE f.kind \in {"book", "delta"} /\ routed /\ owner'.source = {e.epoch}
      <4>1. e.epoch = tr.epoch \/ Between(1, Len(out) + 1, shard.tokens)
        BY <1>4, <2>2, <3>2, <3>3 DEF IInv, Coming, IsData, e
      <4>2. \A j \in Nat : Between(1, j, shard.tokens) => Between(1 - 1, j - 1, shard.tokens)'
        <5>1. 1 \in Nat /\ 1 > 0 /\ shard'.tokens = shard.tokens
          BY <1>2
        <5>2. QED BY <1>1, <5>1, BetweenPopped
      <4>3. \A j \in Nat : j - 1 = Len(out') + 1 =>
               (Between(0, j - 1, shard.tokens)' => Between(0, Len(out) + 1, shard.tokens)')
        BY <1>2 DEF Between
      <4>4. 1 - 1 = 0
        OBVIOUS
      <4>5. QED BY <3>1, <3>3, <4>1, <4>2, <4>3, <4>4
    <3>4. CASE owner'.source = {}
      BY <3>4
    <3>5. CASE ~(IsGap(e) /\ routed) /\ owner'.source = owner.source
      <4>1. owner.source \subseteq {tr.epoch} \/ Between(0, Len(out) + 1, shard.tokens)
        BY <2>2, <3>2 DEF IInv, Coming
      <4>2. \A j \in Nat : Between(0, j, shard.tokens) => Between(0, j - 1, shard.tokens)'
        BY <1>1, <1>2, <3>5, BetweenPopped DEF e
      <4>3. \A j \in Nat : j - 1 = Len(out') + 1 =>
               (Between(0, j - 1, shard.tokens)' => Between(0, Len(out) + 1, shard.tokens)')
        BY <1>2 DEF Between
      <4>4. QED BY <3>1, <3>5, <4>1, <4>2, <4>3
    <3>6. QED BY <1>6, <2>2, <3>3, <3>4, <3>5 DEF IsGap
  <2>3. QED BY <1>2, <2>1, <2>2 DEF Coming, Running, In, IsData
<1>15. Reconnecting'
  <2> SUFFICES ASSUME tr.pc = "connect"
               PROVE \/ out' = <<>> /\ (tr.tokens \subseteq shard.tokens => owner'.source = {})
                     \/ out' # <<>> /\ IsGap(out'[Len(out')]) /\ out'[Len(out')].source = tr.tokens
    BY <1>2 DEF Reconnecting, IsGap
  <2>1. IsGap(out[Len(out)]) /\ out[Len(out)].source = tr.tokens
    BY <1>1 DEF IInv, Reconnecting, Popped
  <2>2. CASE Len(out) = 1
    <3>1. out' = <<>>
      BY <1>1, <2>2, EmptySeq DEF Popped
    <3>2. f.kind = "gap" /\ e.source = tr.tokens
      BY <2>1, <2>2 DEF IsGap, e
    <3>3. QED BY <1>6, <3>1, <3>2 DEF In
  <2>3. CASE Len(out) # 1
    <3>1. Len(out') \in 1..Len(out') /\ Len(out') + 1 = Len(out)
      BY <1>1, <2>3 DEF Popped
    <3>2. out' # <<>>
      BY <3>1
    <3>3. QED BY <1>11, <2>1, <3>1, <3>2
  <2>4. QED BY <2>2, <2>3
<1>16. Checkpoints'
  <2>1. CASE f.kind = "checkpoint"
    <3>1. 1 = Len(out) /\ tr.pc \in {"await", "stopped"} /\ e.epoch = 1 - tr.epoch
      BY <1>4, <2>1 DEF IInv, Checkpoints, e
    <3>2. Len(out') = 0 /\ out' = <<>>
      BY <1>1, <3>1, EmptySeq DEF Popped
    <3>3. receipt' = "committed" => owner'.source = {e.epoch}
      BY <1>2, <1>6, <2>1
    <3>4. QED BY <1>2, <3>1, <3>2, <3>3 DEF Checkpoints
  <2>2. CASE f.kind # "checkpoint"
    <3>1. receipt' = receipt /\ receipt = "none"
      BY <1>1, <1>6, <2>2 DEF IInv, Checkpoints, Popped
    <3>2. \A i \in 1..Len(out') : i + 1 = Len(out) => i = Len(out')
      BY <1>1 DEF Popped
    <3>3. QED BY <1>2, <1>11, <3>1, <3>2 DEF IInv, Checkpoints
  <2>3. QED BY <2>1, <2>2
<1>17. QED BY <1>8, <1>9, <1>10, <1>12, <1>13, <1>14, <1>15, <1>16 DEF IInv

-----------------------------------------------------------------------------
(* The shard.                                                              *)

\* A pair is asked for: one that the FIFO does not hold.
LEMMA ReplaceStep == ASSUME IInv, NEW P \in Pairs, Replace(P) PROVE IInv'
<1>1. /\ P \in left.pairs /\ left' = [left EXCEPT !.pairs = @ \ {P}]
      /\ shard.target = {} /\ command = NoCommand
      /\ shard' = [shard EXCEPT !.target = P, !.pending = TRUE]
      /\ command' = [expected |-> shard.tokens, target |-> P]
      /\ UNCHANGED <<venue, sock, tr, rot, out, bell, owner, reply, receipt>>
      /\ shard \in [tokens : SUBSET Tokens, target : SUBSET Tokens, pending : BOOLEAN]
      /\ left \in [faults : Nat, pairs : SUBSET Pairs]
  BY DEF Replace, IInv, OwnerTypes
<1>2. P \in SUBSET Tokens /\ P # {}
  BY RotationAssumption DEF Tokens
<1>3. /\ shard' \in [tokens : SUBSET Tokens, target : SUBSET Tokens, pending : BOOLEAN]
      /\ shard'.tokens = shard.tokens /\ shard'.target = P /\ shard'.pending = TRUE
  BY <1>1, <1>2
<1>4. left' \in [faults : Nat, pairs : SUBSET Pairs] /\ left'.pairs = left.pairs \ {P}
  BY <1>1
<1>5. shard.tokens \in Pairs /\ tr.tokens = shard.tokens /\ reply = "none" /\ P # shard.tokens
  BY <1>1 DEF IInv, Membership, Fresh
<1>6. TransportTypes' /\ OwnerTypes' /\ Membership'
  <2>1. command' \in [expected : SUBSET Tokens, target : SUBSET Tokens]
    BY <1>1, <1>2
  <2>2. TransportTypes' /\ OwnerTypes'
    BY <1>1, <1>3, <1>4, <2>1 DEF IInv, TransportTypes, OwnerTypes
  <2>3. tr'.tokens = shard.tokens /\ tr'.tokens # {}
    BY <1>1, <1>5, RotationAssumption
  <2>4. QED BY <1>1, <1>2, <1>3, <1>5, <2>2, <2>3 DEF Membership
<1>7. Fresh'
  BY <1>1, <1>3, <1>4 DEF IInv, Fresh, Absent, In
<1>8. Bell' /\ Fifo' /\ Reduction' /\ Coming'
  BY <1>1, <1>3 DEF IInv, Bell, Fifo, Reduction, Coming, Running, Between, In, IsData, IsGap
<1>9. Reconnecting' /\ Checkpoints'
  BY <1>1, <1>3 DEF IInv, Reconnecting, Checkpoints, IsGap
<1>10. QED BY <1>6, <1>7, <1>8, <1>9 DEF IInv

LEMMA PollRetirementsStep == ASSUME IInv, PollRetirements PROVE IInv'
<1>1. /\ shard.target # {} /\ owner.pc = "idle"
      /\ UNCHANGED <<venue, sock, tr, rot, out, bell, receipt, left>>
      /\ shard \in [tokens : SUBSET Tokens, target : SUBSET Tokens, pending : BOOLEAN]
      /\ owner \in OwnerState
  BY DEF PollRetirements, IInv, OwnerTypes
<1>2. CASE /\ ~shard.pending /\ command = NoCommand /\ shard' = [shard EXCEPT !.pending = TRUE]
           /\ command' = [expected |-> shard.tokens, target |-> shard.target]
           /\ UNCHANGED <<owner, reply>>
  <2>1. /\ shard' \in [tokens : SUBSET Tokens, target : SUBSET Tokens, pending : BOOLEAN]
        /\ shard'.tokens = shard.tokens /\ shard'.target = shard.target /\ shard'.pending = TRUE
    BY <1>1, <1>2
  <2>2. TransportTypes' /\ OwnerTypes' /\ Membership'
    <3>1. command' \in [expected : SUBSET Tokens, target : SUBSET Tokens]
      BY <1>1, <1>2
    <3>2. TransportTypes' /\ OwnerTypes'
      BY <1>1, <1>2, <2>1, <3>1 DEF IInv, TransportTypes, OwnerTypes
    <3>3. QED BY <1>1, <1>2, <2>1, <3>2 DEF IInv, Membership
  <2>3. Fresh' /\ Bell' /\ Fifo' /\ Reduction' /\ Coming'
    BY <1>1, <1>2, <2>1 DEF IInv, Bell, Fresh, Fifo, Reduction, Coming, Running, Absent,
       Between, In, IsData, IsGap
  <2>4. Reconnecting' /\ Checkpoints'
    BY <1>1, <1>2, <2>1 DEF IInv, Reconnecting, Checkpoints, IsGap
  <2>5. QED BY <2>2, <2>3, <2>4 DEF IInv
<1>3. CASE /\ shard.pending /\ reply = "failed" /\ reply' = "none"
           /\ shard' = [shard EXCEPT !.pending = FALSE] /\ UNCHANGED <<owner, command>>
  <2>1. /\ shard' \in [tokens : SUBSET Tokens, target : SUBSET Tokens, pending : BOOLEAN]
        /\ shard'.tokens = shard.tokens /\ shard'.target = shard.target /\ shard'.pending = FALSE
    BY <1>1, <1>3
  <2>2. TransportTypes' /\ OwnerTypes' /\ Membership'
    BY <1>1, <1>3, <2>1 DEF IInv, TransportTypes, OwnerTypes, Membership
  <2>3. Fresh' /\ Bell' /\ Fifo' /\ Reduction' /\ Coming'
    BY <1>1, <1>3, <2>1 DEF IInv, Bell, Fresh, Fifo, Reduction, Coming, Running, Absent,
       Between, In, IsData, IsGap
  <2>4. Reconnecting' /\ Checkpoints'
    BY <1>1, <1>3, <2>1 DEF IInv, Reconnecting, Checkpoints, IsGap
  <2>5. QED BY <2>2, <2>3, <2>4 DEF IInv
\* The owner starts the books of the new pair anew.
<1>4. CASE /\ shard.pending /\ reply = "done" /\ reply' = "none"
           /\ shard' = [tokens |-> shard.target, target |-> {}, pending |-> FALSE]
           /\ owner' = [owner EXCEPT !.view = Unknown, !.source = {}] /\ UNCHANGED command
  <2>1. /\ shard' \in [tokens : SUBSET Tokens, target : SUBSET Tokens, pending : BOOLEAN]
        /\ shard'.tokens = shard.target /\ shard'.target = {} /\ shard'.pending = FALSE
    BY <1>1, <1>4
  <2>2. /\ owner' \in OwnerState /\ owner'.source = {} /\ owner'.mixed = owner.mixed
        /\ owner'.pc = owner.pc
    BY <1>1, <1>4, NoSocketTypes DEF OwnerState
  <2>3. /\ shard.target \in Pairs /\ tr.tokens = shard.target /\ command = NoCommand
        /\ shard.target # {}
    BY <1>1, <1>4 DEF IInv, Membership
  <2>4. TransportTypes' /\ OwnerTypes' /\ Membership'
    <3>1. TransportTypes' /\ OwnerTypes'
      BY <1>1, <1>4, <2>1, <2>2 DEF IInv, TransportTypes, OwnerTypes
    <3>2. QED BY <1>1, <1>4, <2>1, <2>3, <3>1 DEF Membership
  <2>5. Fresh'
    <3>1. \A T \in left.pairs : T # {}
      BY RotationAssumption DEF IInv, OwnerTypes
    <3>2. QED BY <1>1, <2>1, <2>3, <3>1 DEF IInv, Fresh, Absent, In
  <2>6. Bell'
    BY <1>1, <2>2 DEF IInv, Bell
  <2>7. Fifo' /\ Reduction' /\ Coming'
    BY <1>1, <2>1, <2>2 DEF IInv, Fifo, Reduction, Coming, Running, Between, In, IsData, IsGap
  <2>8. Reconnecting' /\ Checkpoints'
    BY <1>1, <2>1, <2>2 DEF IInv, Reconnecting, Checkpoints, IsGap
  <2>9. QED BY <2>4, <2>5, <2>6, <2>7, <2>8 DEF IInv
<1>5. QED BY <1>2, <1>3, <1>4 DEF PollRetirements

LEMMA ShardRestartsStep == ASSUME IInv, ShardRestarts PROVE IInv'
<1>1. /\ owner.pc = "idle" /\ sock' = NoSockets /\ rot' = "low" /\ Faulty
      /\ tr' = [tr EXCEPT !.pc = "connect", !.tokens = shard.tokens, !.held = NoFrame]
      /\ out' = <<>> /\ bell' = NoBell
      /\ owner' = [owner EXCEPT !.view = Unknown, !.source = {}]
      /\ shard' = [shard EXCEPT !.pending = FALSE]
      /\ command' = NoCommand /\ reply' = "none" /\ receipt' = "none"
      /\ UNCHANGED venue
      /\ shard \in [tokens : SUBSET Tokens, target : SUBSET Tokens, pending : BOOLEAN]
      /\ owner \in OwnerState /\ tr \in TransportState
  BY DEF ShardRestarts, IInv, OwnerTypes, TransportTypes
<1>2. /\ shard' \in [tokens : SUBSET Tokens, target : SUBSET Tokens, pending : BOOLEAN]
      /\ shard'.tokens = shard.tokens /\ shard'.target = shard.target /\ shard'.pending = FALSE
  BY <1>1
<1>3. /\ owner' \in OwnerState /\ owner'.source = {} /\ owner'.mixed = owner.mixed
      /\ owner'.pc = "idle"
  BY <1>1, NoSocketTypes DEF OwnerState
<1>4. tr' \in TransportState /\ tr'.pc = "connect" /\ tr'.tokens = shard.tokens
  BY <1>1 DEF TransportState
<1>5. left' \in [faults : Nat, pairs : SUBSET Pairs] /\ left'.pairs = left.pairs
  BY <1>1, FaultyLeft
<1>6. TransportTypes' /\ OwnerTypes'
  <2>1. <<>> \in Seq(Entry) /\ NoCommand \in [expected : SUBSET Tokens, target : SUBSET Tokens]
    BY DEF NoCommand
  <2>2. QED BY <1>1, <1>2, <1>3, <1>4, <1>5, <2>1, NoSocketTypes
            DEF IInv, TransportTypes, OwnerTypes
<1>7. Membership'
  <2>1. shard.tokens # {}
    BY RotationAssumption DEF IInv, Membership
  <2>2. QED BY <1>1, <1>2, <1>4, <2>1 DEF IInv, Membership
<1>8. Len(out') = 0
  BY <1>1
<1>9. Fresh' /\ Bell'
  BY <1>1, <1>2, <1>3, <1>5, <1>8 DEF IInv, Bell, NoBell, Fresh, Absent
<1>10. Fifo' /\ Reduction' /\ Coming'
  BY <1>3, <1>4, <1>8 DEF IInv, Fifo, Reduction, Coming, Running
<1>11. Reconnecting' /\ Checkpoints'
  BY <1>1, <1>3, <1>8 DEF Reconnecting, Checkpoints
<1>12. QED BY <1>6, <1>7, <1>9, <1>10, <1>11 DEF IInv

-----------------------------------------------------------------------------
(* Every step, and the theorems.                                           *)

LEMMA InitIInv == Init => IInv
<1> SUFFICES ASSUME Init PROVE IInv
  OBVIOUS
<1>1. Initial \in Pairs /\ Initial # {} /\ Initial \in SUBSET Tokens /\ MaxFaults \in Nat
  BY RotationAssumption DEF Tokens
<1>2. TransportTypes /\ OwnerTypes
  <2>1. <<>> \in Seq(Entry)
    OBVIOUS
  <2>2. TransportTypes
    BY <1>1, <2>1, NoSocketTypes DEF Init, TransportTypes, TransportState
  <2>3. OwnerTypes
    BY <1>1, NoSocketTypes DEF Init, OwnerTypes, OwnerState, NoCommand
  <2>4. QED BY <2>2, <2>3
<1>3. Membership
  BY <1>1 DEF Init, Membership
<1>4. Len(out) = 0
  BY DEF Init
<1>5. Fresh /\ Bell
  <2>1. \A T \in Pairs : T # {}
    BY RotationAssumption
  <2>2. Fresh
    BY <1>1, <1>4, <2>1 DEF Init, Fresh, Absent
  <2>3. QED BY <2>2 DEF Init, Bell, NoBell
<1>6. Fifo /\ Reduction /\ Coming
  BY <1>4 DEF Init, Fifo, Reduction, Coming, Running
<1>7. Reconnecting /\ Checkpoints
  BY <1>4 DEF Init, Reconnecting, Checkpoints
<1>8. QED BY <1>2, <1>3, <1>5, <1>6, <1>7 DEF IInv

LEMMA NextIInv == IInv /\ [Next]_vars => IInv'
<1> SUFFICES ASSUME IInv, [Next]_vars PROVE IInv'
  OBVIOUS
<1>1. CASE VenueUpdates \/ Seed \/ SeedFails \/ (\E r \in Roles : Receive(r) \/ SocketEnds(r))
  BY <1>1, ReaderSteps
<1>2. CASE Connect
  BY <1>2, ConnectStep
<1>3. CASE ConnectFails \/ ActiveEnds
  BY <1>3, EndSteps
<1>4. CASE TakeActive
  BY <1>4, TakeActiveStep
<1>5. CASE Publish
  BY <1>5, PublishStep
<1>6. CASE ControlTick \/ Prepared \/ StandbyArm
  BY <1>6, RoundSteps
<1>7. CASE Offer
  BY <1>7, OfferStep
<1>8. CASE Switch
  BY <1>8, SwitchStep
<1>9. CASE PublishGap
  BY <1>9, PublishGapStep
<1>10. CASE UpdateRefused
  BY <1>10, UpdateRefusedStep
<1>11. CASE Update \/ UpdateFails
  BY <1>11, UpdateSteps
<1>12. CASE Shutdown
  BY <1>12, ShutdownStep
<1>13. CASE Signal \/ Wake \/ Consume \/ TakeNothing
  BY <1>13, BellSteps
<1>14. CASE Take
  BY <1>14, TakeStep
<1>15. ASSUME NEW P \in Pairs, Replace(P) PROVE IInv'
  BY <1>15, ReplaceStep
<1>16. CASE PollRetirements
  BY <1>16, PollRetirementsStep
<1>17. CASE ShardRestarts
  BY <1>17, ShardRestartsStep
<1>18. CASE UNCHANGED vars
  <2>1. /\ UNCHANGED <<venue, sock, tr, rot, out, bell, owner, shard, command, reply, receipt>>
        /\ UNCHANGED left /\ sock' \in [Roles -> Socket] /\ venue' \in Nat
    BY <1>18 DEF vars, IInv, TransportTypes
  <2>2. QED BY <2>1, SocketStep, LeftStays
<1>19. QED
  BY <1>1, <1>2, <1>3, <1>4, <1>5, <1>6, <1>7, <1>8, <1>9, <1>10, <1>11, <1>12, <1>13, <1>14,
     <1>15, <1>16, <1>17, <1>18 DEF Next

LEMMA SpecIInv == Spec => []IInv
BY InitIInv, NextIInv, PTL DEF Spec

\* TransportReadyHandle with take_ready: the swap of the flag, the send of the id, its
\* receipt and the clearing of the flag interleave in any way with pushes and takes, and
\* still no batch waits for an owner that sleeps unannounced, whatever the capacities.
THEOREM AlwaysSignalled == Spec => []ReadyIsSignalled
<1>1. IInv => ReadyIsSignalled
  BY DEF IInv, Bell, ReadyIsSignalled
<1>2. QED BY <1>1, SpecIInv, PTL

\* run_rotating_connection, publish_connection_gaps and the routing of a batch: for every
\* set of pairs, every number of faults and every capacity, the owner reduces no frame of
\* another socket than the one its books follow, unless a gap or a committed checkpoint
\* of its pair came between.
THEOREM NeverASilentSwitch == Spec => []NoSilentSwitch
<1>1. IInv => NoSilentSwitch
  BY DEF IInv, Reduction, NoSilentSwitch
<1>2. QED BY <1>1, SpecIInv, PTL
-----------------------------------------------------------------------------
(* Updates in order.                                                       *)
(*                                                                         *)
(* Every stream of one pair is a line of versions: a book repeats the      *)
(* version before it, an update is the next one (Step).  The invariant     *)
(* lays these lines end to end: from the owner's books through the batches *)
(* that it will reduce (Delivers), and on through the frame in the hands   *)
(* of the transport and the queue of the active socket to the last update  *)
(* that socket was sent (Leads, Chain).  A gap begins a new line, because  *)
(* the owner forgets its books there.  The books of a standby are the      *)
(* beginning of a line of their own, through its queue to its last update  *)
(* (StandbySound); a checkpoint is one of these books (Handoff), so a      *)
(* committed one puts the owner at the beginning of the next active line.  *)
(* The line of the pair that a replacement is about is kept from the       *)
(* moment it is asked for, from no books at all.                           *)

Step(f, T, a, b) ==
    IF f.toks \cap T = {} THEN b = a
    ELSE \/ f.kind = "book" /\ f.toks \subseteq T /\ f.ver = a /\ b = a
         \/ f.kind = "delta" /\ f.toks = T /\ f.ver = a + 1 /\ b = a + 1

Leads(q, T, a, b) ==
    \E h \in [0..Len(q) -> Nat] :
        h[0] = a /\ h[Len(q)] = b /\ \A i \in 1..Len(q) : Step(q[i], T, h[i - 1], h[i])

\* Books of T at the version v, as far as there are any.
Holds(view, T, v) == \A t \in T : view[t] \in {0, v}

Routed(e, T, a, b) ==
    IF ~In(e, T) THEN b = a
    ELSE \/ IsData(e) /\ e.frame.toks \cap T # {} /\ Step(e.frame, T, a, b)
         \/ IsGap(e) /\ e.frame.toks = T
         \/ e.frame.kind = "checkpoint" /\ b = a /\ \E v \in Nat : Holds(e.frame.view, T, v)

Delivers(q, T, a, b) ==
    \E h \in [0..Len(q) -> Nat] :
        h[0] = a /\ h[Len(q)] = b /\ \A i \in 1..Len(q) : Routed(q[i], T, h[i - 1], h[i])

LEMMA LeadsNone ==
  /\ \A T, a : a \in Nat => Leads(<<>>, T, a, a)
  /\ \A T, a, b : Leads(<<>>, T, a, b) => a = b
<1>1. Len(<<>>) = 0
  OBVIOUS
<1>2. ASSUME NEW T, NEW a \in Nat PROVE Leads(<<>>, T, a, a)
  <2> DEFINE h == [i \in 0..0 |-> a]
  <2>1. h \in [0..0 -> Nat] /\ h[0] = a
    OBVIOUS
  <2> HIDE DEF h
  <2>2. QED BY <1>1, <2>1 DEF Leads
<1>3. QED BY <1>1, <1>2 DEF Leads

LEMMA LeadsAppend ==
  ASSUME NEW q \in Seq(Frame), NEW f \in Frame, NEW T, NEW a \in Nat, NEW b \in Nat,
         NEW c \in Nat, Leads(q, T, a, b), Step(f, T, b, c)
  PROVE Leads(Append(q, f), T, a, c)
<1>1. PICK h \in [0..Len(q) -> Nat] :
        h[0] = a /\ h[Len(q)] = b /\ \A i \in 1..Len(q) : Step(q[i], T, h[i - 1], h[i])
  BY DEF Leads
<1> DEFINE n == Len(q)
           r == Append(q, f)
           g == [i \in 0..n + 1 |-> IF i = n + 1 THEN c ELSE h[i]]
<1>2. n \in Nat
  BY LenProperties
<1>3. Len(r) = n + 1 /\ r[n + 1] = f /\ \A i \in 1..n : r[i] = q[i]
  BY AppendProperties
<1>4. g \in [0..n + 1 -> Nat] /\ g[n + 1] = c /\ \A i \in 0..n : g[i] = h[i]
  BY <1>1, <1>2
<1> HIDE DEF n, r, g
<1>5. g[0] = a /\ g[n] = b
  BY <1>1, <1>2, <1>4 DEF n
<1>6. ASSUME NEW i \in 1..n + 1 PROVE Step(r[i], T, g[i - 1], g[i])
  <2>1. CASE i = n + 1
    <3>1. r[i] = f /\ g[i] = c /\ g[i - 1] = b
      BY <1>2, <1>3, <1>4, <1>5, <2>1
    <3>2. QED BY <3>1
  <2>2. CASE i # n + 1
    <3>1. i \in 1..n /\ i \in 0..n /\ i - 1 \in 0..n
      BY <1>2, <2>2
    <3>2. r[i] = q[i] /\ g[i] = h[i] /\ g[i - 1] = h[i - 1]
      BY <1>3, <1>4, <3>1
    <3>3. QED BY <1>1, <3>1, <3>2 DEF n
  <2>3. QED BY <2>1, <2>2
<1>7. QED BY <1>3, <1>4, <1>5, <1>6 DEF Leads, r

LEMMA LeadsTail ==
  ASSUME NEW q \in Seq(Frame), q # <<>>, NEW T, NEW a, NEW b, Leads(q, T, a, b)
  PROVE \E c \in Nat : Step(Head(q), T, a, c) /\ Leads(Tail(q), T, c, b)
<1>1. PICK h \in [0..Len(q) -> Nat] :
        h[0] = a /\ h[Len(q)] = b /\ \A i \in 1..Len(q) : Step(q[i], T, h[i - 1], h[i])
  BY DEF Leads
<1> DEFINE n == Len(q)
           r == Tail(q)
           g == [i \in 0..n - 1 |-> h[i + 1]]
<1>2. n \in Nat \ {0}
  BY EmptySeq, LenProperties
<1>3. Len(r) = n - 1 /\ Head(q) = q[1] /\ \A i \in 1..n - 1 : r[i] = q[i + 1]
  BY HeadTailProperties
<1>4. g \in [0..n - 1 -> Nat] /\ \A i \in 0..n - 1 : g[i] = h[i + 1]
  BY <1>1, <1>2
<1> HIDE DEF n, r, g
<1>5. h[1] \in Nat /\ Step(Head(q), T, a, h[1])
  <2>1. 1 \in 1..n /\ 1 \in 0..n /\ 1 - 1 = 0
    BY <1>2
  <2>2. QED BY <1>1, <1>3, <2>1 DEF n
<1>6. g[0] = h[1] /\ g[n - 1] = b
  BY <1>1, <1>2, <1>4 DEF n
<1>7. ASSUME NEW i \in 1..n - 1 PROVE Step(r[i], T, g[i - 1], g[i])
  <2>1. i + 1 \in 1..n /\ i - 1 \in 0..n - 1 /\ i \in 0..n - 1 /\ (i - 1) + 1 = i /\ (i + 1) - 1 = i
    BY <1>2
  <2>2. r[i] = q[i + 1] /\ g[i] = h[i + 1] /\ g[i - 1] = h[i]
    BY <1>3, <1>4, <2>1
  <2>3. Step(q[i + 1], T, h[i], h[i + 1])
    BY <1>1, <2>1 DEF n
  <2>4. QED BY <2>2, <2>3
<1>8. Leads(r, T, h[1], b)
  BY <1>3, <1>4, <1>6, <1>7 DEF Leads
<1>9. QED BY <1>5, <1>8 DEF r

\* Frames of other pairs leave the version alone.
LEMMA LeadsForeign ==
  ASSUME NEW q \in Seq(Frame), NEW T, NEW a \in Nat, \A i \in 1..Len(q) : q[i].toks \cap T = {}
  PROVE Leads(q, T, a, a)
<1> DEFINE h == [i \in 0..Len(q) |-> a]
<1>1. Len(q) \in Nat
  BY LenProperties
<1>2. h \in [0..Len(q) -> Nat] /\ \A i \in 0..Len(q) : h[i] = a
  OBVIOUS
<1> HIDE DEF h
<1>3. ASSUME NEW i \in 1..Len(q) PROVE Step(q[i], T, h[i - 1], h[i])
  <2>1. i \in 0..Len(q) /\ i - 1 \in 0..Len(q)
    BY <1>1
  <2>2. QED BY <1>2, <2>1 DEF Step
<1>4. QED BY <1>1, <1>2, <1>3 DEF Leads

LEMMA DeliversNone ==
  /\ \A T, a : a \in Nat => Delivers(<<>>, T, a, a)
  /\ \A T, a, b : Delivers(<<>>, T, a, b) => a = b
<1>1. Len(<<>>) = 0
  OBVIOUS
<1>2. ASSUME NEW T, NEW a \in Nat PROVE Delivers(<<>>, T, a, a)
  <2> DEFINE h == [i \in 0..0 |-> a]
  <2>1. h \in [0..0 -> Nat] /\ h[0] = a
    OBVIOUS
  <2> HIDE DEF h
  <2>2. QED BY <1>1, <2>1 DEF Delivers
<1>3. QED BY <1>1, <1>2 DEF Delivers

LEMMA DeliversAppend ==
  ASSUME NEW q \in Seq(Entry), NEW e \in Entry, NEW T, NEW a \in Nat, NEW b \in Nat,
         NEW c \in Nat, Delivers(q, T, a, b), Routed(e, T, b, c)
  PROVE Delivers(Append(q, e), T, a, c)
<1>1. PICK h \in [0..Len(q) -> Nat] :
        h[0] = a /\ h[Len(q)] = b /\ \A i \in 1..Len(q) : Routed(q[i], T, h[i - 1], h[i])
  BY DEF Delivers
<1> DEFINE n == Len(q)
           r == Append(q, e)
           g == [i \in 0..n + 1 |-> IF i = n + 1 THEN c ELSE h[i]]
<1>2. n \in Nat
  BY LenProperties
<1>3. Len(r) = n + 1 /\ r[n + 1] = e /\ \A i \in 1..n : r[i] = q[i]
  BY AppendProperties
<1>4. g \in [0..n + 1 -> Nat] /\ g[n + 1] = c /\ \A i \in 0..n : g[i] = h[i]
  BY <1>1, <1>2
<1> HIDE DEF n, r, g
<1>5. g[0] = a /\ g[n] = b
  BY <1>1, <1>2, <1>4 DEF n
<1>6. ASSUME NEW i \in 1..n + 1 PROVE Routed(r[i], T, g[i - 1], g[i])
  <2>1. CASE i = n + 1
    <3>1. r[i] = e /\ g[i] = c /\ g[i - 1] = b
      BY <1>2, <1>3, <1>4, <1>5, <2>1
    <3>2. QED BY <3>1
  <2>2. CASE i # n + 1
    <3>1. i \in 1..n /\ i \in 0..n /\ i - 1 \in 0..n
      BY <1>2, <2>2
    <3>2. r[i] = q[i] /\ g[i] = h[i] /\ g[i - 1] = h[i - 1]
      BY <1>3, <1>4, <3>1
    <3>3. QED BY <1>1, <3>1, <3>2 DEF n
  <2>3. QED BY <2>1, <2>2
<1>7. QED BY <1>3, <1>4, <1>5, <1>6 DEF Delivers, r

LEMMA DeliversTail ==
  ASSUME NEW q \in Seq(Entry), q # <<>>, NEW T, NEW a, NEW b, Delivers(q, T, a, b)
  PROVE \E c \in Nat : Routed(Head(q), T, a, c) /\ Delivers(Tail(q), T, c, b)
<1>1. PICK h \in [0..Len(q) -> Nat] :
        h[0] = a /\ h[Len(q)] = b /\ \A i \in 1..Len(q) : Routed(q[i], T, h[i - 1], h[i])
  BY DEF Delivers
<1> DEFINE n == Len(q)
           r == Tail(q)
           g == [i \in 0..n - 1 |-> h[i + 1]]
<1>2. n \in Nat \ {0}
  BY EmptySeq, LenProperties
<1>3. Len(r) = n - 1 /\ Head(q) = q[1] /\ \A i \in 1..n - 1 : r[i] = q[i + 1]
  BY HeadTailProperties
<1>4. g \in [0..n - 1 -> Nat] /\ \A i \in 0..n - 1 : g[i] = h[i + 1]
  BY <1>1, <1>2
<1> HIDE DEF n, r, g
<1>5. h[1] \in Nat /\ Routed(Head(q), T, a, h[1])
  <2>1. 1 \in 1..n /\ 1 \in 0..n /\ 1 - 1 = 0
    BY <1>2
  <2>2. QED BY <1>1, <1>3, <2>1 DEF n
<1>6. g[0] = h[1] /\ g[n - 1] = b
  BY <1>1, <1>2, <1>4 DEF n
<1>7. ASSUME NEW i \in 1..n - 1 PROVE Routed(r[i], T, g[i - 1], g[i])
  <2>1. i + 1 \in 1..n /\ i - 1 \in 0..n - 1 /\ i \in 0..n - 1 /\ (i - 1) + 1 = i /\ (i + 1) - 1 = i
    BY <1>2
  <2>2. r[i] = q[i + 1] /\ g[i] = h[i + 1] /\ g[i - 1] = h[i]
    BY <1>3, <1>4, <2>1
  <2>3. Routed(q[i + 1], T, h[i], h[i + 1])
    BY <1>1, <2>1 DEF n
  <2>4. QED BY <2>2, <2>3
<1>8. Delivers(r, T, h[1], b)
  BY <1>3, <1>4, <1>6, <1>7 DEF Delivers
<1>9. QED BY <1>5, <1>8 DEF r

\* Batches of other pairs leave the version alone.
LEMMA DeliversForeign ==
  ASSUME NEW q \in Seq(Entry), NEW T, NEW a \in Nat, \A i \in 1..Len(q) : ~In(q[i], T)
  PROVE Delivers(q, T, a, a)
<1> DEFINE h == [i \in 0..Len(q) |-> a]
<1>1. Len(q) \in Nat
  BY LenProperties
<1>2. h \in [0..Len(q) -> Nat] /\ \A i \in 0..Len(q) : h[i] = a
  OBVIOUS
<1> HIDE DEF h
<1>3. ASSUME NEW i \in 1..Len(q) PROVE Routed(q[i], T, h[i - 1], h[i])
  <2>1. i \in 0..Len(q) /\ i - 1 \in 0..Len(q)
    BY <1>1
  <2>2. QED BY <1>2, <2>1 DEF Routed
<1>4. QED BY <1>1, <1>2, <1>3 DEF Delivers

\* Behind a gap of the pair the next version is any.
LEMMA DeliversGap ==
  ASSUME NEW q \in Seq(Entry), q # <<>>, NEW T, NEW a, NEW b, NEW c \in Nat,
         Delivers(q, T, a, b), In(q[Len(q)], T), IsGap(q[Len(q)])
  PROVE Delivers(q, T, a, c)
<1>1. PICK h \in [0..Len(q) -> Nat] :
        h[0] = a /\ h[Len(q)] = b /\ \A i \in 1..Len(q) : Routed(q[i], T, h[i - 1], h[i])
  BY DEF Delivers
<1> DEFINE n == Len(q)
           g == [i \in 0..n |-> IF i = n THEN c ELSE h[i]]
<1>2. n \in Nat \ {0}
  BY EmptySeq, LenProperties
<1>3. g \in [0..n -> Nat] /\ g[n] = c /\ \A i \in 0..n - 1 : g[i] = h[i]
  BY <1>1, <1>2
<1>4. g[0] = a
  BY <1>1, <1>2, <1>3
<1> HIDE DEF g
<1>5. ASSUME NEW i \in 1..n PROVE Routed(q[i], T, g[i - 1], g[i])
  <2>1. Routed(q[i], T, h[i - 1], h[i])
    BY <1>1
  <2>2. CASE i = n
    BY <1>5, <2>1, <2>2 DEF Routed, IsGap, IsData
  <2>3. CASE i # n
    <3>1. i \in 0..n - 1 /\ i - 1 \in 0..n - 1
      BY <1>2, <2>3
    <3>2. QED BY <1>3, <2>1, <3>1
  <2>4. QED BY <2>2, <2>3
<1>6. QED BY <1>3, <1>4, <1>5 DEF Delivers

\* A standby: what it buffered, its queue and the last update that it was sent.
StandbySound(s, T) ==
    /\ s.sub = T /\ s.owed \subseteq T /\ (s.phase = "seeding" => s.queue = <<>>)
    /\ \A i \in 1..Len(s.queue) : s.queue[i].toks \subseteq T
    /\ \E v \in Nat : Leads(s.queue, T, v, s.ver) /\ Holds(s.view, T, v)

Off(s) == s \in {NoSocket, [NoSocket EXCEPT !.phase = "failed"]}

Standbys ==
    /\ \A r \in {"ready", "prep", "candidate"} : Off(sock[r]) \/ StandbySound(sock[r], tr.tokens)
    /\ IF tr.pc \in {"offer", "await"} THEN StandbySound(sock.candidate, tr.tokens)
                                       ELSE Off(sock.candidate)

\* The active socket holds no frame of a pair that the transport may still move to.
Reads ==
    Running =>
        /\ sock.active.sub = tr.tokens /\ sock.active.owed \subseteq tr.tokens
        /\ \A i \in 1..Len(sock.active.queue) :
              /\ \A P \in left.pairs : sock.active.queue[i].toks \cap P = {}
              /\ tr.tokens = shard.tokens => sock.active.queue[i].toks \cap shard.target = {}

\* What the transport will push next begins at the version b.
Holding == tr.pc = "sending"
ActiveFrom(b) ==
    \E c \in Nat :
        /\ IF Holding THEN tr.held.toks \cap tr.tokens # {} /\ Step(tr.held, tr.tokens, b, c)
                      ELSE c = b
        /\ Leads(sock.active.queue, tr.tokens, c, sock.active.ver)

Chain(T, view) ==
    \E a, b \in Nat :
        /\ Holds(view, T, a) /\ Delivers(out, T, a, b)
        /\ Running /\ tr.tokens = T /\ receipt # "committed" => ActiveFrom(b)

Chains ==
    /\ Chain(shard.tokens, owner.view)
    /\ shard.target # {} => Chain(shard.target, Unknown)

\* Between a gap and the next book there are no books.
Blank == owner.source = {} => Holds(owner.view, shard.tokens, 0)

Handoff ==
    /\ \A i \in 1..Len(out) : out[i].frame.kind = "checkpoint" /\ tr.pc = "await"
          => out[i].frame.view = sock.candidate.view /\ out[i].source = tr.tokens
    /\ receipt = "committed" /\ tr.pc = "await" =>
          owner.view = sock.candidate.view /\ tr.tokens = shard.tokens

Ordered == /\ owner.skewed = FALSE
           /\ Standbys /\ Reads /\ Chains /\ Blank /\ Handoff

LEMMA OffNothing ==
  /\ Off(NoSocket) /\ Off([NoSocket EXCEPT !.phase = "failed"])
  /\ \A s : Off(s) => ~s.alive /\ s.phase \in {"none", "failed"}
  /\ \A r \in Roles : NoSockets[r] = NoSocket
BY DEF Off, NoSocket, NoSockets

\* What the venue sends next follows the version of the socket.
LEMMA SentStep ==
  ASSUME NEW s \in Socket, NEW T, T # {}, s.sub = T, s.owed \subseteq T, venue \in Nat,
         NEW f \in VenueFrames(s)
  PROVE /\ f \in Frame /\ f.toks \subseteq T /\ f.toks # {}
        /\ Step(f, T, s.ver, Sent(s, f).ver) /\ Sent(s, f).ver \in Nat
        /\ Sent(s, f).sub = T /\ Sent(s, f).owed \subseteq T
        /\ Sent(s, f).queue = s.queue /\ Sent(s, f).view = s.view /\ Sent(s, f).phase = s.phase
<1>1. f \in Frame /\ s.ver \in Nat /\ Sent(s, f) \in Socket
  BY VenueFramesTypes DEF Socket
<1>2. CASE \E t \in First(s.owed) : f = [kind |-> "book", toks |-> {t}, ver |-> s.ver]
  <2>1. PICK t \in s.owed : f = [kind |-> "book", toks |-> {t}, ver |-> s.ver]
    BY <1>2 DEF First
  <2>2. f.kind = "book" /\ f.toks = {t} /\ f.ver = s.ver /\ t \in T
    BY <2>1
  <2>3. Sent(s, f) = [s EXCEPT !.owed = @ \ f.toks]
    BY <2>2 DEF Sent
  <2>4. /\ Sent(s, f).ver = s.ver /\ Sent(s, f).sub = s.sub /\ Sent(s, f).owed = s.owed \ f.toks
        /\ Sent(s, f).queue = s.queue /\ Sent(s, f).view = s.view /\ Sent(s, f).phase = s.phase
    BY <2>3 DEF Socket
  <2>5. QED BY <1>1, <2>2, <2>4 DEF Step
<1>3. CASE \E v \in {s.ver + 1} \cap (1..venue) :
             f = [kind |-> "delta", toks |-> s.sub, ver |-> v]
  <2>1. f.kind = "delta" /\ f.toks = T /\ f.ver = s.ver + 1
    BY <1>3
  <2>2. Sent(s, f) = [s EXCEPT !.ver = f.ver]
    BY <2>1 DEF Sent
  <2>3. /\ Sent(s, f).ver = s.ver + 1 /\ Sent(s, f).sub = s.sub /\ Sent(s, f).owed = s.owed
        /\ Sent(s, f).queue = s.queue /\ Sent(s, f).view = s.view /\ Sent(s, f).phase = s.phase
    BY <2>1, <2>2 DEF Socket
  <2>4. QED BY <1>1, <2>1, <2>3 DEF Step
<1>4. QED BY <1>2, <1>3 DEF VenueFrames

\* The reader of a socket hands it on.
Longer(s, T, r) ==
    /\ r.sub = T /\ r.owed \subseteq T /\ r.view = s.view /\ r.phase = s.phase
    /\ \A v \in Nat : Leads(s.queue, T, v, s.ver) => Leads(r.queue, T, v, r.ver)
    /\ \A i \in 1..Len(r.queue) :
          r.queue[i].toks \subseteq T \/ \E j \in 1..Len(s.queue) : r.queue[i] = s.queue[j]

LEMMA QueuedStep ==
  ASSUME NEW s \in Socket, NEW T, T # {}, s.sub = T, s.owed \subseteq T, venue \in Nat,
         NEW f \in VenueFrames(s)
  PROVE Longer(s, T, Queued(Sent(s, f), f))
<1> DEFINE r == Queued(Sent(s, f), f)
<1>1. /\ f \in Frame /\ f.toks \subseteq T /\ f.toks # {}
      /\ Step(f, T, s.ver, Sent(s, f).ver) /\ Sent(s, f).ver \in Nat
      /\ Sent(s, f).sub = T /\ Sent(s, f).owed \subseteq T
      /\ Sent(s, f).queue = s.queue /\ Sent(s, f).view = s.view /\ Sent(s, f).phase = s.phase
  BY SentStep
<1>2. Sent(s, f) \in Socket /\ s.queue \in Seq(Frame) /\ s.ver \in Nat
  BY VenueFramesTypes DEF Socket
<1>3. /\ r.queue = Append(s.queue, f) /\ r.sub = T /\ r.owed \subseteq T /\ r.view = s.view
      /\ r.phase = s.phase /\ r.ver = Sent(s, f).ver
  BY <1>1, <1>2 DEF Queued, Socket
<1>4. \A v \in Nat : Leads(s.queue, T, v, s.ver) => Leads(r.queue, T, v, r.ver)
  BY <1>1, <1>2, <1>3, LeadsAppend
<1>5. /\ Len(r.queue) = Len(s.queue) + 1 /\ r.queue[Len(s.queue) + 1] = f
      /\ \A i \in 1..Len(s.queue) : r.queue[i] = s.queue[i]
  BY <1>1, <1>2, <1>3, AppendProperties
<1>6. Len(s.queue) \in Nat
  BY <1>2, LenProperties
<1> HIDE DEF r
<1>7. ASSUME NEW i \in 1..Len(r.queue)
      PROVE r.queue[i].toks \subseteq T \/ \E j \in 1..Len(s.queue) : r.queue[i] = s.queue[j]
  <2>1. i \in 1..Len(s.queue) \/ i = Len(s.queue) + 1
    BY <1>5, <1>6
  <2>2. QED BY <1>1, <1>5, <2>1
<1>8. Longer(s, T, r)
  BY <1>3, <1>4, <1>7 DEF Longer
<1>9. QED BY <1>8 DEF r

\* Reducing a frame that follows the version of the books.
LEMMA ReducedStep ==
  ASSUME NEW view \in [Tokens -> Nat], NEW T \in SUBSET Tokens, NEW f \in Frame,
         NEW a \in Nat, NEW b \in Nat, Holds(view, T, a), Step(f, T, a, b)
  PROVE /\ Holds(Reduced(view, f), T, b)
        /\ f.toks \cap T # {} => ~OutOfOrder(view, f)
<1>1. CASE f.toks \cap T = {}
  BY <1>1 DEF Holds, Step, Reduced
<1>2. CASE f.toks \cap T # {} /\ f.kind = "book" /\ f.toks \subseteq T /\ f.ver = a /\ b = a
  BY <1>2 DEF Holds, Reduced, OutOfOrder
<1>3. CASE f.toks \cap T # {} /\ f.kind = "delta" /\ f.toks = T /\ f.ver = a + 1 /\ b = a + 1
  <2>1. ~OutOfOrder(view, f)
    BY <1>3 DEF Holds, OutOfOrder
  <2>2. ASSUME NEW t \in T PROVE Reduced(view, f)[t] \in {0, b}
    <3>1. view[t] \in {0, a} /\ t \in f.toks /\ t \in Tokens
      BY <1>3 DEF Holds
    <3>2. Reduced(view, f)[t] = IF view[t] # 0 THEN f.ver ELSE view[t]
      BY <1>3, <3>1 DEF Reduced
    <3>3. QED BY <1>3, <3>1, <3>2
  <2>3. QED BY <2>1, <2>2 DEF Holds
<1>4. QED BY <1>1, <1>2, <1>3 DEF Step

LEMMA HoldsUnknown == \A T \in SUBSET Tokens : \A v : Holds(Unknown, T, v)
BY DEF Holds, Unknown

\* A step without a batch and without a change of the shard.
LEMMA QuietStep ==
  ASSUME Ordered, UNCHANGED out, receipt' \in {receipt, "none"}, owner'.view = owner.view,
         owner'.source = owner.source, owner'.skewed = owner.skewed,
         shard'.tokens = shard.tokens, shard'.target = shard.target,
         Standbys', Reads',
         Running' /\ receipt' # "committed" =>
            /\ Running /\ tr'.tokens = tr.tokens /\ receipt # "committed"
            /\ \A b \in Nat : ActiveFrom(b) => ActiveFrom(b)',
         tr'.pc = "await" =>
            /\ tr.pc = "await" /\ tr'.tokens = tr.tokens
            /\ sock'.candidate.view = sock.candidate.view
  PROVE Ordered'
<1>1. ASSUME NEW T, NEW view, Chain(T, view) PROVE Chain(T, view)'
  <2>1. PICK a \in Nat, b \in Nat :
          /\ Holds(view, T, a) /\ Delivers(out, T, a, b)
          /\ Running /\ tr.tokens = T /\ receipt # "committed" => ActiveFrom(b)
    BY <1>1 DEF Chain
  <2>2. Running' /\ tr'.tokens = T /\ receipt' # "committed" => ActiveFrom(b)'
    BY <2>1
  <2>3. Delivers(out', T, a, b)
    BY <2>1
  <2>4. QED BY <2>1, <2>2, <2>3 DEF Chain
<1>2. Chains'
  BY <1>1 DEF Ordered, Chains
<1>3. Blank' /\ owner'.skewed = FALSE
  BY DEF Ordered, Blank
<1>4. Handoff'
  BY DEF Ordered, Handoff
<1>5. QED BY <1>2, <1>3, <1>4 DEF Ordered

\* The end of a loop round.
LEMMA AfterStandbys ==
  ASSUME IInv, NEW s \in [Roles -> Socket], NEW observed, After(s, observed),
         Off(s.ready) \/ StandbySound(s.ready, tr.tokens),
         Off(s.prep) \/ StandbySound(s.prep, tr.tokens), Off(s.candidate)
  PROVE /\ Standbys' /\ sock'.active = s.active
        /\ tr'.pc \in {"select", "offer"} /\ tr'.tokens = tr.tokens
<1>1. PICK r \in observed :
        \/ /\ sock' = s /\ tr' = [tr EXCEPT !.pc = "select", !.held = NoFrame]
        \/ /\ sock' = [s EXCEPT !.prep = NewSocket("seeding")]
           /\ tr' = [tr EXCEPT !.pc = "select", !.held = NoFrame]
        \/ /\ MayBeSwitchable(s.ready)
           /\ sock' = [s EXCEPT !.candidate = s.ready, !.ready = NoSocket]
           /\ tr' = [tr EXCEPT !.pc = "offer", !.held = NoFrame]
        \/ /\ sock' = [s EXCEPT !.ready = NoSocket]
           /\ tr' = [tr EXCEPT !.pc = "select", !.held = NoFrame]
  BY DEF After
<1>2. /\ tr \in TransportState /\ venue \in Nat /\ tr.tokens \in SUBSET Tokens
      /\ Off(NoSocket)
  BY OffNothing DEF IInv, TransportTypes, TransportState
<1>3. StandbySound(NewSocket("seeding"), tr.tokens)
  <2>1. /\ NewSocket("seeding").sub = tr.tokens /\ NewSocket("seeding").owed = tr.tokens
        /\ NewSocket("seeding").queue = <<>> /\ NewSocket("seeding").ver = venue
        /\ NewSocket("seeding").view = Unknown
    BY DEF NewSocket, NoSocket
  <2>2. Leads(<<>>, tr.tokens, venue, venue) /\ Holds(Unknown, tr.tokens, venue)
    BY <1>2, LeadsNone, HoldsUnknown
  <2>3. QED BY <1>2, <2>1, <2>2 DEF StandbySound
<1>4. MayBeSwitchable(s.ready) => StandbySound(s.ready, tr.tokens)
  BY OffNothing DEF MayBeSwitchable, MayBeFresh
<1>5. /\ tr'.tokens = tr.tokens
      /\ \/ tr'.pc = "select"
         \/ tr'.pc = "offer" /\ StandbySound(s.ready, tr.tokens)
  <2>1. PICK pc \in {"select", "offer"} :
          /\ tr' = [tr EXCEPT !.pc = pc, !.held = NoFrame]
          /\ pc = "offer" => MayBeSwitchable(s.ready)
    BY <1>1
  <2>2. tr'.tokens = tr.tokens /\ tr'.pc = pc
    BY <1>2, <2>1 DEF TransportState
  <2>3. QED BY <1>4, <2>1, <2>2
<1>6. /\ sock'.active = s.active
      /\ sock'.ready = s.ready \/ sock'.ready = NoSocket
      /\ sock'.prep = s.prep \/ sock'.prep = NewSocket("seeding")
      /\ IF tr'.pc = "offer" THEN sock'.candidate = s.ready ELSE sock'.candidate = s.candidate
  BY <1>1, <1>2 DEF TransportState, Roles
<1>7. /\ Off(sock'.ready) \/ StandbySound(sock'.ready, tr.tokens)
      /\ Off(sock'.prep) \/ StandbySound(sock'.prep, tr.tokens)
      /\ IF tr'.pc = "offer" THEN StandbySound(sock'.candidate, tr.tokens)
                             ELSE Off(sock'.candidate)
  BY <1>2, <1>3, <1>5, <1>6
<1>8. QED BY <1>5, <1>6, <1>7 DEF Standbys

\* What the transport subscribes to meets no pair that it may still move to.
LEMMA Elsewhere ==
  ASSUME IInv, NEW S, S \subseteq tr.tokens
  PROVE /\ \A P \in left.pairs : S \cap P = {}
        /\ tr.tokens = shard.tokens => S \cap shard.target = {}
<1>1. /\ shard.tokens \in Pairs /\ shard.target \in Pairs \cup {{}} /\ shard.target # shard.tokens
      /\ tr.tokens \subseteq shard.tokens \cup shard.target
      /\ \A P \in left.pairs : P \in Pairs /\ P # shard.tokens /\ P # shard.target
  BY DEF IInv, Membership, Fresh, OwnerTypes
<1>2. \A P \in left.pairs : P \cap shard.tokens = {} /\ P \cap shard.target = {}
  BY <1>1, RotationAssumption
<1>3. shard.tokens \cap shard.target = {}
  BY <1>1, RotationAssumption
<1>4. QED BY <1>1, <1>2, <1>3

LEMMA SomeTokens ==
  ASSUME IInv
  PROVE tr.tokens # {} /\ tr.tokens \in SUBSET Tokens /\ venue \in Nat /\ tr \in TransportState
BY DEF IInv, Membership, TransportTypes, TransportState

\* Another frame, or fewer, in the queue of the active socket.
LEMMA ReadsStep ==
  ASSUME IInv, Reads, tr'.tokens = tr.tokens, Running' => Running, left'.pairs = left.pairs,
         shard'.tokens = shard.tokens, shard'.target = shard.target,
         Running => /\ sock'.active.sub = tr.tokens /\ sock'.active.owed \subseteq tr.tokens
                    /\ \A i \in 1..Len(sock'.active.queue) :
                         \/ sock'.active.queue[i].toks \subseteq tr.tokens
                         \/ \E j \in 1..Len(sock.active.queue) :
                               sock'.active.queue[i] = sock.active.queue[j]
  PROVE Reads'
<1> SUFFICES ASSUME Running', NEW i \in 1..Len(sock'.active.queue)
             PROVE /\ \A P \in left.pairs : sock'.active.queue[i].toks \cap P = {}
                   /\ tr.tokens = shard.tokens =>
                        sock'.active.queue[i].toks \cap shard.target = {}
  BY DEF Reads
<1>1. CASE sock'.active.queue[i].toks \subseteq tr.tokens
  BY <1>1, Elsewhere
<1>2. CASE \E j \in 1..Len(sock.active.queue) : sock'.active.queue[i] = sock.active.queue[j]
  BY <1>2 DEF Reads
<1>3. QED BY <1>1, <1>2

-----------------------------------------------------------------------------
(* The sockets.                                                            *)

\* One more frame, or the end, of a standby that is not being seeded.
LEMMA StandbyReads ==
  ASSUME IInv, NEW s \in Socket, StandbySound(s, tr.tokens), s.phase = "pumped"
  PROVE /\ \A f \in VenueFrames(s) :
              LET r == Queued(Sent(s, f), f)
              IN StandbySound(r, tr.tokens) /\ r.view = s.view
        /\ StandbySound([s EXCEPT !.alive = FALSE], tr.tokens)
        /\ [s EXCEPT !.alive = FALSE].view = s.view
<1>1. tr.tokens # {} /\ venue \in Nat
  BY SomeTokens
<1>2. ASSUME NEW f \in VenueFrames(s)
      PROVE /\ StandbySound(Queued(Sent(s, f), f), tr.tokens)
            /\ Queued(Sent(s, f), f).view = s.view
  <2>1. s.sub = tr.tokens /\ s.owed \subseteq tr.tokens
    BY DEF StandbySound
  <2>2. Longer(s, tr.tokens, Queued(Sent(s, f), f))
    BY <1>1, <2>1, QueuedStep
  <2>3. QED BY <2>2 DEF Longer, StandbySound
<1>3. /\ StandbySound([s EXCEPT !.alive = FALSE], tr.tokens)
      /\ [s EXCEPT !.alive = FALSE].view = s.view
  BY DEF Socket, StandbySound
<1>4. QED BY <1>2, <1>3

LEMMA ReceiveOrdered ==
  ASSUME IInv, Ordered, NEW r \in Roles, Receive(r) \/ SocketEnds(r)
  PROVE Ordered'
<1>1. PICK n \in Socket :
        /\ sock' = [sock EXCEPT ![r] = n]
        /\ \/ n = [sock[r] EXCEPT !.alive = FALSE]
           \/ \E f \in VenueFrames(sock[r]) : n = Queued(Sent(sock[r], f), f)
  <2>1. sock[r] \in Socket
    BY DEF IInv, TransportTypes
  <2>2. CASE \E f \in VenueFrames(sock[r]) : sock' = [sock EXCEPT ![r] = Queued(Sent(@, f), f)]
    <3>1. PICK f \in VenueFrames(sock[r]) : sock' = [sock EXCEPT ![r] = Queued(Sent(sock[r], f), f)]
      BY <2>2
    <3>2. f \in Frame /\ Sent(sock[r], f) \in Socket
      BY <2>1, SomeTokens, VenueFramesTypes
    <3>3. Append(Sent(sock[r], f).queue, f) \in Seq(Frame)
      BY <3>2, AppendProperties DEF Socket
    <3>4. Queued(Sent(sock[r], f), f) \in Socket
      BY <3>2, <3>3 DEF Queued, Socket
    <3>5. QED BY <3>1, <3>4
  <2>3. CASE sock' = [sock EXCEPT ![r] = [@ EXCEPT !.alive = FALSE]]
    <3>1. [sock[r] EXCEPT !.alive = FALSE] \in Socket
      BY <2>1 DEF Socket
    <3>2. QED BY <2>3, <3>1
  <2>4. QED BY <2>2, <2>3 DEF Receive, SocketEnds, Overflow
<1>2. /\ sock[r].phase = "pumped" /\ sock[r] \in Socket /\ sock \in [Roles -> Socket]
      /\ UNCHANGED <<tr, rot, out, bell, owner, shard, command, reply, receipt>>
      /\ left'.pairs = left.pairs
  BY FaultyLeft DEF Receive, SocketEnds, IInv, TransportTypes
<1>3. sock'[r] = n /\ \A q \in Roles \ {r} : sock'[q] = sock[q]
  BY <1>1, <1>2
<1>4. CASE r # "active"
  <2>1. r \in {"ready", "prep", "candidate"} /\ ~Off(sock[r]) /\ StandbySound(sock[r], tr.tokens)
    BY <1>2, <1>4, OffNothing DEF Roles, Ordered, Standbys
  <2>2. StandbySound(n, tr.tokens) /\ n.view = sock[r].view
    BY <1>1, <1>2, <2>1, StandbyReads
  <2>3. \A q \in Roles : q # r => sock'[q] = sock[q]
    BY <1>3
  <2>4. Standbys' /\ sock'.candidate.view = sock.candidate.view
    <3>1. \A q \in {"ready", "prep", "candidate"} : q \in Roles
      BY DEF Roles
    <3>2. ASSUME NEW q \in {"ready", "prep", "candidate"}
          PROVE Off(sock'[q]) \/ StandbySound(sock'[q], tr.tokens)
      BY <1>3, <2>2, <2>3, <3>1, <3>2 DEF Ordered, Standbys
    <3>3. /\ sock'.candidate.view = sock.candidate.view
          /\ IF tr.pc \in {"offer", "await"} THEN StandbySound(sock'.candidate, tr.tokens)
                                            ELSE Off(sock'.candidate)
      <4>1. CASE r = "candidate"
        BY <1>3, <2>1, <2>2, <4>1 DEF Ordered, Standbys
      <4>2. CASE r # "candidate"
        <5>1. sock'.candidate = sock.candidate
          BY <2>3, <3>1, <4>2
        <5>2. QED BY <5>1 DEF Ordered, Standbys
      <4>3. QED BY <4>1, <4>2
    <3>4. QED BY <1>2, <3>2, <3>3 DEF Standbys
  <2>5. sock'.active = sock.active
    BY <1>3, <1>4 DEF Roles
  <2>6. Reads' /\ \A b \in Nat : ActiveFrom(b) => ActiveFrom(b)'
    BY <1>2, <2>5 DEF Ordered, Reads, Running, ActiveFrom, Holding
  <2>7. Running' => Running
    BY <1>2 DEF Running
  <2>8. QED BY <1>2, <2>4, <2>6, <2>7, QuietStep
<1>5. CASE r = "active"
  <2>1. \A q \in {"ready", "prep", "candidate"} : sock'[q] = sock[q]
    BY <1>3, <1>5 DEF Roles
  <2>2. Standbys' /\ sock'.candidate.view = sock.candidate.view
    <3>1. sock'.candidate = sock.candidate
      BY <2>1
    <3>2. QED BY <1>2, <2>1, <3>1 DEF Ordered, Standbys
  <2>3. sock'.active = n
    BY <1>3, <1>5
  <2>4. ASSUME Running
        PROVE /\ n.sub = tr.tokens /\ n.owed \subseteq tr.tokens
              /\ \A c \in Nat : Leads(sock.active.queue, tr.tokens, c, sock.active.ver)
                                  => Leads(n.queue, tr.tokens, c, n.ver)
              /\ \A i \in 1..Len(n.queue) :
                    \/ n.queue[i].toks \subseteq tr.tokens
                    \/ \E j \in 1..Len(sock.active.queue) : n.queue[i] = sock.active.queue[j]
    <3>1. sock.active.sub = tr.tokens /\ sock.active.owed \subseteq tr.tokens /\ sock.active \in Socket
      BY <1>2, <1>5, <2>4 DEF Ordered, Reads
    <3>2. CASE n = [sock[r] EXCEPT !.alive = FALSE]
      <4>1. /\ n.sub = sock.active.sub /\ n.owed = sock.active.owed
            /\ n.queue = sock.active.queue /\ n.ver = sock.active.ver
        BY <1>2, <1>5, <3>2 DEF Socket
      <4>2. QED BY <3>1, <4>1
    <3>3. CASE \E f \in VenueFrames(sock[r]) : n = Queued(Sent(sock[r], f), f)
      <4>1. PICK f \in VenueFrames(sock.active) : n = Queued(Sent(sock.active, f), f)
        BY <1>5, <3>3
      <4>2. tr.tokens # {} /\ venue \in Nat
        BY SomeTokens
      <4>3. Longer(sock.active, tr.tokens, n)
        BY <3>1, <4>1, <4>2, QueuedStep
      <4>4. QED BY <4>3 DEF Longer
    <3>4. QED BY <1>1, <3>2, <3>3
  <2>5. Reads'
    <3>1. Running' => Running
      BY <1>2 DEF Running
    <3>2. QED BY <1>2, <2>3, <2>4, <3>1, ReadsStep DEF Ordered
  <2>6. Running => \A b \in Nat : ActiveFrom(b) => ActiveFrom(b)'
    BY <1>2, <2>3, <2>4 DEF ActiveFrom, Holding
  <2>7. Running' => Running
    BY <1>2 DEF Running
  <2>8. QED BY <1>2, <2>2, <2>5, <2>6, <2>7, QuietStep
<1>6. QED BY <1>4, <1>5

\* A step of a standby alone.
LEMMA StandbyStep ==
  ASSUME IInv, Ordered, UNCHANGED <<tr, out, owner, shard, receipt>>, left'.pairs = left.pairs,
         sock \in [Roles -> Socket], NEW n, sock' = [sock EXCEPT !.prep = n],
         Off(n) \/ StandbySound(n, tr.tokens)
  PROVE Ordered'
<1>1. /\ sock'.prep = n /\ sock'.ready = sock.ready /\ sock'.candidate = sock.candidate
      /\ sock'.active = sock.active
  BY DEF Roles
<1>2. Standbys'
  BY <1>1 DEF Ordered, Standbys
<1>3. Reads' /\ \A b \in Nat : ActiveFrom(b) => ActiveFrom(b)'
  BY <1>1 DEF Ordered, Reads, Running, ActiveFrom, Holding
<1>4. Running' => Running
  BY DEF Running
<1>5. QED BY <1>1, <1>2, <1>3, <1>4, QuietStep

\* What a standby retains stays on its line of versions.
LEMMA RetainedStep ==
  ASSUME NEW s \in Socket, NEW f \in Frame, NEW r, r = Retained(s, f)
  PROVE /\ r.sub = s.sub /\ r.owed = s.owed /\ r.ver = s.ver /\ r.queue = s.queue
        /\ r.phase = s.phase /\ r.view = Reduced(s.view, f)
BY DEF Retained, Socket

LEMMA SeedOrdered == ASSUME IInv, Ordered, Seed \/ SeedFails \/ VenueUpdates PROVE Ordered'
<1>1. sock \in [Roles -> Socket] /\ sock.prep \in Socket /\ sock.prep.view \in [Tokens -> Nat]
  BY DEF IInv, TransportTypes, Roles, Socket
<1>2. tr.tokens # {} /\ venue \in Nat /\ tr.tokens \in SUBSET Tokens
  BY SomeTokens
<1>3. CASE SeedFails
  BY <1>1, <1>3, FaultyLeft, OffNothing, StandbyStep DEF SeedFails
<1>4. CASE VenueUpdates
  <2>1. Standbys' /\ Reads' /\ \A b \in Nat : ActiveFrom(b) => ActiveFrom(b)'
    BY <1>4 DEF VenueUpdates, Ordered, Standbys, Reads, Running, ActiveFrom, Holding
  <2>2. Running' => Running
    BY <1>4 DEF VenueUpdates, Running
  <2>3. QED BY <1>4, <2>1, <2>2, QuietStep DEF VenueUpdates
<1>5. CASE Seed
  <2>1. PICK f \in VenueFrames(sock.prep) :
          LET s == Sent(Retained(sock.prep, f), f)
          IN sock' = [sock EXCEPT !.prep =
                IF ~Retains(sock.prep, f) THEN [NoSocket EXCEPT !.phase = "failed"]
                ELSE IF Seeded(s) THEN [s EXCEPT !.phase = "pumped"] ELSE s]
    BY <1>5 DEF Seed
  <2> DEFINE p == sock.prep
             m == Retained(p, f)
             s == Sent(m, f)
  <2>2. p.phase = "seeding" /\ StandbySound(p, tr.tokens)
    BY <1>5, OffNothing DEF Seed, Ordered, Standbys
  <2>3. p.sub = tr.tokens /\ p.owed \subseteq tr.tokens /\ p.queue = <<>>
    BY <2>2 DEF StandbySound
  <2>4. PICK v \in Nat : Leads(p.queue, tr.tokens, v, p.ver) /\ Holds(p.view, tr.tokens, v)
    BY <2>2 DEF StandbySound
  <2>5. p.ver \in Nat /\ Holds(p.view, tr.tokens, p.ver)
    BY <1>1, <2>3, <2>4, LeadsNone
  <2>6. /\ f \in Frame /\ Step(f, tr.tokens, p.ver, Sent(p, f).ver) /\ Sent(p, f).ver \in Nat
        /\ Sent(p, f).sub = tr.tokens /\ Sent(p, f).owed \subseteq tr.tokens
    BY <1>1, <1>2, <2>3, SentStep
  <2>7. Holds(Reduced(p.view, f), tr.tokens, Sent(p, f).ver)
    BY <1>1, <1>2, <2>5, <2>6, ReducedStep
  <2>8. m \in Socket
    BY <1>1, <2>6, RetainedTypes
  <2>9. /\ m.sub = p.sub /\ m.owed = p.owed /\ m.ver = p.ver /\ m.queue = p.queue
        /\ m.phase = p.phase /\ m.view = Reduced(p.view, f)
    BY <1>1, <2>6, RetainedStep
  <2> HIDE DEF m
  <2>10. /\ s \in Socket /\ s.sub = Sent(p, f).sub /\ s.owed = Sent(p, f).owed
         /\ s.ver = Sent(p, f).ver /\ s.queue = <<>> /\ s.view = Reduced(p.view, f)
    <3>1. CASE f.kind = "book"
      BY <1>1, <2>3, <2>6, <2>8, <2>9, <3>1 DEF Sent, Socket, Frame
    <3>2. CASE f.kind # "book"
      BY <1>1, <2>3, <2>6, <2>8, <2>9, <3>2 DEF Sent, Socket, Frame
    <3>3. QED BY <3>1, <3>2
  <2> HIDE DEF s, p
  <2>11. \A n : /\ n.sub = s.sub /\ n.owed = s.owed /\ n.ver = s.ver /\ n.queue = s.queue
                /\ n.view = s.view
                => StandbySound(n, tr.tokens)
    <3>1. Leads(<<>>, tr.tokens, s.ver, s.ver) /\ Len(<<>>) = 0 /\ s.ver \in Nat
      BY <2>6, <2>10, LeadsNone
    <3>2. QED BY <2>6, <2>7, <2>10, <3>1 DEF StandbySound
  <2>12. StandbySound(s, tr.tokens) /\ StandbySound([s EXCEPT !.phase = "pumped"], tr.tokens)
    <3>1. /\ [s EXCEPT !.phase = "pumped"].sub = s.sub /\ [s EXCEPT !.phase = "pumped"].owed = s.owed
          /\ [s EXCEPT !.phase = "pumped"].ver = s.ver
          /\ [s EXCEPT !.phase = "pumped"].queue = s.queue
          /\ [s EXCEPT !.phase = "pumped"].view = s.view
      BY <2>10 DEF Socket
    <3>2. QED BY <2>11, <3>1
  <2>13. PICK n : sock' = [sock EXCEPT !.prep = n] /\ (Off(n) \/ StandbySound(n, tr.tokens))
    BY <2>1, <2>12, OffNothing DEF s, m, p
  <2>14. UNCHANGED <<tr, out, owner, shard, receipt, left>>
    BY <1>5 DEF Seed
  <2>15. QED BY <1>1, <2>13, <2>14, StandbyStep
<1>6. QED BY <1>3, <1>4, <1>5

\* A round without a batch: the active socket stays as it is.
LEMMA RoundOrdered ==
  ASSUME IInv, Ordered, tr.pc = "select", NEW s \in [Roles -> Socket], After(s, {rot}),
         s.active = sock.active,
         Off(s.ready) \/ StandbySound(s.ready, tr.tokens),
         Off(s.prep) \/ StandbySound(s.prep, tr.tokens), Off(s.candidate),
         UNCHANGED <<venue, out, bell, owner, shard, command, reply, receipt, left>>
  PROVE Ordered'
<1>1. /\ Standbys' /\ sock'.active = sock.active
      /\ tr'.pc \in {"select", "offer"} /\ tr'.tokens = tr.tokens
  BY AfterStandbys
<1>2. Running /\ Running' /\ tr'.pc # "await" /\ ~Holding /\ ~Holding'
  BY <1>1 DEF Running, Holding
<1>3. Reads' /\ \A b \in Nat : ActiveFrom(b) => ActiveFrom(b)'
  BY <1>1, <1>2 DEF Ordered, Reads, ActiveFrom
<1>4. QED BY <1>1, <1>2, <1>3, QuietStep

LEMMA RoundsOrdered == ASSUME IInv, Ordered, ControlTick \/ Prepared \/ StandbyArm PROVE Ordered'
<1>1. /\ sock \in [Roles -> Socket] /\ sock.prep \in Socket /\ sock.ready \in Socket
      /\ NoSocket \in Socket
  BY NoSocketTypes DEF IInv, TransportTypes, Roles
<1>2. /\ tr.pc = "select" /\ Off(sock.candidate) /\ Off(NoSocket)
      /\ Off(sock.ready) \/ StandbySound(sock.ready, tr.tokens)
      /\ Off(sock.prep) \/ StandbySound(sock.prep, tr.tokens)
      /\ UNCHANGED <<venue, out, bell, owner, shard, command, reply, receipt, left>>
  BY OffNothing DEF ControlTick, Prepared, StandbyArm, At, Ordered, Standbys
<1>3. CASE ControlTick
  BY <1>1, <1>2, <1>3, RoundOrdered DEF ControlTick
<1>4. CASE Prepared
  <2> DEFINE s == [sock EXCEPT !.prep = NoSocket]
             t == [s EXCEPT !.ready = sock.prep]
  <2>1. /\ s \in [Roles -> Socket] /\ s.prep = NoSocket /\ s.ready = sock.ready
        /\ s.candidate = sock.candidate /\ s.active = sock.active
    BY <1>1 DEF Roles
  <2> HIDE DEF s
  <2>2. /\ t \in [Roles -> Socket] /\ t.prep = NoSocket /\ t.ready = sock.prep
        /\ t.candidate = sock.candidate /\ t.active = sock.active
    BY <1>1, <2>1 DEF Roles
  <2> HIDE DEF t
  <2>3. After(s, {rot}) \/ After(t, {rot})
    BY <1>4 DEF Prepared, s, t
  <2>4. QED BY <1>2, <2>1, <2>2, <2>3, RoundOrdered
<1>5. CASE StandbyArm
  <2>1. ASSUME NEW n \in Socket, Off(n) \/ StandbySound(n, tr.tokens),
               After([sock EXCEPT !.ready = n], {rot})
        PROVE Ordered'
    <3> DEFINE s == [sock EXCEPT !.ready = n]
    <3>1. /\ s \in [Roles -> Socket] /\ s.prep = sock.prep /\ s.ready = n
          /\ s.candidate = sock.candidate /\ s.active = sock.active
      BY <1>1 DEF Roles
    <3>2. After(s, {rot})
      BY <2>1
    <3> HIDE DEF s
    <3>3. QED BY <1>2, <2>1, <3>1, <3>2, RoundOrdered
  <2>2. CASE sock.ready.queue = <<>>
    <3>1. After([sock EXCEPT !.ready = NoSocket], {rot})
      BY <1>5, <2>2 DEF StandbyArm
    <3>2. QED BY <1>1, <1>2, <2>1, <3>1
  <2>3. CASE sock.ready.queue # <<>>
    <3> DEFINE p == sock.ready
               f == Head(p.queue)
               s == [p EXCEPT !.queue = Tail(@)]
               next == IF ~Owned(f) THEN s
                       ELSE IF Retains(s, f) THEN Retained(s, f) ELSE NoSocket
    <3>1. /\ p.phase = "pumped" /\ StandbySound(p, tr.tokens) /\ p.queue \in Seq(Frame)
          /\ p.view \in [Tokens -> Nat] /\ p.ver \in Nat
      BY <1>1, <1>2, <1>5, OffNothing DEF StandbyArm, Socket
    <3>2. f \in Frame /\ Tail(p.queue) \in Seq(Frame) /\ tr.tokens \in SUBSET Tokens
      BY <2>3, <3>1, HeadTailProperties, SomeTokens
    <3>3. PICK v \in Nat : Leads(p.queue, tr.tokens, v, p.ver) /\ Holds(p.view, tr.tokens, v)
      BY <3>1 DEF StandbySound
    <3>4. PICK c \in Nat : Step(f, tr.tokens, v, c) /\ Leads(Tail(p.queue), tr.tokens, c, p.ver)
      BY <2>3, <3>1, <3>3, LeadsTail
    <3>5. Holds(Reduced(p.view, f), tr.tokens, c)
      BY <3>1, <3>2, <3>3, <3>4, ReducedStep
    <3>6. ~Owned(f) => c = v
      BY <3>4 DEF Owned, Step
    <3>7. /\ s \in Socket /\ s.sub = p.sub /\ s.owed = p.owed /\ s.phase = p.phase /\ s.ver = p.ver
          /\ s.view = p.view /\ s.queue = Tail(p.queue)
      BY <1>1, <3>2 DEF Socket
    <3> HIDE DEF f, s, p
    <3>8. \A i \in 1..Len(s.queue) : s.queue[i].toks \subseteq tr.tokens
      <4>1. ASSUME NEW i \in 1..Len(s.queue) PROVE s.queue[i].toks \subseteq tr.tokens
        <5>1. Len(p.queue) \in Nat \ {0}
          BY <2>3, <3>1, EmptySeq, LenProperties DEF p
        <5>2. Len(s.queue) = Len(p.queue) - 1 /\ s.queue[i] = p.queue[i + 1]
          BY <2>3, <3>1, <3>7, <4>1, HeadTailProperties DEF p
        <5>3. i + 1 \in 1..Len(p.queue)
          BY <5>1, <5>2
        <5>4. QED BY <3>1, <5>2, <5>3 DEF StandbySound
      <4>2. QED BY <4>1
    <3>9. ~Owned(f) => StandbySound(s, tr.tokens)
      BY <3>1, <3>3, <3>4, <3>6, <3>7, <3>8 DEF StandbySound
    <3>10. StandbySound(Retained(s, f), tr.tokens) /\ Retained(s, f) \in Socket
      <4> DEFINE m == Retained(s, f)
      <4>1. /\ m.sub = s.sub /\ m.owed = s.owed /\ m.ver = s.ver /\ m.queue = s.queue
            /\ m.phase = s.phase /\ m.view = Reduced(s.view, f)
        BY <3>2, <3>7, RetainedStep
      <4>2. m \in Socket
        BY <3>2, <3>7, RetainedTypes
      <4> HIDE DEF m
      <4>3. StandbySound(m, tr.tokens)
        BY <3>1, <3>4, <3>5, <3>7, <3>8, <4>1 DEF StandbySound
      <4>4. QED BY <4>2, <4>3 DEF m
    <3>11. next \in Socket /\ (Off(next) \/ StandbySound(next, tr.tokens))
      BY <1>1, <1>2, <3>7, <3>9, <3>10
    <3> HIDE DEF next
    <3>12. After([sock EXCEPT !.ready = next], {rot})
      BY <1>5, <2>3 DEF StandbyArm, next, s, f, p
    <3>13. QED BY <2>1, <3>11, <3>12
  <2>4. QED BY <2>2, <2>3
<1>6. QED BY <1>3, <1>4, <1>5

-----------------------------------------------------------------------------
(* Batches.                                                                *)

\* A batch that the transport pushes continues the lines.
LEMMA PushOrdered ==
  ASSUME IInv, Ordered, NEW e \in Entry, out' = Append(out, e),
         UNCHANGED <<owner, shard, receipt>>, Standbys', Reads', Handoff',
         \A T \in {shard.tokens, shard.target} \ {{}} : \A b \in Nat :
            (Running /\ tr.tokens = T /\ receipt # "committed" => ActiveFrom(b))
            => \E c \in Nat :
                  /\ Routed(e, T, b, c)
                  /\ Running' /\ tr'.tokens = T /\ receipt # "committed" => ActiveFrom(c)'
  PROVE Ordered'
<1>1. ASSUME NEW T \in {shard.tokens, shard.target} \ {{}}, NEW view, Chain(T, view)
      PROVE Chain(T, view)'
  <2>1. PICK a \in Nat, b \in Nat :
          /\ Holds(view, T, a) /\ Delivers(out, T, a, b)
          /\ Running /\ tr.tokens = T /\ receipt # "committed" => ActiveFrom(b)
    BY <1>1 DEF Chain
  <2>2. PICK c \in Nat :
          /\ Routed(e, T, b, c)
          /\ Running' /\ tr'.tokens = T /\ receipt # "committed" => ActiveFrom(c)'
    BY <2>1
  <2>3. out \in Seq(Entry)
    BY DEF IInv, TransportTypes
  <2>4. Delivers(out', T, a, c)
    BY <2>1, <2>2, <2>3, DeliversAppend
  <2>5. QED BY <2>1, <2>2, <2>4 DEF Chain
<1>2. shard.tokens # {}
  BY RotationAssumption DEF IInv, Membership
<1>3. Chains'
  <2>1. PICK T, view : T = shard.tokens /\ view = owner.view
    OBVIOUS
  <2>2. Chain(T, view)'
    BY <1>1, <1>2, <2>1 DEF Ordered, Chains
  <2>3. ASSUME shard.target # {} PROVE Chain(shard.target, Unknown)'
    <3>1. PICK S : S = shard.target
      OBVIOUS
    <3>2. Chain(S, Unknown)'
      BY <1>1, <2>3, <3>1 DEF Ordered, Chains
    <3>3. QED BY <3>1, <3>2
  <2>4. QED BY <2>1, <2>2, <2>3 DEF Chains
<1>4. Blank' /\ owner'.skewed = FALSE
  BY DEF Ordered, Blank
<1>5. QED BY <1>3, <1>4 DEF Ordered

\* The pair of the transport is the pair that its batches belong to.
LEMMA PairOf ==
  ASSUME IInv, NEW T \in {shard.tokens, shard.target} \ {{}}, tr.tokens \subseteq T
  PROVE tr.tokens = T
BY Apart DEF IInv, Membership

LEMMA DataOrdered ==
  ASSUME IInv, Ordered, NEW f \in Frame, Push(f, tr.epoch), tr.pc \in {"select", "sending"},
         NEW s \in [Roles -> Socket], NEW observed, After(s, observed),
         s.ready = sock.ready, s.prep = sock.prep, s.candidate = sock.candidate,
         s.active.sub = sock.active.sub, s.active.owed = sock.active.owed,
         \A i \in 1..Len(s.active.queue) : \E j \in 1..Len(sock.active.queue) :
            s.active.queue[i] = sock.active.queue[j],
         \A b \in Nat : ActiveFrom(b) =>
            \E c \in Nat : /\ f.toks \cap tr.tokens # {} /\ Step(f, tr.tokens, b, c)
                           /\ Leads(s.active.queue, tr.tokens, c, s.active.ver),
         UNCHANGED <<venue, owner, shard, command, reply, receipt, left>>
  PROVE Ordered'
<1> DEFINE e == [frame |-> f, source |-> tr.tokens, epoch |-> tr.epoch]
<1>1. /\ tr.epoch \in {0, 1} /\ tr.tokens \in SUBSET Tokens
  BY DEF IInv, TransportTypes, TransportState
<1>2. e \in Entry /\ e.frame = f /\ e.source = tr.tokens /\ f.kind \in {"book", "delta"}
  BY <1>1 DEF Entry, Frame
<1>3. out' = Append(out, e)
  BY DEF Push
<1> HIDE DEF e
<1>4. /\ Off(sock.ready) \/ StandbySound(sock.ready, tr.tokens)
      /\ Off(sock.prep) \/ StandbySound(sock.prep, tr.tokens)
      /\ Off(sock.candidate)
  BY DEF Ordered, Standbys
<1>5. /\ Standbys' /\ sock'.active = s.active
      /\ tr'.pc \in {"select", "offer"} /\ tr'.tokens = tr.tokens
  BY <1>4, AfterStandbys
<1>6. Running /\ Running' /\ ~Holding' /\ tr'.pc # "await" /\ receipt = "none"
  BY <1>5, NoReceipt DEF Running, Holding
<1>7. Reads'
  <2>1. sock.active.sub = tr.tokens /\ sock.active.owed \subseteq tr.tokens
    BY <1>6 DEF Ordered, Reads
  <2>2. QED BY <1>5, <1>6, <2>1, ReadsStep DEF Ordered
<1>8. Handoff'
  BY <1>6 DEF Handoff
<1>9. ASSUME NEW T \in {shard.tokens, shard.target} \ {{}}, NEW b \in Nat,
             tr.tokens = T => ActiveFrom(b)
      PROVE \E c \in Nat : Routed(e, T, b, c) /\ (tr'.tokens = T => ActiveFrom(c)')
  <2>1. CASE tr.tokens = T
    <3>1. PICK c \in Nat : /\ f.toks \cap tr.tokens # {} /\ Step(f, tr.tokens, b, c)
                           /\ Leads(s.active.queue, tr.tokens, c, s.active.ver)
      BY <1>9, <2>1
    <3>2. Routed(e, T, b, c)
      BY <1>2, <2>1, <3>1 DEF Routed, In, IsData
    <3>3. ActiveFrom(c)'
      BY <1>5, <1>6, <3>1 DEF ActiveFrom
    <3>4. QED BY <3>2, <3>3
  <2>2. CASE tr.tokens # T
    <3>1. ~In(e, T)
      BY <1>2, <2>2, PairOf DEF In
    <3>2. Routed(e, T, b, b)
      BY <3>1 DEF Routed
    <3>3. QED BY <1>5, <2>2, <3>2
  <2>3. QED BY <2>1, <2>2
<1>10. QED BY <1>2, <1>3, <1>5, <1>6, <1>7, <1>8, <1>9, PushOrdered

LEMMA TakeActiveOrdered == ASSUME IInv, Ordered, TakeActive PROVE Ordered'
<1> DEFINE p == sock.active
           f == Head(p.queue)
           s == [sock EXCEPT !.active.queue = Tail(@)]
<1>1. /\ sock \in [Roles -> Socket] /\ p \in Socket /\ tr \in TransportState
      /\ p.queue \in Seq(Frame) /\ p.queue # <<>> /\ tr.pc = "select"
      /\ UNCHANGED <<venue, owner, shard, command, reply, receipt, left>>
  BY DEF IInv, TransportTypes, Roles, Socket, TakeActive, At
<1>2. f \in Frame /\ Tail(p.queue) \in Seq(Frame) /\ Running /\ ~Holding
  BY <1>1, HeadTailProperties DEF Running, Holding
<1>3. /\ s \in [Roles -> Socket] /\ s.ready = sock.ready /\ s.prep = sock.prep
      /\ s.candidate = sock.candidate
      /\ s.active.queue = Tail(p.queue) /\ s.active.sub = p.sub /\ s.active.owed = p.owed
      /\ s.active.ver = p.ver
  BY <1>1, <1>2 DEF Roles, Socket
<1>4. \A i \in 1..Len(s.active.queue) : \E j \in 1..Len(p.queue) : s.active.queue[i] = p.queue[j]
  <2>1. ASSUME NEW i \in 1..Len(Tail(p.queue))
        PROVE \E j \in 1..Len(p.queue) : Tail(p.queue)[i] = p.queue[j]
    <3>1. Len(p.queue) \in Nat \ {0}
      BY <1>1, EmptySeq, LenProperties
    <3>2. Len(Tail(p.queue)) = Len(p.queue) - 1 /\ Tail(p.queue)[i] = p.queue[i + 1]
      BY <1>1, HeadTailProperties
    <3>3. i + 1 \in 1..Len(p.queue)
      BY <3>1, <3>2
    <3>4. QED BY <3>2, <3>3
  <2>2. QED BY <1>3, <2>1
<1>5. ASSUME NEW b \in Nat, ActiveFrom(b)
      PROVE \E c \in Nat : /\ Step(f, tr.tokens, b, c)
                           /\ Leads(s.active.queue, tr.tokens, c, s.active.ver)
  <2>1. Leads(p.queue, tr.tokens, b, p.ver)
    BY <1>2, <1>5 DEF ActiveFrom
  <2>2. QED BY <1>1, <1>3, <2>1, LeadsTail
<1>6. \/ ~Owned(f) /\ sock' = s /\ UNCHANGED <<tr, rot, out, bell>>
      \/ Owned(f) /\ Push(f, tr.epoch) /\ After(s, Observed(rot))
      \/ /\ Owned(f) /\ sock' = s /\ tr' = [tr EXCEPT !.pc = "sending", !.held = f]
         /\ UNCHANGED <<rot, out, bell>>
  BY DEF TakeActive
<1> HIDE DEF f, s, p
<1>7. CASE Owned(f) /\ Push(f, tr.epoch) /\ After(s, Observed(rot))
  <2>1. f.toks \cap tr.tokens # {} /\ tr.pc \in {"select", "sending"}
    BY <1>1, <1>7 DEF Owned
  <2>2. ASSUME NEW b \in Nat, ActiveFrom(b)
        PROVE \E c \in Nat : /\ f.toks \cap tr.tokens # {} /\ Step(f, tr.tokens, b, c)
                             /\ Leads(s.active.queue, tr.tokens, c, s.active.ver)
    BY <1>5, <2>1, <2>2
  <2>3. QED BY <1>1, <1>2, <1>3, <1>4, <1>7, <2>1, <2>2, DataOrdered DEF p
<1>8. CASE /\ sock' = s /\ UNCHANGED <<rot, out, bell>>
           /\ \/ ~Owned(f) /\ tr' = tr
              \/ Owned(f) /\ tr' = [tr EXCEPT !.pc = "sending", !.held = f]
  <2>1. /\ tr'.tokens = tr.tokens /\ tr'.pc \in {"select", "sending"} /\ Running'
        /\ IF Owned(f) THEN Holding' /\ tr'.held = f ELSE ~Holding'
    BY <1>1, <1>8 DEF TransportState, Running, Holding
  <2>2. Standbys'
    BY <1>1, <1>3, <1>8, <2>1 DEF Ordered, Standbys
  <2>3. Reads'
    <3>1. sock.active.sub = tr.tokens /\ sock.active.owed \subseteq tr.tokens
      BY <1>2 DEF Ordered, Reads
    <3>2. QED BY <1>1, <1>2, <1>3, <1>4, <1>8, <2>1, <3>1, ReadsStep DEF Ordered, p
  <2>4. ASSUME NEW b \in Nat, ActiveFrom(b) PROVE ActiveFrom(b)'
    <3>1. PICK c \in Nat : Step(f, tr.tokens, b, c) /\ Leads(s.active.queue, tr.tokens, c, s.active.ver)
      BY <1>5, <2>4
    <3>2. CASE Owned(f)
      BY <1>8, <2>1, <3>1, <3>2 DEF ActiveFrom, Owned
    <3>3. CASE ~Owned(f)
      <4>1. c = b
        BY <3>1, <3>3 DEF Owned, Step
      <4>2. QED BY <1>8, <2>1, <3>1, <3>3, <4>1 DEF ActiveFrom
    <3>4. QED BY <3>2, <3>3
  <2>5. QED BY <1>1, <1>2, <1>8, <2>1, <2>2, <2>3, <2>4, QuietStep
<1>9. QED BY <1>6, <1>7, <1>8

LEMMA PublishOrdered == ASSUME IInv, Ordered, Publish PROVE Ordered'
<1>1. /\ sock \in [Roles -> Socket] /\ tr.held \in Frame /\ tr.pc = "sending"
      /\ Push(tr.held, tr.epoch) /\ After(sock, Observed(rot))
      /\ UNCHANGED <<venue, owner, shard, command, reply, receipt, left>>
  BY DEF IInv, TransportTypes, Publish, At
<1>2. Running /\ Holding /\ receipt # "committed" /\ tr.pc \in {"select", "sending"}
  BY <1>1, NoReceipt DEF Running, Holding
<1>3. ASSUME NEW b \in Nat, ActiveFrom(b)
      PROVE \E c \in Nat : /\ tr.held.toks \cap tr.tokens # {} /\ Step(tr.held, tr.tokens, b, c)
                           /\ Leads(sock.active.queue, tr.tokens, c, sock.active.ver)
  BY <1>2, <1>3 DEF ActiveFrom
<1>4. \A i \in 1..Len(sock.active.queue) : \E j \in 1..Len(sock.active.queue) :
         sock.active.queue[i] = sock.active.queue[j]
  OBVIOUS
<1>5. QED BY <1>1, <1>2, <1>3, <1>4, DataOrdered

\* The checkpoint is the standby's books.
LEMMA OfferOrdered == ASSUME IInv, Ordered, Offer PROVE Ordered'
<1> DEFINE f == [kind |-> "checkpoint", toks |-> tr.tokens, view |-> sock.candidate.view]
           e == [frame |-> f, source |-> tr.tokens, epoch |-> 1 - tr.epoch]
<1>1. /\ tr \in TransportState /\ sock.candidate \in Socket
      /\ tr.tokens \in SUBSET Tokens /\ tr.epoch \in {0, 1} /\ tr.pc = "offer"
      /\ tr' = [tr EXCEPT !.pc = "await"] /\ out \in Seq(Entry)
      /\ UNCHANGED <<venue, sock, rot, owner, shard, command, reply, receipt, left>>
  BY DEF IInv, TransportTypes, TransportState, Roles, Offer, At
<1>2. /\ f \in Checkpoint /\ 1 - tr.epoch \in {0, 1} /\ f.kind = "checkpoint"
      /\ f.view = sock.candidate.view
  BY <1>1 DEF Checkpoint, Socket
<1>3. e \in Entry /\ e.frame = f /\ e.source = tr.tokens /\ out' = Append(out, e)
  BY <1>1, <1>2 DEF Entry, Offer, Push
<1> HIDE DEF f, e
<1>4. /\ tr'.tokens = tr.tokens /\ tr'.pc = "await" /\ Running /\ Running'
      /\ ~Holding /\ ~Holding'
  BY <1>1 DEF TransportState, Running, Holding
<1>5. Standbys' /\ Reads' /\ receipt = "none"
  BY <1>1, <1>4, NoReceipt DEF Ordered, Standbys, Reads
<1>6. Handoff'
  <2>1. /\ Len(out) \in Nat /\ Len(out') = Len(out) + 1 /\ out'[Len(out) + 1] = e
        /\ \A i \in 1..Len(out) : out'[i] = out[i]
    BY <1>1, <1>3, AppendProperties, LenProperties
  <2>2. \A i \in 1..Len(out) : out[i].frame.kind # "checkpoint"
    BY <1>1, NoReceipt
  <2>3. \A i \in 1..Len(out') : out'[i].frame.kind = "checkpoint" => out'[i] = e
    BY <2>1, <2>2
  <2>4. QED BY <1>1, <1>2, <1>3, <1>5, <2>3 DEF Handoff
<1>7. ASSUME NEW T \in {shard.tokens, shard.target} \ {{}}, NEW b \in Nat,
             tr.tokens = T => ActiveFrom(b)
      PROVE \E c \in Nat : Routed(e, T, b, c) /\ (tr'.tokens = T => ActiveFrom(c)')
  <2>1. Routed(e, T, b, b)
    <3>1. StandbySound(sock.candidate, tr.tokens)
      BY <1>1 DEF Ordered, Standbys
    <3>2. In(e, T) => tr.tokens = T
      BY <1>3, PairOf DEF In
    <3>3. PICK v \in Nat : Holds(sock.candidate.view, tr.tokens, v)
      BY <3>1 DEF StandbySound
    <3>4. QED BY <1>2, <1>3, <3>2, <3>3 DEF Routed
  <2>2. ActiveFrom(b) => ActiveFrom(b)'
    BY <1>1, <1>4 DEF ActiveFrom
  <2>3. QED BY <1>4, <1>7, <2>1, <2>2
<1>8. QED BY <1>1, <1>3, <1>4, <1>5, <1>6, <1>7, PushOrdered

LEMMA PublishGapOrdered == ASSUME IInv, Ordered, PublishGap PROVE Ordered'
<1> DEFINE f == [kind |-> "gap", toks |-> tr.tokens]
           e == [frame |-> f, source |-> tr.tokens, epoch |-> tr.epoch]
<1>1. /\ tr \in TransportState /\ tr.tokens \in SUBSET Tokens /\ tr.epoch \in {0, 1}
      /\ tr.pc = "gap" /\ tr' = [tr EXCEPT !.pc = "connect"]
      /\ UNCHANGED <<venue, sock, rot, owner, shard, command, reply, receipt, left>>
  BY DEF IInv, TransportTypes, TransportState, PublishGap, At
<1>2. f \in Gap /\ f.kind = "gap" /\ f.toks = tr.tokens
  BY <1>1 DEF Gap
<1>3. e \in Entry /\ e.frame = f /\ e.source = tr.tokens /\ out' = Append(out, e)
  BY <1>1, <1>2 DEF Entry, PublishGap, Push
<1> HIDE DEF f, e
<1>4. tr'.tokens = tr.tokens /\ tr'.pc = "connect" /\ ~Running /\ ~Running'
  BY <1>1 DEF TransportState, Running
<1>5. Standbys' /\ Reads' /\ Handoff'
  BY <1>1, <1>4 DEF Ordered, Standbys, Reads, Handoff
<1>6. ASSUME NEW T \in {shard.tokens, shard.target} \ {{}}, NEW b \in Nat
      PROVE Routed(e, T, b, b)
  <2>1. CASE In(e, T)
    BY <1>2, <1>3, <2>1, PairOf DEF Routed, In, IsGap
  <2>2. CASE ~In(e, T)
    BY <2>2 DEF Routed
  <2>3. QED BY <2>1, <2>2
<1>7. QED BY <1>1, <1>3, <1>4, <1>5, <1>6, PushOrdered

-----------------------------------------------------------------------------
(* Connections.                                                            *)

\* The connection ends, or the transport stops.
LEMMA EndOrdered ==
  ASSUME IInv, Ordered, UNCHANGED <<out, owner, shard>>, receipt' \in {receipt, "none"},
         sock' = NoSockets,
         tr'.pc \in {"gap", "stopped"}
  PROVE Ordered'
<1>1. /\ sock'.ready = NoSocket /\ sock'.prep = NoSocket /\ sock'.candidate = NoSocket
      /\ Off(NoSocket)
  BY OffNothing DEF Roles
<1>2. Standbys'
  BY <1>1 DEF Standbys
<1>3. ~Running' /\ tr'.pc # "await"
  BY DEF Running
<1>4. Reads'
  BY <1>3 DEF Reads
<1>5. QED BY <1>2, <1>3, <1>4, QuietStep

LEMMA EndsOrdered ==
  ASSUME IInv, Ordered, ConnectFails \/ ActiveEnds \/ UpdateFails \/ Shutdown PROVE Ordered'
<1>1. /\ UNCHANGED <<out, owner, shard, receipt>> /\ sock' = NoSockets
      /\ \/ \E T : tr' = [tr EXCEPT !.pc = "gap", !.held = NoFrame, !.tokens = T]
         \/ tr' = [tr EXCEPT !.pc = "stopped", !.held = NoFrame]
  BY DEF ConnectFails, ActiveEnds, UpdateFails, Shutdown, End
<1>2. tr'.pc \in {"gap", "stopped"}
  BY <1>1, SomeTokens DEF TransportState
<1>3. QED BY <1>1, <1>2, EndOrdered

\* A new line begins behind the gap.
LEMMA ConnectOrdered == ASSUME IInv, Ordered, Connect PROVE Ordered'
<1>1. /\ tr.pc = "connect" /\ tr' = [tr EXCEPT !.pc = "select", !.epoch = 1 - @]
      /\ sock' = [NoSockets EXCEPT !.active = NewSocket("pumped"), !.prep = NewSocket("seeding")]
      /\ UNCHANGED <<venue, out, bell, owner, shard, command, reply, receipt, left>>
      /\ tr \in TransportState /\ venue \in Nat /\ tr.tokens \in SUBSET Tokens
      /\ out \in Seq(Entry)
  BY SomeTokens DEF Connect, At, IInv, TransportTypes
<1>2. tr'.pc = "select" /\ tr'.tokens = tr.tokens /\ Running' /\ ~Running /\ ~Holding'
  BY <1>1 DEF TransportState, Running, Holding
<1>3. /\ sock'.active = NewSocket("pumped") /\ sock'.prep = NewSocket("seeding")
      /\ sock'.ready = NoSocket /\ sock'.candidate = NoSocket /\ Off(NoSocket)
  BY <1>1, OffNothing DEF NoSockets, Roles
<1>4. \A p \in {"pumped", "seeding"} :
        /\ NewSocket(p).sub = tr.tokens /\ NewSocket(p).owed = tr.tokens
        /\ NewSocket(p).queue = <<>> /\ NewSocket(p).ver = venue /\ NewSocket(p).view = Unknown
  BY DEF NewSocket, NoSocket
<1>5. Leads(<<>>, tr.tokens, venue, venue) /\ Len(<<>>) = 0 /\ Holds(Unknown, tr.tokens, venue)
  BY <1>1, LeadsNone, HoldsUnknown
<1>6. StandbySound(NewSocket("seeding"), tr.tokens)
  BY <1>1, <1>4, <1>5 DEF StandbySound
<1>7. Standbys'
  BY <1>2, <1>3, <1>6 DEF Standbys
<1>8. Reads'
  BY <1>2, <1>3, <1>4, <1>5 DEF Reads
<1>9. ActiveFrom(venue)'
  <2>1. sock'.active.queue = <<>> /\ sock'.active.ver = venue
    BY <1>3, <1>4
  <2>2. QED BY <1>1, <1>2, <1>5, <2>1 DEF ActiveFrom
<1>10. ASSUME NEW T, NEW view, T \in {shard.tokens, shard.target} \ {{}}, Chain(T, view),
              owner.source = {} /\ T = shard.tokens => Holds(view, T, 0),
              T = shard.tokens \/ view = Unknown
       PROVE Chain(T, view)'
  <2>1. PICK a \in Nat, b \in Nat : Holds(view, T, a) /\ Delivers(out, T, a, b)
    BY <1>10 DEF Chain
  <2>2. CASE tr.tokens # T
    BY <1>1, <1>2, <2>1, <2>2 DEF Chain
  <2>3. CASE tr.tokens = T /\ out = <<>>
    <3>1. Holds(view, T, venue)
      <4>1. CASE T = shard.tokens
        <5>1. Holds(view, T, 0)
          BY <1>1, <1>10, <2>3, <4>1 DEF IInv, Reconnecting
        <5>2. QED BY <5>1 DEF Holds
      <4>2. CASE view = Unknown
        BY <1>1, <2>3, <4>2, HoldsUnknown
      <4>3. QED BY <1>10, <4>1, <4>2
    <3>2. Delivers(<<>>, T, venue, venue)
      BY <1>1, DeliversNone
    <3>3. QED BY <1>1, <1>9, <2>3, <3>1, <3>2 DEF Chain
  <2>4. CASE tr.tokens = T /\ out # <<>>
    <3>1. IsGap(out[Len(out)]) /\ In(out[Len(out)], T)
      BY <1>1, <2>4 DEF IInv, Reconnecting, In
    <3>2. Delivers(out, T, a, venue)
      BY <1>1, <2>1, <2>4, <3>1, DeliversGap
    <3>3. QED BY <1>1, <1>9, <2>1, <3>2 DEF Chain
  <2>5. QED BY <2>2, <2>3, <2>4
<1>11. Chains'
  <2>1. shard.tokens # {} /\ shard.target # shard.tokens
    BY RotationAssumption DEF IInv, Membership
  <2>2. PICK T, view : T = shard.tokens /\ view = owner.view
    OBVIOUS
  <2>3. Chain(T, view)'
    BY <1>10, <2>1, <2>2 DEF Ordered, Chains, Blank
  <2>4. ASSUME shard.target # {} PROVE Chain(shard.target, Unknown)'
    <3>1. PICK S : S = shard.target
      OBVIOUS
    <3>2. Chain(S, Unknown)'
      BY <1>10, <2>1, <2>4, <3>1 DEF Ordered, Chains
    <3>3. QED BY <1>1, <3>1, <3>2
  <2>5. QED BY <1>1, <2>2, <2>3, <2>4 DEF Chains
<1>12. Blank' /\ Handoff' /\ owner'.skewed = FALSE
  BY <1>1, <1>2 DEF Ordered, Blank, Handoff
<1>13. QED BY <1>7, <1>8, <1>11, <1>12 DEF Ordered

\* A committed standby goes on where its books, now the owner's, end.
LEMMA SwitchOrdered == ASSUME IInv, Ordered, Switch PROVE Ordered'
<1>1. /\ tr.pc = "await" /\ receipt # "none" /\ receipt' = "none" /\ tr \in TransportState
      /\ UNCHANGED <<venue, out, bell, owner, shard, command, reply, left>>
      /\ sock.candidate \in Socket /\ sock \in [Roles -> Socket] /\ out = <<>>
      /\ Running /\ ~Holding /\ Off(NoSocket)
  BY OffNothing DEF Switch, At, IInv, TransportTypes, Roles, Checkpoints, Running, Holding
<1>2. CASE /\ receipt = "rejected" /\ tr' = [tr EXCEPT !.pc = "select"]
           /\ sock' = [sock EXCEPT !.candidate = NoSocket]
  <2>1. tr'.tokens = tr.tokens /\ tr'.pc = "select" /\ ~Holding' /\ Running'
    BY <1>1, <1>2 DEF TransportState, Running, Holding
  <2>2. /\ sock'.active = sock.active /\ sock'.ready = sock.ready /\ sock'.prep = sock.prep
        /\ sock'.candidate = NoSocket
    BY <1>1, <1>2 DEF Roles
  <2>3. Standbys'
    BY <1>1, <2>1, <2>2 DEF Ordered, Standbys
  <2>4. Reads' /\ \A b \in Nat : ActiveFrom(b) => ActiveFrom(b)'
    BY <1>1, <2>1, <2>2 DEF Ordered, Reads, ActiveFrom
  <2>5. QED BY <1>1, <1>2, <2>1, <2>3, <2>4, QuietStep
<1>3. CASE CandidateLost
  <2>1. /\ tr' = [tr EXCEPT !.pc = "gap", !.held = NoFrame, !.tokens = tr.tokens]
        /\ sock' = NoSockets
    BY <1>3 DEF CandidateLost, End
  <2>2. tr'.pc = "gap"
    BY <1>1, <2>1 DEF TransportState
  <2>3. QED BY <1>1, <2>1, <2>2, EndOrdered
<1>4. CASE /\ receipt = "committed"
           /\ tr' = [tr EXCEPT !.pc = "select", !.epoch = 1 - @]
           /\ sock' = [NoSockets EXCEPT !.active =
                [sock.candidate EXCEPT !.books = {}, !.view = Unknown, !.size = 0]]
  <2> DEFINE p == sock.candidate
  <2>1. tr'.tokens = tr.tokens /\ tr'.pc = "select" /\ ~Holding' /\ Running'
    BY <1>1, <1>4 DEF TransportState, Running, Holding
  <2>2. /\ sock'.active = [p EXCEPT !.books = {}, !.view = Unknown, !.size = 0]
        /\ sock'.ready = NoSocket /\ sock'.prep = NoSocket /\ sock'.candidate = NoSocket
    BY <1>4 DEF NoSockets, Roles
  <2>3. /\ sock'.active.sub = p.sub /\ sock'.active.owed = p.owed
        /\ sock'.active.queue = p.queue /\ sock'.active.ver = p.ver
    BY <1>1, <2>2 DEF Socket
  <2>4. StandbySound(p, tr.tokens) /\ owner.view = p.view /\ tr.tokens = shard.tokens
    BY <1>1, <1>4 DEF Ordered, Standbys, Handoff
  <2> HIDE DEF p
  <2>5. Standbys'
    BY <1>1, <2>1, <2>2 DEF Standbys
  <2>6. Reads'
    <3>1. /\ p.sub = tr.tokens /\ p.owed \subseteq tr.tokens
          /\ \A i \in 1..Len(p.queue) : p.queue[i].toks \subseteq tr.tokens
      BY <2>4 DEF StandbySound
    <3>2. ASSUME NEW i \in 1..Len(p.queue)
          PROVE /\ \A P \in left.pairs : p.queue[i].toks \cap P = {}
                /\ tr.tokens = shard.tokens => p.queue[i].toks \cap shard.target = {}
      BY <3>1, Elsewhere
    <3>3. QED BY <1>1, <2>1, <2>3, <3>1, <3>2 DEF Reads
  <2>7. PICK v \in Nat : Leads(p.queue, tr.tokens, v, p.ver) /\ Holds(p.view, tr.tokens, v)
    BY <2>4 DEF StandbySound
  <2>8. ActiveFrom(v)'
    BY <2>1, <2>3, <2>7 DEF ActiveFrom
  <2>9. Chains'
    <3>1. PICK T, view : T = shard.tokens /\ view = owner.view
      OBVIOUS
    <3>2. Delivers(out', T, v, v)
      BY <1>1, DeliversNone
    <3>3. Chain(T, view)'
      BY <2>4, <2>7, <2>8, <3>1, <3>2 DEF Chain
    <3>4. ASSUME shard.target # {} PROVE Chain(shard.target, Unknown)'
      <4>1. PICK S : S = shard.target
        OBVIOUS
      <4>2. S # tr.tokens
        BY <2>4, <4>1 DEF IInv, Membership
      <4>3. Chain(S, Unknown)
        BY <3>4, <4>1 DEF Ordered, Chains
      <4>4. Chain(S, Unknown)'
        BY <1>1, <2>1, <4>2, <4>3 DEF Chain
      <4>5. QED BY <1>1, <4>1, <4>4
    <3>5. QED BY <1>1, <3>1, <3>3, <3>4 DEF Chains
  <2>10. Blank' /\ Handoff' /\ owner'.skewed = FALSE
    BY <1>1, <2>1 DEF Ordered, Blank, Handoff
  <2>11. QED BY <2>5, <2>6, <2>9, <2>10 DEF Ordered
<1>5. QED BY <1>2, <1>3, <1>4 DEF Switch

LEMMA UpdateRefusedOrdered == ASSUME IInv, Ordered, UpdateRefused PROVE Ordered'
<1>1. /\ tr.pc = "select" /\ sock' = DropStandby(sock) /\ sock \in [Roles -> Socket]
      /\ UNCHANGED <<venue, tr, out, bell, owner, shard, receipt, left>> /\ Off(NoSocket)
  BY OffNothing DEF UpdateRefused, At, IInv, TransportTypes
<1>2. /\ sock'.active = sock.active /\ sock'.ready = NoSocket /\ sock'.prep = NoSocket
      /\ sock'.candidate = sock.candidate
  BY <1>1 DEF DropStandby, Roles
<1>3. Standbys'
  BY <1>1, <1>2 DEF Ordered, Standbys
<1>4. Running' => Running
  BY <1>1 DEF Running
<1>5. Reads' /\ \A b \in Nat : ActiveFrom(b) => ActiveFrom(b)'
  BY <1>1, <1>2, <1>4 DEF Ordered, Reads, ActiveFrom, Holding
<1>6. QED BY <1>1, <1>2, <1>3, <1>4, <1>5, QuietStep

\* The new pair: nothing of it is queued, its books are what the socket owes.
LEMMA UpdateOrdered == ASSUME IInv, Ordered, Update PROVE Ordered'
<1>1. /\ tr.pc = "select" /\ command # NoCommand /\ command.expected = tr.tokens
      /\ tr \in TransportState /\ tr' = [tr EXCEPT !.tokens = command.target]
      /\ sock' = [DropStandby(sock) EXCEPT !.active =
                        [@ EXCEPT !.sub = command.target, !.owed = command.target]]
      /\ UNCHANGED <<venue, out, bell, owner, shard, receipt, left>>
      /\ sock \in [Roles -> Socket] /\ sock.active \in Socket /\ out \in Seq(Entry)
      /\ Off(NoSocket)
  BY OffNothing DEF Update, Conflict, At, IInv, TransportTypes, Roles
<1>2. /\ command.target = shard.target /\ shard.target # {} /\ tr.tokens = shard.tokens
      /\ shard.target # shard.tokens /\ shard.target \in SUBSET Tokens
  <2>1. command = [expected |-> shard.tokens, target |-> shard.target]
    BY <1>1 DEF IInv, Membership
  <2>2. QED BY <1>1, <2>1 DEF IInv, Membership, OwnerTypes
<1>3. /\ tr'.pc = "select" /\ tr'.tokens = shard.target /\ Running /\ Running'
      /\ ~Holding' /\ receipt = "none"
  BY <1>1, <1>2, NoReceipt DEF TransportState, Running, Holding
<1>4. /\ sock'.ready = NoSocket /\ sock'.prep = NoSocket /\ sock'.candidate = sock.candidate
      /\ sock'.active = [sock.active EXCEPT !.sub = shard.target, !.owed = shard.target]
  BY <1>1, <1>2 DEF DropStandby, Roles
<1>5. /\ sock'.active.sub = shard.target /\ sock'.active.owed = shard.target
      /\ sock'.active.queue = sock.active.queue /\ sock'.active.ver = sock.active.ver
  <2>1. PICK p, S : p = sock.active /\ S = shard.target /\ p \in Socket
    BY <1>1
  <2>2. /\ [p EXCEPT !.sub = S, !.owed = S].sub = S /\ [p EXCEPT !.sub = S, !.owed = S].owed = S
        /\ [p EXCEPT !.sub = S, !.owed = S].queue = p.queue
        /\ [p EXCEPT !.sub = S, !.owed = S].ver = p.ver
    BY ONLY <2>1 DEF Socket
  <2>3. QED BY <1>4, <2>1, <2>2
<1> PICK v \in Nat : v = sock.active.ver
  BY <1>1 DEF Socket
<1>6. Standbys'
  BY <1>1, <1>3, <1>4 DEF Ordered, Standbys
<1>7. Reads'
  BY <1>1, <1>2, <1>3, <1>5 DEF Ordered, Reads
<1>8. ActiveFrom(v)'
  <2>1. PICK S : S = shard.target
    OBVIOUS
  <2>2. \A i \in 1..Len(sock.active.queue) : sock.active.queue[i].toks \cap S = {}
    BY <1>2, <1>3, <2>1 DEF Ordered, Reads
  <2>3. sock.active.queue \in Seq(Frame)
    BY <1>1 DEF Socket
  <2>4. Leads(sock.active.queue, S, v, v)
    BY <2>2, <2>3, LeadsForeign
  <2>5. QED BY <1>3, <1>5, <2>1, <2>4 DEF ActiveFrom
<1>9. Chains'
  <2>1. PICK T, view, S : T = shard.tokens /\ view = owner.view /\ S = shard.target
    OBVIOUS
  <2>2. Chain(T, view)'
    <3>1. Chain(T, view)
      BY <2>1 DEF Ordered, Chains
    <3>2. QED BY <1>1, <1>2, <1>3, <2>1, <3>1 DEF Chain
  <2>3. Chain(S, Unknown)'
    <3>1. \A i \in 1..Len(out) : ~In(out[i], S)
      BY <1>2, <2>1 DEF IInv, Fresh, Absent
    <3>2. Delivers(out, S, v, v)
      BY <1>1, <1>5, <2>1, <3>1, DeliversForeign
    <3>3. Holds(Unknown, S, v)
      BY <1>2, <2>1, HoldsUnknown
    <3>4. QED BY <1>1, <1>8, <3>2, <3>3 DEF Chain
  <2>4. QED BY <1>1, <2>1, <2>2, <2>3 DEF Chains
<1>10. Blank' /\ Handoff' /\ owner'.skewed = FALSE
  BY <1>1, <1>3 DEF Ordered, Blank, Handoff
<1>11. QED BY <1>6, <1>7, <1>9, <1>10 DEF Ordered

-----------------------------------------------------------------------------
(* The owner and the shard.                                                *)

LEMMA BellOrdered ==
  ASSUME IInv, Ordered, Signal \/ Wake \/ Consume \/ TakeNothing PROVE Ordered'
<1>1. /\ UNCHANGED <<venue, sock, tr, rot, out, shard, command, reply, receipt, left>>
      /\ owner \in OwnerState
      /\ \/ owner' = owner \/ owner' = [owner EXCEPT !.pc = "woken"]
         \/ owner' = [owner EXCEPT !.pc = "take"] \/ owner' = [owner EXCEPT !.pc = "idle"]
  BY DEF Signal, Wake, Consume, TakeNothing, IInv, OwnerTypes
<1>2. owner'.source = owner.source /\ owner'.view = owner.view /\ owner'.skewed = owner.skewed
  BY <1>1 DEF OwnerState
<1>3. Standbys' /\ Reads' /\ \A b \in Nat : ActiveFrom(b) => ActiveFrom(b)'
  BY <1>1 DEF Ordered, Standbys, Reads, Running, ActiveFrom, Holding
<1>4. Running' => Running
  BY <1>1 DEF Running
<1>5. QED BY <1>1, <1>2, <1>3, <1>4, QuietStep

\* The owner takes a batch: its books follow the line of its pair.
LEMMA TakeOrdered == ASSUME IInv, Ordered, Take PROVE Ordered'
<1> PICK e : e = out[1]
  OBVIOUS
<1> PICK T, S, view : T = shard.tokens /\ S = shard.target /\ view = owner.view
  OBVIOUS
<1> DEFINE f == e.frame
           routed == In(e, T)
           back == [owner EXCEPT !.pc = "idle"]
<1>1. /\ out \in Seq(Entry) /\ out # <<>> /\ out' = Tail(out) /\ Head(out) = e /\ e \in Entry
      /\ Len(out) \in Nat \ {0} /\ Len(out') = Len(out) - 1
      /\ \A i \in 1..Len(out') : out'[i] = out[i + 1]
  <2>1. out \in Seq(Entry) /\ out # <<>> /\ out' = Tail(out)
    BY DEF IInv, TransportTypes, Take
  <2>2. Len(out) \in Nat \ {0}
    BY <2>1, EmptySeq, LenProperties
  <2>3. QED BY <2>1, <2>2, HeadTailProperties, ElementOfSeq
<1>2. /\ UNCHANGED <<venue, sock, tr, rot, shard, command, reply>> /\ owner \in OwnerState
      /\ \/ /\ f.kind \in {"book", "delta"} /\ UNCHANGED <<receipt, left>>
            /\ owner' = IF routed THEN Reduce(f, e.epoch) ELSE back
         \/ /\ f.kind = "gap" /\ UNCHANGED <<receipt, left>>
            /\ owner' = IF routed THEN [back EXCEPT !.source = {}, !.view = Without(f.toks)]
                        ELSE back
         \/ /\ f.kind = "checkpoint" /\ routed /\ UNCHANGED left
            /\ receipt' = "committed"
            /\ owner' = [back EXCEPT !.source = {e.epoch}, !.view = f.view]
         \/ /\ f.kind = "checkpoint" /\ receipt' = "rejected" /\ owner' = back
            /\ Faulty \/ UNCHANGED left
  BY <1>1 DEF Take, In, IInv, OwnerTypes
<1>3. /\ view \in [Tokens -> Nat] /\ T \in SUBSET Tokens /\ T # {}
      /\ owner.skewed = FALSE /\ left'.pairs = left.pairs
  <2>1. left'.pairs = left.pairs
    BY <1>2, FaultyLeft, LeftStays
  <2>2. QED BY <2>1, RotationAssumption DEF IInv, OwnerTypes, OwnerState, Membership, Ordered
<1>4. ASSUME NEW X, NEW a, NEW b, Delivers(out, X, a, b)
      PROVE \E c \in Nat : Routed(e, X, a, c) /\ Delivers(out', X, c, b)
  BY <1>1, <1>4, DeliversTail
<1>5. PICK a \in Nat, b \in Nat :
        /\ Holds(view, T, a) /\ Delivers(out, T, a, b)
        /\ Running /\ tr.tokens = T /\ receipt # "committed" => ActiveFrom(b)
  <2>1. Chain(T, view)
    BY DEF Ordered, Chains
  <2>2. QED BY <2>1 DEF Chain
<1>6. PICK c \in Nat : Routed(e, T, a, c) /\ Delivers(out', T, c, b)
  BY <1>4, <1>5
<1>7. \A n \in Nat : ActiveFrom(n) => ActiveFrom(n)'
  BY <1>2 DEF ActiveFrom, Holding
<1>8. /\ f.kind # "checkpoint" => receipt' = receipt
      /\ f.kind = "checkpoint" => receipt = "none" /\ Len(out) = 1 /\ out' = <<>>
                                  /\ tr.pc \in {"await", "stopped"}
  <2>1. 1 \in 1..Len(out)
    BY <1>1
  <2>2. CASE f.kind = "checkpoint"
    <3>1. 1 = Len(out) /\ tr.pc \in {"await", "stopped"} /\ receipt = "none"
      BY <1>1, <2>1, <2>2 DEF IInv, Checkpoints, OwnerTypes
    <3>2. out' = <<>>
      BY <1>1, <3>1, HeadTailProperties, EmptySeq
    <3>3. QED BY <3>1, <3>2, <2>2
  <2>3. CASE f.kind # "checkpoint"
    BY <1>2, <2>3
  <2>4. QED BY <2>2, <2>3
\* The pair that is to come has no books yet.
<1>9. S # {} => Chain(S, Unknown)'
  <2> SUFFICES ASSUME S # {} PROVE Chain(S, Unknown)'
    OBVIOUS
  <2>1. Chain(S, Unknown) /\ S \in SUBSET Tokens
    BY DEF Ordered, Chains, IInv, OwnerTypes
  <2>2. PICK m \in Nat, n \in Nat :
          /\ Delivers(out, S, m, n)
          /\ Running /\ tr.tokens = S /\ receipt # "committed" => ActiveFrom(n)
    BY <2>1 DEF Chain
  <2>3. PICK k \in Nat : Delivers(out', S, k, n)
    BY <1>4, <2>2
  <2>4. Holds(Unknown, S, k)
    BY <2>1, HoldsUnknown
  <2>5. Running' /\ tr'.tokens = S /\ receipt' # "committed" => ActiveFrom(n)'
    BY <1>2, <1>7, <1>8, <2>2 DEF Running
  <2>6. QED BY <2>3, <2>4, <2>5 DEF Chain
\* The books that the owner leaves as they are.
<1>10. ASSUME owner' = back, c = a, receipt' # "committed" \/ receipt' = receipt
       PROVE /\ Chain(T, owner.view)' /\ Blank' /\ owner'.skewed = FALSE
             /\ owner'.view = owner.view
  <2>1. /\ owner'.view = view /\ owner'.source = owner.source /\ owner'.skewed = owner.skewed
    BY <1>2, <1>10 DEF OwnerState
  <2>2. Running' /\ tr'.tokens = T /\ receipt' # "committed" => ActiveFrom(b)'
    BY <1>2, <1>5, <1>7, <1>8, <1>10 DEF Running
  <2>3. Chain(T, view)'
    BY <1>5, <1>6, <1>10, <2>2 DEF Chain
  <2>4. QED BY <1>2, <1>3, <2>1, <2>3 DEF Ordered, Blank
<1> HIDE DEF back
<1>11. /\ Chain(T, owner.view)' /\ Blank' /\ owner'.skewed = FALSE
       /\ receipt' = "committed" => /\ owner'.view = f.view /\ routed
                                    /\ f.kind = "checkpoint"
                                    \/ receipt = "committed"
  <2>1. CASE f.kind \in {"book", "delta"} /\ routed
    <3>1. owner' = Reduce(f, e.epoch) /\ receipt' = receipt
      BY <1>2, <2>1
    <3>2. f \in Frame
      BY <1>1, <2>1 DEF Entry, Checkpoint, Gap
    <3>3. f.toks \cap T # {} /\ Step(f, T, a, c)
      BY <1>6, <2>1 DEF Routed, IsGap
    <3>4. Holds(Reduced(view, f), T, c) /\ ~OutOfOrder(view, f)
      BY <1>3, <1>5, <3>2, <3>3, ReducedStep
    <3>5. owner'.view = Reduced(view, f) /\ owner'.source = {e.epoch} /\ owner'.skewed = FALSE
      <4>1. (owner.skewed \/ OutOfOrder(owner.view, f)) = FALSE
        BY <1>3, <3>4
      <4>2. QED BY <1>2, <3>1, <4>1 DEF Reduce, OwnerState
    <3>6. Running' /\ tr'.tokens = T /\ receipt' # "committed" => ActiveFrom(b)'
      BY <1>2, <1>5, <1>7, <3>1 DEF Running
    <3>7. PICK w : w = Reduced(view, f)
      OBVIOUS
    <3>8. Chain(T, w)'
      BY <1>6, <3>4, <3>6, <3>7 DEF Chain
    <3>9. QED BY <3>1, <3>5, <3>7, <3>8 DEF Blank
  <2>2. CASE f.kind = "gap" /\ routed
    <3>1. owner' = [back EXCEPT !.source = {}, !.view = Without(f.toks)] /\ receipt' = receipt
      BY <1>2, <2>2
    <3>2. f.toks = T
      BY <1>6, <2>2 DEF Routed, IsData
    <3>3. owner'.view = Without(T) /\ owner'.skewed = FALSE
      BY <1>2, <1>3, <3>1, <3>2 DEF OwnerState, back
    <3>4. PICK w : w = Without(T)
      OBVIOUS
    <3>5. \A n : Holds(w, T, n)
      BY <1>3, <3>4 DEF Holds, Without
    <3>6. Running' /\ tr'.tokens = T /\ receipt' # "committed" => ActiveFrom(b)'
      BY <1>2, <1>5, <1>7, <3>1 DEF Running
    <3>7. Chain(T, w)'
      BY <1>6, <3>5, <3>6 DEF Chain
    <3>8. QED BY <1>2, <3>1, <3>3, <3>4, <3>5, <3>7 DEF Blank
  <2>3. CASE /\ f.kind = "checkpoint" /\ routed /\ receipt' = "committed"
             /\ owner' = [back EXCEPT !.source = {e.epoch}, !.view = f.view]
    <3>1. PICK w : w = f.view
      OBVIOUS
    <3>2. /\ owner'.view = w /\ owner'.source = {e.epoch} /\ owner'.skewed = FALSE
      BY <1>2, <1>3, <2>3, <3>1 DEF OwnerState, back
    <3>3. PICK v \in Nat : Holds(w, T, v)
      BY <1>6, <2>3, <3>1 DEF Routed, IsData, IsGap
    <3>4. Delivers(out', T, v, v)
      BY <1>8, <2>3, DeliversNone
    <3>5. Chain(T, w)'
      BY <2>3, <3>3, <3>4 DEF Chain
    <3>6. QED BY <2>3, <3>1, <3>2, <3>5 DEF Blank
  <2>4. CASE ~routed /\ owner' = back /\ receipt' # "committed"
    <3>1. c = a
      BY <1>6, <2>4 DEF Routed
    <3>2. QED BY <1>10, <2>4, <3>1
  <2>5. CASE f.kind = "checkpoint" /\ owner' = back /\ receipt' # "committed"
    <3>1. c = a
      BY <1>6, <2>5 DEF Routed, IsData, IsGap
    <3>2. QED BY <1>10, <2>5, <3>1
  <2>6. CASE ~routed /\ owner' = back /\ receipt' = receipt
    <3>1. c = a
      BY <1>6, <2>6 DEF Routed
    <3>2. QED BY <1>10, <2>6, <3>1
  <2> HIDE DEF f, routed
  <2>7. QED BY <1>2, <2>1, <2>2, <2>3, <2>4, <2>5, <2>6
<1>12. Chains'
  BY <1>2, <1>9, <1>11 DEF Chains
<1>13. Standbys' /\ Reads'
  BY <1>2, <1>3 DEF Ordered, Standbys, Reads, Running
<1>14. Handoff'
  <2>1. \A i \in 1..Len(out') : out'[i].frame.kind = "checkpoint" /\ tr.pc = "await"
          => out'[i].frame.view = sock.candidate.view /\ out'[i].source = tr.tokens
    <3>1. \A i \in 1..Len(out') : i + 1 \in 1..Len(out) /\ out'[i] = out[i + 1]
      BY <1>1
    <3>2. QED BY <3>1 DEF Ordered, Handoff
  <2>2. ASSUME receipt' = "committed", tr.pc = "await"
        PROVE owner'.view = sock.candidate.view /\ tr.tokens = shard.tokens
    <3>1. receipt # "committed"
      BY <1>1 DEF IInv, Checkpoints
    <3>2. owner'.view = f.view /\ routed /\ f.kind = "checkpoint"
      BY <1>11, <2>2, <3>1
    <3>3. 1 \in 1..Len(out)
      BY <1>1
    <3>4. f.view = sock.candidate.view /\ e.source = tr.tokens
      BY <2>2, <3>2, <3>3 DEF Ordered, Handoff
    <3>5. tr.tokens = T
      <4>1. tr.tokens \subseteq T
        BY <3>2, <3>4 DEF In
      <4>2. QED BY <1>3, <4>1, PairOf
    <3>6. QED BY <3>2, <3>4, <3>5
  <2>3. QED BY <1>2, <2>1, <2>2 DEF Handoff
<1>15. QED BY <1>11, <1>12, <1>13, <1>14 DEF Ordered

\* A pair is asked for: its line begins with no books and no batch.
LEMMA ReplaceOrdered == ASSUME IInv, Ordered, NEW P \in Pairs, Replace(P) PROVE Ordered'
<1>1. /\ P \in left.pairs /\ left' = [left EXCEPT !.pairs = @ \ {P}] /\ shard.target = {}
      /\ shard' = [shard EXCEPT !.target = P, !.pending = TRUE]
      /\ UNCHANGED <<venue, sock, tr, rot, out, bell, owner, reply, receipt>>
      /\ shard \in [tokens : SUBSET Tokens, target : SUBSET Tokens, pending : BOOLEAN]
      /\ left \in [faults : Nat, pairs : SUBSET Pairs] /\ out \in Seq(Entry)
      /\ P \in SUBSET Tokens
  BY DEF Replace, IInv, OwnerTypes, TransportTypes, Tokens
<1>2. shard'.tokens = shard.tokens /\ shard'.target = P /\ left'.pairs = left.pairs \ {P}
  BY <1>1
<1>3. tr.tokens = shard.tokens /\ P # shard.tokens /\ Absent(P)
  BY <1>1 DEF IInv, Membership, Fresh
<1>4. Standbys' /\ Blank' /\ Handoff' /\ owner'.skewed = FALSE
  BY <1>1, <1>2 DEF Ordered, Standbys, Blank, Handoff
<1>5. Reads'
  BY <1>1, <1>2 DEF Ordered, Reads, Running
<1>6. Chains'
  <2>1. PICK T, view : T = shard.tokens /\ view = owner.view
    OBVIOUS
  <2>2. Chain(T, view) => Chain(T, view)'
    BY <1>1 DEF Chain, Running, ActiveFrom, Holding
  <2>3. Chain(P, Unknown)'
    <3>1. 0 \in Nat /\ Delivers(out, P, 0, 0)
      BY <1>1, <1>3, DeliversForeign DEF Absent
    <3>2. Holds(Unknown, P, 0)
      BY <1>1, HoldsUnknown
    <3>3. tr'.tokens # P
      BY <1>1, <1>3
    <3>4. QED BY <1>1, <3>1, <3>2, <3>3 DEF Chain
  <2>4. QED BY <1>1, <1>2, <2>1, <2>2, <2>3 DEF Ordered, Chains
<1>7. QED BY <1>4, <1>5, <1>6 DEF Ordered

LEMMA PollRetirementsOrdered == ASSUME IInv, Ordered, PollRetirements PROVE Ordered'
<1>1. /\ shard.target # {}
      /\ UNCHANGED <<venue, sock, tr, rot, out, bell, receipt, left>>
      /\ shard \in [tokens : SUBSET Tokens, target : SUBSET Tokens, pending : BOOLEAN]
      /\ owner \in OwnerState
  BY DEF PollRetirements, IInv, OwnerTypes
<1>2. CASE /\ UNCHANGED owner
           /\ \/ shard' = [shard EXCEPT !.pending = TRUE]
              \/ shard' = [shard EXCEPT !.pending = FALSE]
  <2>1. shard'.tokens = shard.tokens /\ shard'.target = shard.target
    BY <1>1, <1>2
  <2>2. Standbys' /\ Reads' /\ \A b \in Nat : ActiveFrom(b) => ActiveFrom(b)'
    BY <1>1, <1>2, <2>1 DEF Ordered, Standbys, Reads, Running, ActiveFrom, Holding
  <2>3. Running' => Running
    BY <1>1 DEF Running
  <2>4. QED BY <1>1, <1>2, <2>1, <2>2, <2>3, QuietStep
<1>3. CASE /\ shard.pending /\ reply = "done"
           /\ shard' = [tokens |-> shard.target, target |-> {}, pending |-> FALSE]
           /\ owner' = [owner EXCEPT !.view = Unknown, !.source = {}]
  <2>1. /\ shard'.tokens = shard.target /\ shard'.target = {}
        /\ owner'.view = Unknown /\ owner'.skewed = owner.skewed
    BY <1>1, <1>3 DEF OwnerState
  <2>2. tr.tokens = shard.target /\ shard.target # shard.tokens /\ shard.target \in SUBSET Tokens
    BY <1>3 DEF IInv, Membership, OwnerTypes
  <2>3. Standbys' /\ Reads' /\ Handoff'
    BY <1>1, <2>1, <2>2 DEF Ordered, Standbys, Reads, Running, Handoff
  <2>4. Blank' /\ owner'.skewed = FALSE
    BY <2>1, <2>2, HoldsUnknown DEF Ordered, Blank
  <2>5. Chains'
    <3>1. PICK S : S = shard.target
      OBVIOUS
    <3>2. Chain(S, Unknown)
      BY <1>1, <3>1 DEF Ordered, Chains
    <3>3. Chain(S, Unknown)'
      BY <1>1, <3>2 DEF Chain, Running, ActiveFrom, Holding
    <3>4. PICK w : w = Unknown
      OBVIOUS
    <3>5. QED BY <2>1, <3>1, <3>3 DEF Chains
  <2>6. QED BY <2>3, <2>4, <2>5 DEF Ordered
<1>4. QED BY <1>2, <1>3 DEF PollRetirements

LEMMA ShardRestartsOrdered == ASSUME IInv, Ordered, ShardRestarts PROVE Ordered'
<1>1. /\ sock' = NoSockets /\ out' = <<>> /\ receipt' = "none"
      /\ tr' = [tr EXCEPT !.pc = "connect", !.tokens = shard.tokens, !.held = NoFrame]
      /\ owner' = [owner EXCEPT !.view = Unknown, !.source = {}]
      /\ shard' = [shard EXCEPT !.pending = FALSE]
      /\ shard \in [tokens : SUBSET Tokens, target : SUBSET Tokens, pending : BOOLEAN]
      /\ owner \in OwnerState /\ tr \in TransportState
  BY DEF ShardRestarts, IInv, OwnerTypes, TransportTypes
<1>2. /\ tr'.pc = "connect" /\ ~Running' /\ owner'.view = Unknown /\ owner'.skewed = owner.skewed
      /\ shard'.tokens = shard.tokens /\ shard'.target = shard.target
  BY <1>1 DEF TransportState, OwnerState, Running
<1>3. /\ sock'.ready = NoSocket /\ sock'.prep = NoSocket /\ sock'.candidate = NoSocket
      /\ Off(NoSocket)
  BY <1>1, OffNothing DEF Roles
<1>4. Standbys' /\ Reads' /\ Handoff'
  BY <1>1, <1>2, <1>3 DEF Standbys, Reads, Handoff
<1>5. ASSUME NEW T \in SUBSET Tokens PROVE Chain(T, Unknown)'
  <2>1. Holds(Unknown, T, 0) /\ Delivers(<<>>, T, 0, 0)
    BY HoldsUnknown, DeliversNone
  <2>2. QED BY <1>1, <1>2, <2>1 DEF Chain
<1>6. Chains' /\ Blank' /\ owner'.skewed = FALSE
  <2>1. PICK T \in SUBSET Tokens, S \in SUBSET Tokens : T = shard.tokens /\ S = shard.target
    BY <1>1
  <2>2. Chain(T, Unknown)' /\ Chain(S, Unknown)' /\ Holds(Unknown, T, 0)
    BY <1>5, HoldsUnknown
  <2>3. QED BY <1>2, <2>1, <2>2 DEF Ordered, Chains, Blank
<1>7. QED BY <1>4, <1>6 DEF Ordered

-----------------------------------------------------------------------------
(* Every step keeps the lines.                                             *)

LEMMA InitOrdered == Init => Ordered
<1> SUFFICES ASSUME Init PROVE Ordered
  OBVIOUS
<1>1. Initial \in SUBSET Tokens
  BY RotationAssumption DEF Tokens
<1>2. sock = NoSockets /\ tr.pc = "connect" /\ ~Running /\ out = <<>> /\ Len(out) = 0
  BY DEF Init, Running
<1>3. Standbys /\ Reads /\ Handoff
  BY <1>2, OffNothing DEF Init, Standbys, Reads, Handoff, Roles
<1>4. Holds(Unknown, Initial, 0) /\ Delivers(<<>>, Initial, 0, 0)
  BY <1>1, HoldsUnknown, DeliversNone
<1>5. Chains /\ Blank /\ owner.skewed = FALSE
  BY <1>2, <1>4 DEF Init, Chains, Chain, Blank
<1>6. QED BY <1>3, <1>5 DEF Ordered

LEMMA NextOrdered == IInv /\ Ordered /\ [Next]_vars => Ordered'
<1> SUFFICES ASSUME IInv, Ordered, [Next]_vars PROVE Ordered'
  OBVIOUS
<1>1. CASE VenueUpdates \/ Seed \/ SeedFails
  BY <1>1, SeedOrdered
<1>2. ASSUME NEW r \in Roles, Receive(r) \/ SocketEnds(r) PROVE Ordered'
  BY <1>2, ReceiveOrdered
<1>3. CASE Connect
  BY <1>3, ConnectOrdered
<1>4. CASE ConnectFails \/ ActiveEnds \/ UpdateFails \/ Shutdown
  BY <1>4, EndsOrdered
<1>5. CASE TakeActive
  BY <1>5, TakeActiveOrdered
<1>6. CASE Publish
  BY <1>6, PublishOrdered
<1>7. CASE ControlTick \/ Prepared \/ StandbyArm
  BY <1>7, RoundsOrdered
<1>8. CASE Offer
  BY <1>8, OfferOrdered
<1>9. CASE Switch
  BY <1>9, SwitchOrdered
<1>10. CASE PublishGap
  BY <1>10, PublishGapOrdered
<1>11. CASE UpdateRefused
  BY <1>11, UpdateRefusedOrdered
<1>12. CASE Update
  BY <1>12, UpdateOrdered
<1>13. CASE Signal \/ Wake \/ Consume \/ TakeNothing
  BY <1>13, BellOrdered
<1>14. CASE Take
  BY <1>14, TakeOrdered
<1>15. ASSUME NEW P \in Pairs, Replace(P) PROVE Ordered'
  BY <1>15, ReplaceOrdered
<1>16. CASE PollRetirements
  BY <1>16, PollRetirementsOrdered
<1>17. CASE ShardRestarts
  BY <1>17, ShardRestartsOrdered
<1>18. CASE UNCHANGED vars
  <2>1. Standbys' /\ Reads' /\ Chains' /\ Blank' /\ Handoff' /\ owner'.skewed = FALSE
    BY <1>18 DEF vars, Ordered, Standbys, Reads, Chains, Chain, Blank, Handoff, Running,
       ActiveFrom, Holding
  <2>2. QED BY <2>1 DEF Ordered
<1>19. QED
  BY <1>1, <1>2, <1>3, <1>4, <1>5, <1>6, <1>7, <1>8, <1>9, <1>10, <1>11, <1>12, <1>13, <1>14,
     <1>15, <1>16, <1>17, <1>18 DEF Next

\* SocketPump, prepare_standby with Standby::retain, send_bounded, commit_handoff and the
\* routing of a batch: for every set of pairs, every capacity of the three queues and
\* every number of faults, the owner reduces every update to the books it follows, none
\* left out and none twice, and once all has arrived its books are at the last update
\* that the active socket was sent.
THEOREM EveryUpdateInOrder == Spec => []UpdatesInOrder
<1>1. IInv /\ Ordered => UpdatesInOrder
  <2> SUFFICES ASSUME IInv, Ordered, Arrived, NEW t \in tr.tokens
               PROVE owner.view[t] \in {0, sock.active.ver}
    BY DEF UpdatesInOrder, Ordered
  <2>1. /\ tr.pc = "select" /\ sock.active.queue = <<>> /\ out = <<>>
        /\ shard.tokens = tr.tokens /\ Running /\ ~Holding
    BY DEF Arrived, Running, Holding
  <2>2. receipt # "committed"
    BY <2>1, NoReceipt
  <2>3. PICK a \in Nat, b \in Nat :
          /\ Holds(owner.view, tr.tokens, a) /\ Delivers(out, tr.tokens, a, b) /\ ActiveFrom(b)
    BY <2>1, <2>2 DEF Ordered, Chains, Chain
  <2>4. a = b
    BY <2>1, <2>3, DeliversNone
  <2>5. b = sock.active.ver
    BY <2>1, <2>3, LeadsNone DEF ActiveFrom
  <2>6. QED BY <2>3, <2>4, <2>5 DEF Holds
<1>2. IInv /\ Ordered /\ [Next]_vars => (IInv /\ Ordered)'
  BY NextIInv, NextOrdered
<1>3. Init => IInv /\ Ordered
  BY InitIInv, InitOrdered
<1>4. QED BY <1>1, <1>2, <1>3, PTL DEF Spec

============================================================================
