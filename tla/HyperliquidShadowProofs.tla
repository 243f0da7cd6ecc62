---------------------- MODULE HyperliquidShadowProofs ----------------------
(***************************************************************************)
(* Proofs about HyperliquidShadow, for every set of clients, every         *)
(* capacity and every bound.                                               *)
(*                                                                         *)
(* The broadcast channel, the gateway queue and the permits the owner      *)
(* still holds are consecutive parts of the published numbers (Stream),    *)
(* and a client's receiver stands at most one number after what its replay *)
(* covers (ClientOK).  Together they say that the number a live client     *)
(* receives is one it has seen or the next one.                            *)
(***************************************************************************)
EXTENDS HyperliquidShadow, SequenceTheorems, TLAPS

ClientRecord ==
    [pc: {"idle", "subscribed", "replaying", "live", "refused", "lagged", "unready", "left"},
     next: Nat, after: Nat, last: Nat, replay: Seq(Nat), delivered: Seq(Nat)]

\* s holds the n numbers after a.
Run(s, a, n) == Len(s) = n /\ \A i \in 1..n : s[i] = a + i

\* A receiver was created when the channel held next - 1 numbers; what it has not
\* received yet is covered by the replay up to at least there.
ClientOK(r, length) ==
    /\ r \in ClientRecord
    /\ r.pc \in {"subscribed", "replaying", "live"} =>
         /\ 1 <= r.next /\ r.after <= r.last
         /\ Run(r.delivered, r.after, r.last - r.after)
    /\ r.pc = "subscribed" =>
         r.next <= length + 1 /\ r.after = 0 /\ r.last = 0 /\ r.delivered = <<>>
    /\ r.pc = "replaying" =>
         /\ Run(r.replay, r.last, Len(r.replay))
         /\ r.next <= r.last + Len(r.replay) + 1
    /\ r.pc = "live" => r.next <= r.last + 1

ClientsOK ==
    /\ DOMAIN client = Clients
    /\ client = [c \in Clients |-> client[c]]
    /\ \A c \in Clients : ClientOK(client[c], Len(channel))

Types == /\ sequence \in Nat
         /\ channel \in Seq(Nat) /\ gateway \in Seq(Nat) /\ permits \in Seq(Nat)

\* Channel, gateway queue and permits partition the published numbers.
Stream ==
    /\ Run(channel, 0, Len(channel))
    /\ Run(gateway, Len(channel), Len(gateway))
    /\ Run(permits, Len(channel) + Len(gateway), Len(permits))
    /\ Len(channel) + Len(gateway) + Len(permits) = sequence
    /\ owner # "sending" => permits = <<>>

IInv == Types /\ Stream /\ ClientsOK

-----------------------------------------------------------------------------
(* Sequences of consecutive numbers.                                       *)

(* Numbers(a + 1, b) is the run of the numbers after a up to b.            *)
LEMMA NumbersRun ==
  ASSUME NEW a \in Nat, NEW b \in Nat, a <= b
  PROVE  Numbers(a + 1, b) \in Seq(Nat) /\ Run(Numbers(a + 1, b), a, b - a)
<1> DEFINE n == IF b >= a + 1 THEN b - (a + 1) + 1 ELSE 0
           f == [i \in 1..n |-> (a + 1) + i - 1]
<1>1. n \in Nat /\ n = b - a
  OBVIOUS
<1>2. \A i \in 1..n : (a + 1) + i - 1 \in Nat /\ (a + 1) + i - 1 = a + i
  BY <1>1
<1>3. f \in [1..n -> Nat] /\ \A i \in 1..n : f[i] = a + i
  BY <1>2
<1>4. f \in Seq(Nat) /\ Len(f) = n
  <2>1. f \in UNION {[1..k -> Nat] : k \in Nat}
    BY <1>1, <1>3
  <2>2. f \in Seq(Nat)
    BY <2>1, SeqDef
  <2>3. QED BY <2>2, <1>1, <1>3, LenProperties
<1>5. QED BY <1>1, <1>3, <1>4 DEF Numbers, Run

(* A sequence of naturals that is the run after a is Numbers.              *)
LEMMA RunIsNumbers ==
  ASSUME NEW s \in Seq(Nat), NEW a \in Nat, NEW b \in Nat, a <= b, Run(s, a, b - a)
  PROVE  s = Numbers(a + 1, b)
<1> DEFINE t == Numbers(a + 1, b)
<1>1. t \in Seq(Nat) /\ Run(t, a, b - a)
  BY NumbersRun
<1> HIDE DEF t
<1>2. Len(s) = Len(t) /\ \A i \in 1..Len(s) : s[i] = t[i]
  BY <1>1 DEF Run
<1>3. s = t
  BY <1>1, <1>2, SeqEqual
<1>4. QED BY <1>3 DEF t

(* Appending the next number extends a run.                                *)
LEMMA AppendRun ==
  ASSUME NEW s \in Seq(Nat), NEW a \in Nat, NEW n \in Nat, Run(s, a, n)
  PROVE  /\ Append(s, a + n + 1) \in Seq(Nat)
         /\ Run(Append(s, a + n + 1), a, n + 1)
<1>1. a + n + 1 \in Nat
  OBVIOUS
<1>2. QED BY <1>1, AppendProperties DEF Run

(* Taking the head of a run leaves the run after it.                       *)
LEMMA TailRun ==
  ASSUME NEW s \in Seq(Nat), s # <<>>, NEW a \in Nat, Run(s, a, Len(s))
  PROVE  /\ Head(s) = a + 1 /\ Tail(s) \in Seq(Nat) /\ Len(Tail(s)) = Len(s) - 1
         /\ Len(s) \in Nat \ {0} /\ Run(Tail(s), a + 1, Len(Tail(s)))
<1>1. Len(s) \in Nat \ {0}
  BY EmptySeq
<1>2. /\ Tail(s) \in Seq(Nat) /\ Len(Tail(s)) = Len(s) - 1
      /\ \A i \in 1..Len(Tail(s)) : Tail(s)[i] = s[i + 1]
  BY HeadTailProperties
<1>3. Head(s) = a + 1
  BY <1>1 DEF Run
<1>4. Run(Tail(s), a + 1, Len(Tail(s)))
  BY <1>1, <1>2 DEF Run
<1>5. QED BY <1>1, <1>2, <1>3, <1>4

-----------------------------------------------------------------------------
(* The invariant.                                                          *)

(* What the runs check follows from the invariant.                         *)
LEMMA IInvImplies ==
  ASSUME IInv PROVE StreamIsTheLog /\ DeliveredInOrder /\ GapOnlyFromLag
<1>1. StreamIsTheLog
  <2> DEFINE s == channel \o gateway
             all == channel \o gateway \o permits
  <2>1. /\ Len(channel) \in Nat /\ Len(gateway) \in Nat /\ Len(permits) \in Nat
        /\ sequence \in Nat
    BY LenProperties DEF IInv, Types
  <2>2. /\ s \in Seq(Nat) /\ Len(s) = Len(channel) + Len(gateway)
        /\ \A i \in 1..Len(s) : s[i] = i
    <3>1. /\ s \in Seq(Nat) /\ Len(s) = Len(channel) + Len(gateway)
          /\ \A i \in 1..(Len(channel) + Len(gateway)) :
               s[i] = IF i <= Len(channel) THEN channel[i] ELSE gateway[i - Len(channel)]
      BY ConcatProperties DEF IInv, Types
    <3>2. QED BY <2>1, <3>1 DEF IInv, Stream, Run
  <2> HIDE DEF s
  <2>3. /\ all \in Seq(Nat) /\ Len(all) = Len(s) + Len(permits)
        /\ \A i \in 1..(Len(s) + Len(permits)) :
             all[i] = IF i <= Len(s) THEN s[i] ELSE permits[i - Len(s)]
    <3>1. all = s \o permits
      BY DEF s
    <3>2. QED BY <3>1, <2>2, ConcatProperties DEF IInv, Types
  <2> HIDE DEF all
  <2>4. Run(all, 0, sequence - 0)
    <3>1. Len(all) = sequence /\ sequence - 0 = sequence
      BY <2>1, <2>2, <2>3 DEF IInv, Stream
    <3>2. ASSUME NEW i \in 1..sequence PROVE all[i] = 0 + i
      <4>1. all[i] = IF i <= Len(s) THEN s[i] ELSE permits[i - Len(s)]
        BY <2>1, <2>2, <2>3, <3>1
      <4>2. CASE i <= Len(s)
        BY <4>1, <4>2, <2>1, <2>2
      <4>3. CASE ~ (i <= Len(s))
        <5>1. i - Len(s) \in 1..Len(permits)
          BY <4>3, <2>1, <2>2, <3>1, <2>3
        <5>2. permits[i - Len(s)] = Len(channel) + Len(gateway) + (i - Len(s))
          BY <5>1 DEF IInv, Stream, Run
        <5>3. QED BY <4>1, <4>3, <5>2, <2>1, <2>2
      <4>4. QED BY <4>2, <4>3
    <3>3. QED BY <3>1, <3>2 DEF Run
  <2>5. all = Numbers(0 + 1, sequence)
    BY <2>1, <2>3, <2>4, RunIsNumbers
  <2>6. QED BY <2>5 DEF all, StreamIsTheLog
<1>2. DeliveredInOrder
  <2> SUFFICES ASSUME NEW c \in Clients, Connected(c)
               PROVE  client[c].delivered = Numbers(client[c].after + 1, client[c].last)
    BY DEF DeliveredInOrder
  <2>1. /\ client[c].after \in Nat /\ client[c].last \in Nat
        /\ client[c].delivered \in Seq(Nat)
    BY DEF IInv, ClientsOK, ClientOK, ClientRecord
  <2>2. /\ client[c].after <= client[c].last
        /\ Run(client[c].delivered, client[c].after, client[c].last - client[c].after)
    BY DEF IInv, ClientsOK, ClientOK, Connected
  <2>3. QED BY <2>1, <2>2, RunIsNumbers
<1>3. GapOnlyFromLag
  BY DEF IInv, ClientsOK, ClientOK, ClientRecord, GapOnlyFromLag
<1>4. QED BY <1>1, <1>2, <1>3

LEMMA InitIInv == Init => IInv
<1> SUFFICES ASSUME Init PROVE IInv
  OBVIOUS
<1>1. <<>> \in Seq(Nat) /\ Len(<<>>) = 0
  BY EmptySeq
<1>2. Types /\ Stream
  BY <1>1 DEF Init, Types, Stream, Run
<1>3. ClientOK(Idle, 0)
  BY <1>1 DEF ClientOK, ClientRecord, Idle
<1>4. ClientsOK
  BY <1>1, <1>3 DEF Init, ClientsOK
<1>5. QED BY <1>2, <1>4 DEF IInv

(* A longer channel keeps what a client relies on.                         *)
LEMMA ClientMonotone ==
  ASSUME NEW r, NEW m \in Nat, NEW n \in Nat, m <= n, ClientOK(r, m)
  PROVE  ClientOK(r, n)
<1>1. r \in ClientRecord => r.next \in Nat
  BY DEF ClientRecord
<1>2. QED BY <1>1 DEF ClientOK

(* A step that changes neither the stream nor the clients.                 *)
LEMMA QuietStep ==
  ASSUME IInv, UNCHANGED <<sequence, channel, gateway, permits, client>>,
         owner' = "sending" => owner = "sending" \/ permits = <<>>,
         owner' # "sending" => permits = <<>>
  PROVE  IInv'
BY DEF IInv, Types, Stream, ClientsOK

(* A step of one client.                                                   *)
LEMMA ClientStep ==
  ASSUME IInv, UNCHANGED <<inside, gateway, channel>>, NEW c \in Clients, NEW r,
         client' = [client EXCEPT ![c] = r], ClientOK(r, Len(channel))
  PROVE  IInv'
<1>1. Types' /\ Stream'
  BY DEF IInv, Types, Stream, inside
<1>2. ClientsOK'
  <2>1. /\ DOMAIN client' = Clients
        /\ \A d \in Clients : client'[d] = IF d = c THEN r ELSE client[d]
    BY DEF IInv, ClientsOK
  <2>2. client' = [d \in Clients |-> client'[d]]
    BY <2>1
  <2>3. \A d \in Clients : ClientOK(client'[d], Len(channel'))
    BY <2>1 DEF IInv, ClientsOK
  <2>4. QED BY <2>1, <2>2, <2>3 DEF ClientsOK
<1>3. QED BY <1>1, <1>2 DEF IInv

(* A session that ends keeps its numbers.                                  *)
LEMMA EndStep ==
  ASSUME IInv, UNCHANGED <<inside, gateway, channel>>, NEW c \in Clients,
         NEW reason \in {"refused", "lagged", "unready", "left"}, End(c, reason)
  PROVE  IInv'
<1> DEFINE r == [client[c] EXCEPT !.pc = reason, !.replay = <<>>]
<1>1. client[c] \in ClientRecord
  BY DEF IInv, ClientsOK, ClientOK
<1>2. r \in ClientRecord /\ r.pc = reason
  BY <1>1, EmptySeq DEF ClientRecord
<1>3. ClientOK(r, Len(channel))
  BY <1>2 DEF ClientOK
<1>4. client' = [client EXCEPT ![c] = r]
  BY <1>1 DEF End, IInv, ClientsOK
<1>5. QED BY <1>3, <1>4, ClientStep

-----------------------------------------------------------------------------
(* The owner and the gateway.                                              *)

LEMMA IngestEventsStep ==
  ASSUME IInv, NEW published \in 0..2, IngestEvents(published)
  PROVE  IInv'
<1> PICK output \in Outputs : IngestEvents(published)!(output)
  BY DEF IngestEvents
<1> DEFINE ready == hub.life = "ready" /\ hub.attempt = output.attempt /\ output.count > 0
           fits  == Len(gateway) + output.count <= GatewayCapacity
<1>1. owner = "receiving" /\ permits = <<>> /\ UNCHANGED <<gateway, channel, client>>
  BY DEF Take, IInv, Stream
<1>2. CASE ready /\ fits
  <2>1. /\ sequence' = sequence + published /\ owner' = "sending"
        /\ permits' = Numbers(sequence + 1, sequence + published)
    BY <1>2
  <2>2. sequence \in Nat /\ sequence + published \in Nat /\ sequence <= sequence + published
        /\ (sequence + published) - sequence = published
    BY DEF IInv, Types
  <2>3. permits' \in Seq(Nat) /\ Run(permits', sequence, published)
    BY <2>1, <2>2, NumbersRun
  <2>4. Len(channel) \in Nat /\ Len(gateway) \in Nat /\ Len(permits) = 0
    BY <1>1, LenProperties, EmptySeq DEF IInv, Types
  <2>5. Types' /\ Stream'
    <3>1. Len(channel) + Len(gateway) = sequence
      BY <2>4 DEF IInv, Stream
    <3>2. Len(permits') = published
      BY <2>3 DEF Run
    <3>3. Run(permits', Len(channel') + Len(gateway'), Len(permits'))
      BY <1>1, <2>3, <3>1, <3>2
    <3>4. Len(channel') + Len(gateway') + Len(permits') = sequence'
      BY <1>1, <2>1, <3>1, <3>2
    <3>5. QED BY <1>1, <2>1, <2>2, <2>3, <3>3, <3>4 DEF IInv, Types, Stream
  <2>6. ClientsOK'
    BY <1>1 DEF IInv, ClientsOK
  <2>7. QED BY <2>5, <2>6 DEF IInv
<1>3. CASE ~ (ready /\ fits)
  <2>1. UNCHANGED <<sequence, permits>> /\ owner' = "ended"
    BY <1>3
  <2>2. QED BY <1>1, <2>1, QuietStep
<1>4. QED BY <1>2, <1>3

LEMMA SendPermitStep ==
  ASSUME IInv, SendPermit PROVE IInv'
<1>1. /\ owner = "sending" /\ permits # <<>> /\ permits' = Tail(permits)
      /\ gateway' = Append(gateway, Head(permits))
      /\ UNCHANGED <<sequence, owner, channel, client>>
  BY DEF SendPermit
<1>2. Len(channel) \in Nat /\ Len(gateway) \in Nat
  BY LenProperties DEF IInv, Types
<1> DEFINE k == Len(channel) + Len(gateway)
<1>3. k \in Nat
  BY <1>2
<1>4. /\ Head(permits) = k + 1 /\ permits' \in Seq(Nat) /\ Len(permits') = Len(permits) - 1
      /\ Len(permits) \in Nat \ {0} /\ Run(permits', k + 1, Len(permits'))
  BY <1>1, <1>3, TailRun DEF IInv, Types, Stream
<1>5. /\ gateway' \in Seq(Nat) /\ Run(gateway', Len(channel), Len(gateway) + 1)
  BY <1>1, <1>2, <1>4, AppendRun DEF IInv, Types, Stream
<1>6. Types'
  BY <1>1, <1>4, <1>5 DEF IInv, Types
<1>7. Stream'
  <2>1. Len(gateway') = Len(gateway) + 1
    BY <1>5 DEF Run
  <2>2. /\ Len(channel') + Len(gateway') = k + 1
        /\ Len(channel') + Len(gateway') + Len(permits') = Len(channel) + Len(gateway) + Len(permits)
    BY <1>1, <1>2, <1>4, <2>1
  <2>3. QED BY <1>1, <1>4, <1>5, <2>1, <2>2 DEF IInv, Stream
<1>8. ClientsOK'
  BY <1>1 DEF IInv, ClientsOK
<1>9. QED BY <1>6, <1>7, <1>8 DEF IInv

LEMMA ForwardStep ==
  ASSUME IInv, Forward PROVE IInv'
<1>1. /\ gateway # <<>> /\ gateway' = Tail(gateway)
      /\ channel' = Append(channel, Head(gateway))
      /\ UNCHANGED <<sequence, owner, permits, client>>
  BY DEF Forward, inside
<1>2. Len(channel) \in Nat /\ Len(permits) \in Nat
  BY LenProperties DEF IInv, Types
<1>3. /\ Head(gateway) = Len(channel) + 1 /\ gateway' \in Seq(Nat)
      /\ Len(gateway') = Len(gateway) - 1 /\ Len(gateway) \in Nat \ {0}
      /\ Run(gateway', Len(channel) + 1, Len(gateway'))
  BY <1>1, <1>2, TailRun DEF IInv, Types, Stream
<1>4. channel' \in Seq(Nat) /\ Run(channel', 0, Len(channel) + 1)
  <2>1. Head(gateway) = 0 + Len(channel) + 1
    BY <1>2, <1>3
  <2>2. QED BY <1>1, <1>2, <2>1, AppendRun DEF IInv, Types, Stream
<1>5. Types'
  BY <1>1, <1>3, <1>4 DEF IInv, Types
<1>6. Stream'
  <2>1. Len(channel') = Len(channel) + 1
    BY <1>4 DEF Run
  <2>2. Len(channel') + Len(gateway') = Len(channel) + Len(gateway)
    BY <1>2, <1>3, <2>1
  <2>3. Run(permits', Len(channel') + Len(gateway'), Len(permits'))
    BY <1>1, <2>2 DEF IInv, Stream
  <2>4. QED BY <1>1, <1>2, <1>3, <1>4, <2>1, <2>2, <2>3 DEF IInv, Stream
<1>7. ClientsOK'
  <2>1. Len(channel') \in Nat /\ Len(channel) <= Len(channel')
    BY <1>2, <1>4 DEF Run
  <2>2. \A c \in Clients : ClientOK(client[c], Len(channel'))
    BY <1>2, <2>1, ClientMonotone DEF IInv, ClientsOK
  <2>3. QED BY <1>1, <2>2 DEF IInv, ClientsOK
<1>8. QED BY <1>5, <1>6, <1>7 DEF IInv

-----------------------------------------------------------------------------
(* The clients.                                                            *)

LEMMA SubscribeStep ==
  ASSUME IInv, NEW c \in Clients, Subscribe(c) PROVE IInv'
<1> DEFINE r == [Idle EXCEPT !.pc = "subscribed", !.next = Len(channel) + 1]
<1>1. /\ Len(channel) \in Nat /\ Len(channel) + 1 \in Nat /\ 0 \in Nat
      /\ <<>> \in Seq(Nat) /\ Len(<<>>) = 0
  BY LenProperties, EmptySeq DEF IInv, Types
<1>2. /\ r \in ClientRecord /\ r.pc = "subscribed" /\ r.next = Len(channel) + 1
      /\ r.after = 0 /\ r.last = 0 /\ r.delivered = <<>>
  BY <1>1 DEF ClientRecord, Idle
<1>3. ClientOK(r, Len(channel))
  BY <1>1, <1>2 DEF ClientOK, Run
<1>4. QED BY <1>3, ClientStep DEF Subscribe

LEMMA TakeSnapshotStep ==
  ASSUME IInv, NEW c \in Clients, NEW after \in 0..MaxSequence, TakeSnapshot(c, after)
  PROVE  IInv'
<1>1. CASE hub.life = "ready" /\ after <= sequence /\ after + 1 >= Earliest
  <2> DEFINE r == [client[c] EXCEPT !.pc = "replaying", !.after = after, !.last = after,
                                    !.replay = Numbers(after + 1, sequence)]
  <2>1. after \in Nat /\ sequence \in Nat /\ Len(channel) \in Nat /\ after <= sequence
    BY <1>1, CapacityAssumption, LenProperties DEF IInv, Types
  <2>2. Numbers(after + 1, sequence) \in Seq(Nat)
        /\ Run(Numbers(after + 1, sequence), after, sequence - after)
    BY <2>1, NumbersRun
  <2>3. /\ client[c] \in ClientRecord /\ client[c].pc = "subscribed"
        /\ client[c].next \in Nat /\ 1 <= client[c].next
        /\ client[c].next <= Len(channel) + 1 /\ client[c].delivered = <<>>
    BY DEF IInv, ClientsOK, ClientOK, ClientRecord, TakeSnapshot
  <2>4. Len(channel) <= sequence
    BY <2>1, LenProperties DEF IInv, Types, Stream
  <2>5. /\ r \in ClientRecord /\ r.pc = "replaying" /\ r.after = after /\ r.last = after
        /\ r.next = client[c].next /\ r.delivered = <<>>
        /\ r.replay = Numbers(after + 1, sequence)
    BY <2>1, <2>2, <2>3 DEF ClientRecord
  <2> HIDE DEF r
  <2>6. Len(r.replay) = sequence - after
    BY <2>2, <2>5 DEF Run
  <2>7. r.next <= r.last + Len(r.replay) + 1
    BY <2>1, <2>3, <2>4, <2>5, <2>6
  <2>8. Run(r.delivered, r.after, r.last - r.after)
    BY <2>1, <2>5, EmptySeq DEF Run
  <2>9. ClientOK(r, Len(channel))
    <3>1. Run(r.replay, r.last, Len(r.replay))
      BY <2>2, <2>5, <2>6
    <3>2. 1 <= r.next /\ r.after <= r.last
      BY <2>1, <2>3, <2>5
    <3>3. QED BY <2>5, <2>7, <2>8, <3>1, <3>2 DEF ClientOK
  <2>10. client' = [client EXCEPT ![c] = r] /\ UNCHANGED <<inside, gateway, channel>>
    BY <1>1 DEF TakeSnapshot, r
  <2>11. QED BY <2>9, <2>10, ClientStep
<1>2. CASE ~ (hub.life = "ready" /\ after <= sequence /\ after + 1 >= Earliest)
  <2>1. End(c, "refused") /\ UNCHANGED <<inside, gateway, channel>>
    BY <1>2 DEF TakeSnapshot
  <2>2. QED BY <2>1, EndStep
<1>3. QED BY <1>1, <1>2

(* Handing the next number to a client extends its run.                    *)
LEMMA DeliverRun ==
  ASSUME NEW c \in Clients, NEW length, ClientOK(client[c], length), Connected(c),
         NEW number, number = client[c].last + 1
  PROVE  LET d == Deliver(c, number)
         IN  /\ d \in ClientRecord /\ d.pc = client[c].pc /\ d.next = client[c].next
             /\ d.after = client[c].after /\ d.last = number /\ d.replay = client[c].replay
             /\ d.after <= d.last /\ Run(d.delivered, d.after, d.last - d.after)
<1> DEFINE r == client[c]
<1>1. /\ r \in ClientRecord /\ r.after \in Nat /\ r.last \in Nat /\ r.after <= r.last
      /\ r.delivered \in Seq(Nat) /\ Run(r.delivered, r.after, r.last - r.after)
      /\ number \in Nat
  BY DEF ClientOK, ClientRecord, Connected
<1> DEFINE n == r.last - r.after
<1>2. n \in Nat /\ number = r.after + n + 1 /\ n + 1 = number - r.after
  <2>1. \A a, l \in Nat : a <= l =>
           /\ l - a \in Nat /\ l + 1 = a + (l - a) + 1 /\ (l - a) + 1 = (l + 1) - a
    OBVIOUS
  <2>2. QED BY <1>1, <2>1
<1>3. /\ Append(r.delivered, number) \in Seq(Nat)
      /\ Run(Append(r.delivered, number), r.after, number - r.after)
  BY <1>1, <1>2, AppendRun
<1>4. r.after <= number
  BY <1>1
<1>5. Deliver(c, number) = [r EXCEPT !.last = number,
                                     !.delivered = Append(r.delivered, number)]
  BY <1>1 DEF Deliver, ClientRecord
<1>6. QED BY <1>1, <1>3, <1>4, <1>5 DEF ClientRecord

LEMMA ReplayNextStep ==
  ASSUME IInv, NEW c \in Clients, ReplayNext(c) PROVE IInv'
<1>1. /\ client[c] \in ClientRecord /\ client[c].pc = "replaying" /\ Connected(c)
      /\ client[c].next \in Nat /\ client[c].last \in Nat /\ client[c].after \in Nat
      /\ client[c].replay \in Seq(Nat) /\ ClientOK(client[c], Len(channel))
      /\ UNCHANGED <<inside, gateway, channel>>
  BY DEF IInv, ClientsOK, ClientOK, ClientRecord, ReplayNext, Connected
<1>2. CASE client[c].replay = <<>>
  <2> DEFINE r == [client[c] EXCEPT !.pc = "live"]
  <2>1. /\ r \in ClientRecord /\ r.pc = "live" /\ r.next = client[c].next
        /\ r.last = client[c].last /\ r.after = client[c].after
        /\ r.delivered = client[c].delivered
    BY <1>1 DEF ClientRecord
  <2>2. r.next <= r.last + 1
    BY <1>1, <1>2, <2>1, EmptySeq DEF ClientOK
  <2>3. ClientOK(r, Len(channel))
    BY <1>1, <2>1, <2>2 DEF ClientOK
  <2>4. client' = [client EXCEPT ![c] = r]
    BY <1>2 DEF ReplayNext
  <2>5. QED BY <1>1, <2>3, <2>4, ClientStep
<1>3. CASE client[c].replay # <<>>
  <2> DEFINE h == Head(client[c].replay)
             d == Deliver(c, h)
             r == [d EXCEPT !.replay = Tail(client[c].replay)]
  <2>1. /\ h = client[c].last + 1 /\ Tail(client[c].replay) \in Seq(Nat)
        /\ Len(Tail(client[c].replay)) = Len(client[c].replay) - 1
        /\ Len(client[c].replay) \in Nat \ {0}
        /\ Run(Tail(client[c].replay), client[c].last + 1, Len(Tail(client[c].replay)))
    BY <1>1, <1>3, TailRun DEF ClientOK
  <2>2. /\ d \in ClientRecord /\ d.pc = client[c].pc /\ d.next = client[c].next
        /\ d.after = client[c].after /\ d.last = h
        /\ d.after <= d.last /\ Run(d.delivered, d.after, d.last - d.after)
    BY <1>1, <2>1, DeliverRun
  <2> HIDE DEF h, d
  <2>3. /\ r \in ClientRecord /\ r.pc = "replaying" /\ r.next = client[c].next
        /\ r.after = d.after /\ r.last = d.last /\ r.delivered = d.delivered
        /\ r.replay = Tail(client[c].replay)
    BY <1>1, <2>1, <2>2 DEF ClientRecord
  <2>4. client' = [client EXCEPT ![c] = r]
    BY <1>3 DEF ReplayNext, d, h
  <2> HIDE DEF r
  <2>5. r.next <= r.last + Len(r.replay) + 1
    <3>1. \A k, l, m \in Nat, n \in Nat \ {0} :
             k <= l + n + 1 => k <= (l + 1) + (n - 1) + 1
      OBVIOUS
    <3>2. client[c].next <= client[c].last + Len(client[c].replay) + 1
      BY <1>1 DEF ClientOK
    <3>3. client[c].next <= (client[c].last + 1) + (Len(client[c].replay) - 1) + 1
      BY <1>1, <2>1, <3>1, <3>2
    <3>4. QED BY <2>1, <2>2, <2>3, <3>3
  <2>6. 1 <= r.next /\ Run(r.replay, r.last, Len(r.replay))
    BY <1>1, <2>1, <2>2, <2>3 DEF ClientOK
  <2>7. ClientOK(r, Len(channel))
    BY <2>2, <2>3, <2>5, <2>6 DEF ClientOK
  <2>8. QED BY <1>1, <2>4, <2>7, ClientStep
<1>4. QED BY <1>2, <1>3

(* The number at a receiver's position is that position; a live client has *)
(* seen it or it is the next one.                                          *)
LEMMA ReceiveStep ==
  ASSUME IInv, NEW c \in Clients, Receive(c) PROVE IInv'
<1> DEFINE number == channel[client[c].next]
           moved == [client[c] EXCEPT !.next = @ + 1]
<1>1. /\ client[c] \in ClientRecord /\ client[c].pc = "live" /\ Connected(c)
      /\ client[c].next \in Nat /\ client[c].last \in Nat /\ client[c].after \in Nat
      /\ 1 <= client[c].next /\ client[c].next <= client[c].last + 1
      /\ client[c].next <= Len(channel) /\ ClientOK(client[c], Len(channel))
      /\ UNCHANGED <<inside, gateway, channel>>
  BY DEF IInv, ClientsOK, ClientOK, ClientRecord, Receive, Connected
<1>2. number = client[c].next
  <2>1. Len(channel) \in Nat
    BY LenProperties DEF IInv, Types
  <2>2. QED BY <1>1, <2>1 DEF IInv, Stream, Run
<1>3. CASE Lagged(c)
  BY <1>1, <1>3, EndStep DEF Receive
<1>4. CASE ~ Lagged(c) /\ number <= client[c].last
  <2>1. client' = [client EXCEPT ![c] = moved]
    BY <1>4 DEF Receive
  <2>2. /\ client[c].next + 1 \in Nat /\ moved \in ClientRecord /\ moved.pc = "live" /\ moved.next = client[c].next + 1
        /\ moved.after = client[c].after /\ moved.last = client[c].last
        /\ moved.delivered = client[c].delivered
    <3>1. client[c].next + 1 \in Nat
      BY <1>1
    <3>2. QED BY <1>1, <3>1 DEF ClientRecord
  <2>3. ClientOK(moved, Len(channel))
    BY <1>1, <1>2, <1>4, <2>2 DEF ClientOK
  <2>4. QED BY <1>1, <2>1, <2>3, ClientStep
<1>5. CASE ~ Lagged(c) /\ ~ (number <= client[c].last)
  <2> DEFINE d == Deliver(c, number)
             r == [d EXCEPT !.next = @ + 1]
  <2>1. number = client[c].last + 1
    BY <1>1, <1>2, <1>5
  <2>2. /\ d \in ClientRecord /\ d.pc = client[c].pc /\ d.next = client[c].next
        /\ d.after = client[c].after /\ d.last = number
        /\ d.after <= d.last /\ Run(d.delivered, d.after, d.last - d.after)
    BY <1>1, <2>1, DeliverRun
  <2>3. client' = [client EXCEPT ![c] = r]
    BY <1>5, <2>1 DEF Receive
  <2> HIDE DEF d
  <2>4. /\ r \in ClientRecord /\ r.pc = "live" /\ r.next = client[c].next + 1
        /\ r.after = d.after /\ r.last = d.last /\ r.delivered = d.delivered
    <3>1. d.next + 1 \in Nat
      BY <1>1, <2>2
    <3>2. QED BY <1>1, <2>2, <3>1 DEF ClientRecord
  <2> HIDE DEF r
  <2>5. r.next <= r.last + 1 /\ 1 <= r.next
    <3>1. r.last = client[c].next
      BY <1>2, <2>2, <2>4
    <3>2. \A n \in Nat : 1 <= n + 1 /\ n + 1 <= n + 1
      OBVIOUS
    <3>3. QED BY <1>1, <2>4, <3>1, <3>2
  <2>6. ClientOK(r, Len(channel))
    BY <2>2, <2>4, <2>5 DEF ClientOK
  <2>7. QED BY <1>1, <2>3, <2>6, ClientStep
<1>6. QED BY <1>3, <1>4, <1>5

-----------------------------------------------------------------------------
(* Every step, and the theorems.                                           *)

LEMMA NextIInv == IInv /\ [Next]_vars => IInv'
<1> SUFFICES ASSUME IInv, [Next]_vars PROVE IInv'
  OBVIOUS
<1>1. CASE TransportNext
  <2>1. UNCHANGED <<inside, gateway, channel, client>>
    BY <1>1 DEF TransportNext, Connect, SubscriptionsAnswered, Reconnect, TransportStops,
       DataFrame, ConnectionEnds
  <2>2. QED BY <2>1, QuietStep DEF inside, IInv, Stream
<1>2. CASE OwnerNext
  <2>1. ASSUME NEW audited \in BOOLEAN, IngestLifecycle(audited) PROVE IInv'
    <3>1. /\ UNCHANGED <<sequence, permits, gateway, channel, client>>
          /\ owner = "receiving" /\ owner' \in {"receiving", "ended"}
      BY <2>1 DEF IngestLifecycle, Take
    <3>2. QED BY <3>1, QuietStep DEF IInv, Stream
  <2>2. ASSUME PersistenceFails PROVE IInv'
    BY <2>2, QuietStep DEF PersistenceFails, Take, IInv, Stream
  <2>3. ASSUME NEW checkpointed \in BOOLEAN, FrameDone(checkpointed) PROVE IInv'
    <3>1. UNCHANGED <<sequence, permits, gateway, channel, client>> /\ permits = <<>>
      BY <2>3 DEF FrameDone
    <3>2. QED BY <3>1, QuietStep
  <2>4. ASSUME NEW checkpointed \in BOOLEAN, OwnerEnds(checkpointed) PROVE IInv'
    BY <2>4, QuietStep DEF OwnerEnds, IInv, Stream
  <2>5. QED BY <1>2, <2>1, <2>2, <2>3, <2>4, IngestEventsStep, SendPermitStep DEF OwnerNext
<1>3. CASE Forward
  BY <1>3, ForwardStep
<1>4. ASSUME NEW c \in Clients, ClientNext(c) PROVE IInv'
  <2>1. CASE HealthCheck(c)
    BY <2>1, EndStep DEF HealthCheck
  <2>2. CASE Leave(c)
    BY <2>2, EndStep DEF Leave
  <2>3. QED
    BY <1>4, <2>1, <2>2, SubscribeStep, TakeSnapshotStep, ReplayNextStep, ReceiveStep
       DEF ClientNext
<1>5. CASE StopService \/ ServerDrained \/ Exit \/ UNCHANGED vars
  <2>1. UNCHANGED <<inside, gateway, channel, client>>
    BY <1>5 DEF StopService, ServerDrained, Exit, vars, inside
  <2>2. QED BY <2>1, QuietStep DEF inside, IInv, Stream
<1>6. QED BY <1>1, <1>2, <1>3, <1>4, <1>5 DEF Next

LEMMA SpecIInv == Spec => []IInv
<1>1. QED BY InitIInv, NextIInv, PTL DEF Spec

(* Every published number reaches the broadcast channel, once and in       *)
(* order: the gateway's permits are reserved before the batch is appended. *)
THEOREM StreamIsAlwaysTheLog == Spec => []StreamIsTheLog
<1>1. QED BY SpecIInv, IInvImplies, PTL

(* A stream client is handed the numbers after its cursor, each once and   *)
(* in order, across the change from the replayed projection to the         *)
(* broadcast channel.                                                      *)
THEOREM AlwaysDeliveredInOrder == Spec => []DeliveredInOrder
<1>1. QED BY SpecIInv, IInvImplies, PTL

(* A live client is never told of a gap: what the replay does not cover    *)
(* is still in its receiver, or the receiver has lagged and says so.       *)
THEOREM NeverAGap == Spec => []GapOnlyFromLag
<1>1. QED BY SpecIInv, IInvImplies, PTL

=============================================================================
