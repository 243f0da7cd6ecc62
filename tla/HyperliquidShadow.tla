------------------------- MODULE HyperliquidShadow -------------------------
(***************************************************************************)
(* The Hyperliquid shadow of marketcowd: the transport task that connects  *)
(* and reconnects, the owner thread that feeds the durable hub, the        *)
(* gateway task that forwards published events to the public broadcast     *)
(* channel, and the stream clients that replay a projection and then go    *)
(* live.  The durable writer is seen through what DurableWriter shows of   *)
(* it: published events get consecutive sequence numbers and the last      *)
(* ReplayCapacity of them can be replayed.                                 *)
(*                                                                         *)
(* The queue probe of the metrics endpoint holds a sender of both queues   *)
(* in AppState, so a queue stays open while the HTTP server runs or any    *)
(* stream client, which owns a clone of AppState, is connected.            *)
(***************************************************************************)
EXTENDS Naturals, Sequences, FiniteSets

CONSTANTS
    Clients,           \* stream clients
    MaxReconnects,     \* maximum_reconnect_attempts
    TransportCapacity, \* HYPERLIQUID_TRANSPORT_CHANNEL_CAPACITY
    GatewayCapacity,   \* HYPERLIQUID_GATEWAY_CHANNEL_CAPACITY
    PublicCapacity,    \* HYPERLIQUID_PUBLIC_CHANNEL_CAPACITY
    ReplayCapacity,    \* HYPERLIQUID_REPLAY_CAPACITY
    MaxSequence        \* bound: events published by one process

ASSUME CapacityAssumption ==
    /\ MaxReconnects \in Nat \ {0}
    /\ {TransportCapacity, GatewayCapacity, PublicCapacity, ReplayCapacity}
         \subseteq Nat \ {0}
    /\ MaxSequence \in Nat

VARIABLES
    service,    \* "serving", "stopping", "drained" (HTTP server gone), "exited"
    transport,  \* pc and attempt of the transport task
    outputs,    \* the transport queue
    hub,        \* lifecycle of the hub, with its attempt and failure reason
    sequence,   \* public sequence of the projection
    owner,      \* "receiving", "sending" or "ended"
    permits,    \* committed events the owner has yet to put into the gateway queue
    gateway,    \* the gateway queue
    channel,    \* everything sent on the broadcast channel
    client      \* the stream clients

vars == <<service, transport, outputs, hub, sequence, owner, permits, gateway,
          channel, client>>
upstream == <<transport, outputs>>
inside   == <<hub, sequence, owner, permits>>

Numbers(a, b) == [i \in 1..(IF b >= a THEN b - a + 1 ELSE 0) |-> a + i - 1]

Outputs ==
    [type: {"connected", "subscriptions", "degraded", "events"},
     attempt: 1..MaxReconnects, retryable: BOOLEAN, count: 0..2]

Output(type, retryable, count) ==
    [type |-> type, attempt |-> transport.attempt, retryable |-> retryable,
     count |-> count]

Idle == [pc |-> "idle", next |-> 0, after |-> 0, last |-> 0, replay |-> <<>>,
         delivered |-> <<>>]

Connected(c) == client[c].pc \in {"subscribed", "replaying", "live"}

\* A sender of the queues exists besides those of transport and owner.
ProbeHeld ==
    service \in {"serving", "stopping"} \/ \E c \in Clients : Connected(c)

Init ==
    /\ service = "serving"
    /\ transport = [pc |-> "connecting", attempt |-> 1]
    /\ outputs = <<>>
    /\ hub = [life |-> "starting", attempt |-> 0, retryable |-> TRUE,
              reason |-> "none"]
    /\ sequence = 0
    /\ owner = "receiving" /\ permits = <<>>
    /\ gateway = <<>> /\ channel = <<>>
    /\ client = [c \in Clients |-> Idle]

-----------------------------------------------------------------------------
(* The transport task *)

Full == Len(outputs) >= TransportCapacity

\* try_output: a full queue or a closed one ends the transport.  The error of
\* a closed queue is first reported as a degradation, which fails alike.
TryOutput(output, pc) ==
    IF owner # "ended" /\ ~ Full
    THEN outputs' = Append(outputs, output) /\ transport' = [transport EXCEPT !.pc = pc]
    ELSE UNCHANGED outputs /\ transport' = [transport EXCEPT !.pc = "failed"]

Connect ==
    /\ transport.pc = "connecting"
    /\ TryOutput(Output("connected", TRUE, 0), "subscribing")
    /\ UNCHANGED <<service, inside, gateway, channel, client>>

\* The last expected subscription response arrives.
SubscriptionsAnswered ==
    /\ transport.pc = "subscribing"
    /\ TryOutput(Output("subscriptions", TRUE, 0), "streaming")
    /\ UNCHANGED <<service, inside, gateway, channel, client>>

\* A data frame, also before every subscription was answered.
DataFrame(count) ==
    /\ transport.pc \in {"subscribing", "streaming"}
    /\ TryOutput(Output("events", TRUE, count), transport.pc)
    /\ UNCHANGED <<service, inside, gateway, channel, client>>

\* The connection is refused or ends with an error (clean is FALSE), or the
\* peer closes it (clean).  Only the error of the last attempt is final.
ConnectionEnds(clean) ==
    /\ transport.pc \in {"connecting", "subscribing", "streaming"}
    /\ transport.pc = "connecting" => ~ clean
    /\ TryOutput(Output("degraded",
                        clean \/ transport.attempt < MaxReconnects, 0),
                 IF transport.attempt = MaxReconnects THEN "failed" ELSE "waiting")
    /\ UNCHANGED <<service, inside, gateway, channel, client>>

\* reconnect_delay has passed.
Reconnect ==
    /\ transport.pc = "waiting"
    /\ transport' = [pc |-> "connecting", attempt |-> transport.attempt + 1]
    /\ UNCHANGED <<service, outputs, inside, gateway, channel, client>>

\* The shutdown signal is seen before an attempt, in a connection or in the
\* delay after it.
TransportStops ==
    /\ service # "serving"
    /\ transport.pc \in {"connecting", "subscribing", "streaming", "waiting"}
    /\ transport' = [transport EXCEPT !.pc = "stopped"]
    /\ UNCHANGED <<service, outputs, inside, gateway, channel, client>>

-----------------------------------------------------------------------------
(* The owner thread: DurableRealtimeHub::ingest of one output *)

Closed(reason) ==
    hub' = [hub EXCEPT !.life = "failed_closed", !.reason = reason]

Take(output) ==
    /\ owner = "receiving" /\ outputs # <<>>
    /\ output = Head(outputs) /\ outputs' = Tail(outputs)

ConnectedValid(output) ==
    /\ \/ hub.life = "starting" /\ output.attempt = 1
       \/ /\ hub.life = "degraded" /\ hub.retryable
          /\ output.attempt = hub.attempt + 1
    /\ output.attempt > hub.attempt

DegradedValid(output) ==
    /\ \/ hub.life = "starting" /\ output.attempt = 1
       \/ hub.life \in {"connected", "ready"} /\ hub.attempt = output.attempt
    /\ output.attempt >= hub.attempt

\* A lifecycle output: the transition is valid and audited, or the hub closes
\* and the owner ends.
IngestLifecycle(audited) ==
    \E output \in Outputs :
      /\ Take(output) /\ output.type # "events"
      /\ LET valid == CASE output.type = "connected" -> ConnectedValid(output)
                        [] output.type = "degraded"  -> DegradedValid(output)
                        [] output.type = "subscriptions" ->
                             hub.life = "connected" /\ hub.attempt = output.attempt
             life  == CASE output.type = "connected" -> "connected"
                        [] output.type = "degraded"  -> "degraded"
                        [] output.type = "subscriptions" -> "ready"
         IN  IF valid /\ audited
             THEN /\ hub' = [life |-> life, attempt |-> output.attempt,
                             retryable |-> output.retryable, reason |-> "none"]
                  /\ UNCHANGED owner
             ELSE /\ Closed(IF valid THEN "lifecycle_audit_failed"
                            ELSE output.type)
                  /\ owner' = "ended"
      /\ UNCHANGED <<service, transport, sequence, permits, gateway, channel, client>>

\* Mutant: capacity is not reserved and the events that do not fit are lost.
IngestEventsUnreserved(published) ==
    \E output \in Outputs :
      /\ Take(output) /\ output.type = "events"
      /\ sequence + published <= MaxSequence /\ published <= output.count
      /\ sequence' = sequence + published
      /\ permits' = SelectSeq(Numbers(sequence + 1, sequence + published),
                        LAMBDA n : n - sequence <= GatewayCapacity - Len(gateway))
      /\ owner' = "sending"
      /\ UNCHANGED <<service, transport, hub, gateway, channel, client>>

\* An event frame: capacity for all of it is reserved, the batch is persisted,
\* the projection stored; the events that are not duplicates are then sent.
IngestEvents(published) ==
    \E output \in Outputs :
      /\ Take(output) /\ output.type = "events"
      /\ published <= output.count
      /\ LET ready == hub.life = "ready" /\ hub.attempt = output.attempt
                        /\ output.count > 0
             fits  == Len(gateway) + output.count <= GatewayCapacity
         IN  IF ready /\ fits
             THEN /\ sequence + published <= MaxSequence
                  /\ sequence' = sequence + published
                  /\ permits' = Numbers(sequence + 1, sequence + published)
                  /\ owner' = "sending"
                  /\ UNCHANGED hub
             ELSE /\ Closed(IF ready THEN "gateway_backpressure" ELSE "early_events")
                  /\ owner' = "ended"
                  /\ UNCHANGED <<sequence, permits>>
      /\ UNCHANGED <<service, transport, gateway, channel, client>>

\* apply_batch fails.
PersistenceFails ==
    \E output \in Outputs :
      /\ Take(output) /\ output.type = "events"
      /\ hub.life = "ready" /\ hub.attempt = output.attempt
      /\ Closed("persistence") /\ owner' = "ended"
      /\ UNCHANGED <<service, transport, sequence, permits, gateway, channel, client>>

SendPermit ==
    /\ owner = "sending" /\ permits # <<>>
    /\ gateway' = Append(gateway, Head(permits))
    /\ permits' = Tail(permits)
    /\ UNCHANGED <<service, upstream, hub, sequence, owner, channel, client>>

\* The frame is done; a checkpoint that became due may fail.
FrameDone(checkpointed) ==
    /\ owner = "sending" /\ permits = <<>>
    /\ IF checkpointed THEN owner' = "receiving" /\ UNCHANGED hub
                       ELSE owner' = "ended" /\ Closed("checkpoint_failed")
    /\ UNCHANGED <<service, upstream, sequence, permits, gateway, channel, client>>

QueueClosed ==
    /\ outputs = <<>>
    /\ transport.pc \in {"failed", "stopped"}
    /\ ~ ProbeHeld

\* blocking_recv returns None: fail closed after a terminal error, otherwise
\* write the last checkpoint.
OwnerEnds(checkpointed) ==
    /\ owner = "receiving" /\ QueueClosed
    /\ owner' = "ended"
    /\ IF transport.pc = "failed" THEN Closed("transport")
       ELSE IF checkpointed THEN UNCHANGED hub
       ELSE Closed("shutdown_checkpoint_failed")
    /\ UNCHANGED <<service, upstream, sequence, permits, gateway, channel, client>>

-----------------------------------------------------------------------------
(* Gateway task and stream clients *)

Forward ==
    /\ gateway # <<>>
    /\ channel' = Append(channel, Head(gateway))
    /\ gateway' = Tail(gateway)
    /\ UNCHANGED <<service, upstream, inside, client>>

Subscribe(c) ==
    /\ client[c].pc = "idle" /\ service = "serving"
    /\ client' = [client EXCEPT ![c] = [Idle EXCEPT !.pc = "subscribed",
                                                    !.next = Len(channel) + 1]]
    /\ UNCHANGED <<service, upstream, inside, gateway, channel>>

End(c, reason) == client' = [client EXCEPT ![c].pc = reason, ![c].replay = <<>>]

Earliest == IF sequence > ReplayCapacity THEN sequence - ReplayCapacity + 1 ELSE 1

\* The projection is read once the receiver exists; its replay window answers
\* the cursor, or the request is refused.
TakeSnapshot(c, after) ==
    /\ client[c].pc = "subscribed"
    /\ IF hub.life = "ready" /\ after <= sequence /\ after + 1 >= Earliest
       THEN client' = [client EXCEPT ![c] =
                          [@ EXCEPT !.pc = "replaying", !.after = after,
                                    !.last = after,
                                    !.replay = Numbers(after + 1, sequence)]]
       ELSE End(c, "refused")
    /\ UNCHANGED <<service, upstream, inside, gateway, channel>>

Deliver(c, number) ==
    [client[c] EXCEPT !.last = number, !.delivered = Append(@, number)]

\* Mutant: the receiver is created when the replay is done.
ReplayNextThenSubscribe(c) ==
    /\ client[c].pc = "replaying"
    /\ client' = [client EXCEPT ![c] =
          IF client[c].replay = <<>>
          THEN [@ EXCEPT !.pc = "live", !.next = Len(channel) + 1]
          ELSE [Deliver(c, Head(client[c].replay)) EXCEPT
                   !.replay = Tail(client[c].replay)]]
    /\ UNCHANGED <<service, upstream, inside, gateway, channel>>

ReplayNext(c) ==
    /\ client[c].pc = "replaying"
    /\ client' = [client EXCEPT ![c] =
          IF client[c].replay = <<>> THEN [@ EXCEPT !.pc = "live"]
          ELSE [Deliver(c, Head(client[c].replay)) EXCEPT
                   !.replay = Tail(client[c].replay)]]
    /\ UNCHANGED <<service, upstream, inside, gateway, channel>>

Lagged(c) == client[c].next + PublicCapacity <= Len(channel)

\* Mutant: what the replay covered is delivered again.
ReceiveEverything(c) ==
    /\ client[c].pc = "live" /\ client[c].next <= Len(channel)
    /\ client' = [client EXCEPT ![c] =
          [Deliver(c, channel[client[c].next]) EXCEPT !.next = @ + 1]]
    /\ UNCHANGED <<service, upstream, inside, gateway, channel>>

\* One receive of a live client: skip what the replay covered, deliver the
\* next number, ask for a resync after a gap or a lag.
Receive(c) ==
    LET number == channel[client[c].next]
        moved  == [client[c] EXCEPT !.next = @ + 1]
    IN  /\ client[c].pc = "live" /\ client[c].next <= Len(channel)
        /\ IF Lagged(c) THEN End(c, "lagged")
           ELSE IF number <= client[c].last
           THEN client' = [client EXCEPT ![c] = moved]
           ELSE IF number = client[c].last + 1
           THEN client' = [client EXCEPT ![c] = [Deliver(c, number) EXCEPT !.next = @ + 1]]
           ELSE End(c, "gap")
        /\ UNCHANGED <<service, upstream, inside, gateway, channel>>

\* Mutant: only a degraded hub counts as unready.
HealthCheckDegraded(c) ==
    /\ client[c].pc = "live" /\ hub.life = "degraded"
    /\ End(c, "unready")
    /\ UNCHANGED <<service, upstream, inside, gateway, channel>>

HealthCheck(c) ==
    /\ client[c].pc = "live" /\ hub.life # "ready"
    /\ End(c, "unready")
    /\ UNCHANGED <<service, upstream, inside, gateway, channel>>

\* The peer goes away, or a send to it fails or takes too long.
Leave(c) ==
    /\ Connected(c)
    /\ End(c, "left")
    /\ UNCHANGED <<service, upstream, inside, gateway, channel>>

-----------------------------------------------------------------------------
(* Shutdown *)

StopService ==
    /\ service = "serving"
    /\ service' = "stopping"
    /\ UNCHANGED <<upstream, inside, gateway, channel, client>>

\* axum::serve returns; upgraded connections live on in tasks of their own.
ServerDrained ==
    /\ service = "stopping"
    /\ \A c \in Clients : client[c].pc # "subscribed"
    /\ service' = "drained"
    /\ UNCHANGED <<upstream, inside, gateway, channel, client>>

\* main waits for the transport, the owner and the gateway, then returns.
Exit ==
    /\ service = "drained"
    /\ transport.pc \in {"failed", "stopped"}
    /\ owner = "ended" /\ gateway = <<>> /\ ~ ProbeHeld
    /\ service' = "exited"
    /\ UNCHANGED <<upstream, inside, gateway, channel, client>>

TransportNext ==
    \/ Connect \/ SubscriptionsAnswered \/ Reconnect \/ TransportStops
    \/ \E count \in 1..2 : DataFrame(count)
    \/ \E clean \in BOOLEAN : ConnectionEnds(clean)

OwnerNext ==
    \/ \E audited \in BOOLEAN : IngestLifecycle(audited)
    \/ \E published \in 0..2 : IngestEvents(published)
    \/ PersistenceFails \/ SendPermit
    \/ \E checkpointed \in BOOLEAN : FrameDone(checkpointed)
    \/ \E checkpointed \in BOOLEAN : OwnerEnds(checkpointed)

ClientNext(c) ==
    \/ Subscribe(c) \/ (\E after \in 0..MaxSequence : TakeSnapshot(c, after))
    \/ ReplayNext(c) \/ Receive(c) \/ HealthCheck(c) \/ Leave(c)

Next ==
    \/ TransportNext \/ OwnerNext \/ Forward
    \/ \E c \in Clients : ClientNext(c)
    \/ StopService \/ ServerDrained \/ Exit

Spec == Init /\ [][Next]_vars

\* Tasks that can run do; a connected client keeps its session going.
Fairness ==
    /\ WF_vars(OwnerNext) /\ WF_vars(Forward)
    /\ WF_vars(TransportStops) /\ WF_vars(Reconnect)
    /\ WF_vars(ServerDrained) /\ WF_vars(Exit)
    /\ \A c \in Clients : /\ WF_vars(ReplayNext(c)) /\ WF_vars(HealthCheck(c))
                          /\ WF_vars(Receive(c))
                          /\ WF_vars(\E after \in 0..MaxSequence : TakeSnapshot(c, after))

FairSpec == Spec /\ Fairness

-----------------------------------------------------------------------------
(* Properties *)

\* A stream client is handed the numbers after its cursor, each once and in
\* order, across the hand-off from the replayed projection to the broadcast
\* channel (serve_hyperliquid_shadow_stream).
DeliveredInOrder ==
    \A c \in Clients :
      Connected(c) => client[c].delivered = Numbers(client[c].after + 1, client[c].last)

\* A client that keeps up never meets a gap: subscribing before reading the
\* projection covers everything the replay does not (hyperliquid_stream_response).
GapOnlyFromLag == \A c \in Clients : client[c].pc # "gap"

\* Every number of the projection reaches the broadcast channel, once and in
\* order: the permits reserved before the append leave no room for a loss.
StreamIsTheLog == channel \o gateway \o permits = Numbers(1, sequence)

\* A client whose hub is lost is told to resync, or has left.
ClientsLearnOfFailure ==
    \A c \in Clients :
      (client[c].pc = "live" /\ hub.life = "failed_closed") ~> (client[c].pc # "live")

============================================================================
