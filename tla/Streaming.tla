------------------------------ MODULE Streaming -----------------------------
(***************************************************************************)
(* A publish/subscribe channel of aegis-streaming and the engine that owns *)
(* it: create_channel, delete_channel, publish, subscribe, unsubscribe,    *)
(* recv and ack.  The channel hands events to its receivers through        *)
(* tokio's broadcast channel, a ring of the last Capacity events in which  *)
(* each receiver has a position of its own; a receiver that falls behind   *)
(* is told how many events it missed and goes on at the oldest one left.   *)
(*                                                                         *)
(* There is one channel name; a channel that is deleted and created again  *)
(* is another object, with the next epoch.  subscribe counts, attaches and *)
(* registers in three steps; the engine's channels lock, which it holds    *)
(* for reading, keeps delete_channel out meanwhile.  Channels are the      *)
(* default ones, which keep no history: the server makes no other.         *)
(***************************************************************************)
EXTENDS Integers, Sequences, FiniteSets, Functions

CONSTANTS
    Subscriber,      \* consumers, each with an identifier of its own
    Kind,            \* what a filter tells apart: the event types
    None,            \* no receiver
    Capacity,        \* of the ring: buffer_size rounded up to a power of two
    MaxSubscribers,  \* max_subscribers
    MaxEvents,       \* bound: events published
    MaxEpoch         \* bound: channels created

ASSUME StreamingAssumption ==
    /\ Capacity \in Nat \ {0}
    /\ MaxSubscribers \in Nat /\ MaxEvents \in Nat /\ MaxEpoch \in Nat
    /\ None \notin Subscriber \cup Kind

VARIABLES
    live,     \* whether the channel exists
    epoch,    \* the channel object that has the name, or had it last
    sent,     \* the events each object's ring was given
    members,  \* Channel::subscribers
    count,    \* ChannelStats::subscriber_count
    sub,      \* how far each subscriber's subscribe has come
    rx,       \* its receiver
    events    \* events published so far

channelVars == <<live, epoch, members, count>>
streamVars == <<channelVars, sent, sub, rx, events>>

Mode == {"Auto", "Manual"}
Filter == {Kind} \cup {{k} : k \in Kind}

\* A receiver: the object it is attached to, where it started and where it is
\* in that object's ring, and AckState.  lagged is the sum of the counts it was
\* told and got the positions it was handed (history).
Receiver(e, mode, filter) ==
    [epoch |-> e, from |-> Len(sent[e]), pos |-> Len(sent[e]), mode |-> mode,
     filter |-> filter, next |-> 0, unacked |-> {}, acked |-> {},
     lagged |-> 0, got |-> <<>>]

StreamInit ==
    /\ live = FALSE
    /\ epoch = 0
    /\ sent = [e \in 1..MaxEpoch |-> <<>>]
    /\ members = {}
    /\ count = 0
    /\ sub = [s \in Subscriber |-> "idle"]
    /\ rx = [s \in Subscriber |-> None]
    /\ events = 0

\* The channels lock is free.
Unshared == \A s \in Subscriber : sub[s] = "idle"

CreateChannel ==
    /\ Unshared
    /\ ~ live
    /\ epoch < MaxEpoch
    /\ live' = TRUE
    /\ epoch' = epoch + 1
    /\ members' = {}
    /\ count' = 0
    /\ UNCHANGED <<sent, sub, rx, events>>

\* Dropping the channel drops the sender: its receivers see the end.
DeleteChannel ==
    /\ Unshared
    /\ live
    /\ live' = FALSE
    /\ UNCHANGED <<epoch, members, count, sent, sub, rx, events>>

\* The event goes into the ring.  With nobody attached send drops it, which
\* comes to the same: a receiver starts behind all events sent before it.
Publish(k) ==
    /\ live
    /\ events < MaxEvents
    /\ events' = events + 1
    /\ sent' = [sent EXCEPT ![epoch] = Append(@, [id |-> events + 1, kind |-> k])]
    /\ UNCHANGED <<channelVars, sub, rx>>

-----------------------------------------------------------------------------
(* subscribe and unsubscribe                                               *)

\* The limit is checked with the subscribers lock held, then released.
SubscribeCheck(s) ==
    /\ live
    /\ sub[s] = "idle"
    /\ rx[s] = None
    /\ Cardinality(members) < MaxSubscribers
    /\ sub' = [sub EXCEPT ![s] = "checked"]
    /\ UNCHANGED <<channelVars, sent, rx, events>>

SubscribeAttach(s, mode, filter) ==
    /\ sub[s] = "checked"
    /\ rx' = [rx EXCEPT ![s] = Receiver(epoch, mode, filter)]
    /\ sub' = [sub EXCEPT ![s] = "attached"]
    /\ UNCHANGED <<channelVars, sent, events>>

SubscribeRegister(s) ==
    /\ sub[s] = "attached"
    /\ members' = members \cup {s}
    /\ count' = count + 1
    /\ sub' = [sub EXCEPT ![s] = "idle"]
    /\ UNCHANGED <<live, epoch, sent, rx, events>>

\* The registration goes; the receiver stays with its owner and works on.
Unsubscribe(s) ==
    /\ live
    /\ sub[s] = "idle"
    /\ s \in members
    /\ members' = members \ {s}
    /\ count' = count - 1
    /\ UNCHANGED <<live, epoch, sent, sub, rx, events>>

\* The consumer goes away, as an SSE client does: nothing is unregistered.
DropReceiver(s) ==
    /\ rx[s] # None
    /\ sub[s] = "idle"
    /\ rx' = [rx EXCEPT ![s] = None]
    /\ UNCHANGED <<channelVars, sent, sub, events>>

-----------------------------------------------------------------------------
(* recv and try_recv, one turn of the loop.                                *)

Ring(s) == sent[rx[s].epoch]
Oldest(s) == IF Len(Ring(s)) > Capacity THEN Len(Ring(s)) - Capacity ELSE 0

\* Mutant: a channel of the same name counts as the receiver's.
ClosedByName(s) == ~ live

\* The sender of the receiver's channel is gone.
Closed(s) == ~ live \/ rx[s].epoch # epoch

\* Mutant: the receiver goes on behind the events it missed, and says nothing.
LaggedSilent(s) ==
    /\ rx[s].pos < Oldest(s)
    /\ rx' = [rx EXCEPT ![s].pos = Oldest(s)]

\* The ring has lost events of this receiver.
Lagged(s) ==
    /\ rx[s].pos < Oldest(s)
    /\ rx' = [rx EXCEPT ![s].pos = Oldest(s),
                        ![s].lagged = @ + Oldest(s) - rx[s].pos]

Received(s) == Ring(s)[rx[s].pos + 1]

\* Mutant: an event of another kind is looked at for ever.
SkipStays(s) ==
    /\ Oldest(s) <= rx[s].pos /\ rx[s].pos < Len(Ring(s))
    /\ Received(s).kind \notin rx[s].filter
    /\ rx' = rx

Skip(s) ==
    /\ Oldest(s) <= rx[s].pos /\ rx[s].pos < Len(Ring(s))
    /\ Received(s).kind \notin rx[s].filter
    /\ rx' = [rx EXCEPT ![s].pos = @ + 1]

\* Mutant: an event is tracked by its place in the ring, not by its offset.
TrackedByPlace(r, e) ==
    CASE r.mode = "Auto" -> [r EXCEPT !.acked = @ \cup {r.next}]
      [] r.mode = "Manual" -> [r EXCEPT !.unacked = @ \cup {<<r.pos, e>>}]

Tracked(r, e) ==
    CASE r.mode = "Auto" -> [r EXCEPT !.acked = @ \cup {r.next}]
      [] r.mode = "Manual" -> [r EXCEPT !.unacked = @ \cup {<<r.next, e>>}]

Handed(r, e) ==
    [Tracked(r, e) EXCEPT !.pos = @ + 1, !.next = @ + 1, !.got = Append(@, r.pos + 1)]

Deliver(s) ==
    /\ Oldest(s) <= rx[s].pos /\ rx[s].pos < Len(Ring(s))
    /\ Received(s).kind \in rx[s].filter
    /\ rx' = [rx EXCEPT ![s] = Handed(rx[s], Received(s))]

\* The end of a deleted channel, once the ring is empty: the consumer stops.
End(s) ==
    /\ rx[s].pos = Len(Ring(s))
    /\ Closed(s)
    /\ rx' = [rx EXCEPT ![s] = None]

Recv(s) ==
    /\ rx[s] # None
    /\ sub[s] = "idle"
    /\ Lagged(s) \/ Skip(s) \/ Deliver(s) \/ End(s)
    /\ UNCHANGED <<channelVars, sent, sub, events>>

\* ack removes the offset from the unacknowledged ones; one that was
\* acknowledged before changes nothing.
Ack(s, u) ==
    /\ rx[s] # None
    /\ u \in rx[s].unacked
    /\ rx' = [rx EXCEPT ![s].unacked = @ \ {u}, ![s].acked = @ \cup {u[1]}]
    /\ UNCHANGED <<channelVars, sent, sub, events>>

StreamNext ==
    \/ CreateChannel \/ DeleteChannel
    \/ \E k \in Kind : Publish(k)
    \/ \E s \in Subscriber :
         \/ SubscribeCheck(s) \/ SubscribeRegister(s)
         \/ \E m \in Mode, f \in Filter : SubscribeAttach(s, m, f)
         \/ Unsubscribe(s) \/ DropReceiver(s) \/ Recv(s)
         \/ rx[s] # None /\ \E u \in rx[s].unacked : Ack(s, u)

StreamSpec == StreamInit /\ [][StreamNext]_streamVars

-----------------------------------------------------------------------------
(* Properties.                                                             *)

Attached == {s \in Subscriber : rx[s] # None}

\* No event is lost in silence: of the events sent since a receiver was
\* attached, up to where it is, each one its filter lets through was handed to
\* it, in the order they were sent and once, or is in a count of missed events
\* that it was told, however far publishers ran ahead of it.
NoSilentLoss ==
    \A s \in Attached :
        LET due == {i \in (rx[s].from + 1)..rx[s].pos : Ring(s)[i].kind \in rx[s].filter}
            got == rx[s].got
        IN  /\ Range(got) \subseteq due
            /\ \A i, j \in DOMAIN got : i < j => got[i] < got[j]
            /\ Cardinality(due \ Range(got)) <= rx[s].lagged

\* The offsets a receiver gave out are the acknowledged and the unacknowledged
\* ones, none in both, and the message kept for re-delivery under an offset is
\* the one that was delivered under it.
AckAccounting ==
    \A s \in Attached :
        LET r == rx[s]
            open == {u[1] : u \in r.unacked}
        IN  /\ r.acked \cup open = 0..(r.next - 1)
            /\ r.acked \cap open = {}
            /\ \A u \in r.unacked : u[2] = Ring(s)[r.got[u[1] + 1]]

\* A consumer that keeps calling recv gets past every event of its channel,
\* whatever its filter is and however far it has fallen behind, and when the
\* channel was deleted it is told so after the events that were left for it: it
\* does not wait for ever.
ReceiverCatchesUp ==
    \A s \in Subscriber :
        /\ \A i \in 1..MaxEvents :
             (rx[s] # None /\ i <= Len(Ring(s))) ~> (rx[s] = None \/ rx[s].pos >= i)
        /\ (rx[s] # None /\ (~ live \/ rx[s].epoch # epoch)) ~> (rx[s] = None)

-----------------------------------------------------------------------------
(* What makes NoSilentLoss and AckAccounting inductive.                    *)

Event == [id : Nat, kind : Kind]
ReceiverType ==
    [epoch : 1..MaxEpoch, from : Nat, pos : Nat, mode : Mode, filter : SUBSET Kind,
     next : Nat, unacked : SUBSET (Nat \X Event), acked : SUBSET Nat,
     lagged : Nat, got : Seq(Nat)]

StreamTypeOK ==
    /\ live \in BOOLEAN /\ epoch \in 0..MaxEpoch /\ events \in Nat
    /\ sent \in [1..MaxEpoch -> Seq(Event)]
    /\ sub \in [Subscriber -> {"idle", "checked", "attached"}]
    /\ rx \in [Subscriber -> ReceiverType \cup {None}]

\* A channel that exists, or that somebody subscribes to, is an object.
ChannelThere ==
    /\ live => epoch # 0
    /\ Unshared \/ live

\* A receiver is within its ring, and has had one event for each offset it
\* gave out.
ReceiversPlaced ==
    \A s \in Attached :
        /\ rx[s].from <= rx[s].pos /\ rx[s].pos <= Len(Ring(s))
        /\ Len(rx[s].got) = rx[s].next

StreamInv == StreamTypeOK /\ ChannelThere /\ ReceiversPlaced /\ NoSilentLoss /\ AckAccounting
=============================================================================
