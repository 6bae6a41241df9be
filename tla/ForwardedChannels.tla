------------------------- MODULE ForwardedChannels -------------------------
(***************************************************************************)
(* Channels that the server opens for remote forwards: the handler of the  *)
(* russh session loop puts them into one of two bounded queues and callers *)
(* of next_forwarded_tcpip() and next_forwarded_streamlocal() take them    *)
(* out (core/session.rs, core/channel.rs).                                 *)
(*                                                                         *)
(* One loop reads all packets and sends all requests.  While a handler     *)
(* waits for room in a queue the loop does neither, so a full queue stalls *)
(* the session.  Requests and cancellations of forwards take &mut self:    *)
(* while one is in progress nobody can be waiting for a channel.           *)
(*                                                                         *)
(* russh's loop and tokio's queue and fair mutex are external.             *)
(***************************************************************************)
EXTENDS Naturals, Sequences, SequencesExt

CONSTANTS Callers,      \* tasks that share the session
          Capacity,     \* FORWARDED_TCPIP_QUEUE_CAPACITY
          MaxOpens,     \* bound: channels the server opens, per kind
          MaxRequests   \* bound: requests of the session's owner

ASSUME ForwardedAssumption == /\ Capacity \in Nat \ {0}
                              /\ MaxOpens \in [{"tcpip", "streamlocal"} -> Nat]
                              /\ MaxRequests \in Nat

Kinds == {"tcpip", "streamlocal"}

VARIABLES running,    \* the session loop runs
          broken,     \* the transport is gone
          wire,       \* packets of the server the loop has not read
          outbox,     \* messages of the handle the loop has not sent
          asked,      \* requests the server has to answer
          hand,       \* the channel a handler is sending, if any
          queue,      \* queue[k]: the mpsc channel of kind k
          lock,       \* lock[k]: the receiver's mutex, holder first
          cpc,        \* cpc[p]: where caller p is
          want,       \* want[p]: the kind p waits for
          stop,       \* stop[p]: p's deadline has passed or token is set
          ended,      \* ended[p]: p's last call returned Ok(None)
          request,    \* number of the request in progress, 0 for none
          requests,   \* requests so far
          opened,     \* opened[k]: history, channels the server opened
          delivered   \* delivered[k]: history, channels taken from queue k

loopVars == <<running, broken, wire, outbox, asked, hand>>
callVars == <<lock, cpc, want, stop, ended>>
askVars == <<request, requests>>
forwardedVars == <<loopVars, queue, callVars, askVars, opened, delivered>>

Packets == [kind : Kinds \cup {"reply"}, id : Nat]
Bye == 0   \* the disconnect message; requests count from one

ForwardedTypeOK == /\ running \in BOOLEAN /\ broken \in BOOLEAN
                   /\ wire \in Seq(Packets)
                   /\ outbox \in Seq(Nat) /\ asked \in Seq(Nat)
                   /\ hand \in Seq([kind : Kinds, id : Nat]) /\ Len(hand) <= 1
                   /\ queue \in [Kinds -> Seq(Nat)]
                   /\ lock \in [Kinds -> Seq(Callers)]
                   /\ cpc \in [Callers -> {"idle", "locking", "receiving"}]
                   /\ want \in [Callers -> Kinds]
                   /\ stop \in [Callers -> BOOLEAN]
                   /\ ended \in [Callers -> BOOLEAN]
                   /\ request \in Nat /\ requests \in Nat
                   /\ opened \in [Kinds -> Nat]
                   /\ delivered \in [Kinds -> Seq(Nat)]

ForwardedInit == /\ running = TRUE /\ broken = FALSE
                 /\ wire = <<>> /\ outbox = <<>> /\ asked = <<>> /\ hand = <<>>
                 /\ queue = [k \in Kinds |-> <<>>]
                 /\ lock = [k \in Kinds |-> <<>>]
                 /\ cpc = [p \in Callers |-> "idle"]
                 /\ want = [p \in Callers |-> "tcpip"]
                 /\ stop = [p \in Callers |-> FALSE]
                 /\ ended = [p \in Callers |-> FALSE]
                 /\ request = 0 /\ requests = 0
                 /\ opened = [k \in Kinds |-> 0]
                 /\ delivered = [k \in Kinds |-> <<>>]

-----------------------------------------------------------------------------
Free == running /\ hand = <<>>

(* Mutated forms of the operations, each a plausible slip in this code.    *)

\* try_send() in the handler: a channel is dropped when the queue is full.
SendOrDrop ==
    /\ hand # <<>>
    /\ LET k == Head(hand).kind IN
       queue' = [queue EXCEPT ![k] = IF Len(@) < Capacity
                                       THEN Append(@, Head(hand).id) ELSE @]
    /\ hand' = <<>>
    /\ UNCHANGED <<running, broken, wire, outbox, asked, callVars, askVars,
                   opened, delivered>>

\* try_recv(): an empty queue is taken for the end.
ReceiveEndWhenEmpty(p) ==
    LET k == want[p] IN
    /\ cpc[p] = "receiving"
    /\ queue[k] = <<>>
    /\ cpc' = [cpc EXCEPT ![p] = "idle"]
    /\ lock' = [lock EXCEPT ![k] = Tail(@)]
    /\ ended' = [ended EXCEPT ![p] = TRUE]
    /\ stop' = [stop EXCEPT ![p] = FALSE]
    /\ UNCHANGED <<loopVars, queue, want, askVars, opened, delivered>>

\* The mutex is locked before context.run(), which then cannot interrupt it.
GiveUpHolding(p) ==
    /\ cpc[p] = "receiving" /\ stop[p]
    /\ cpc' = [cpc EXCEPT ![p] = "idle"]
    /\ lock' = [lock EXCEPT ![want[p]] = Tail(@)]
    /\ stop' = [stop EXCEPT ![p] = FALSE]
    /\ UNCHANGED <<loopVars, queue, want, ended, askVars, opened, delivered>>

\* next_forwarded_streamlocal() written after next_forwarded_tcpip(), receiver
\* included.
ReceiveTcpip(p) ==
    /\ cpc[p] = "receiving"
    /\ queue["tcpip"] # <<>>
    /\ queue' = [queue EXCEPT !["tcpip"] = Tail(@)]
    /\ delivered' = [delivered EXCEPT !["tcpip"] = Append(@, Head(queue["tcpip"]))]
    /\ cpc' = [cpc EXCEPT ![p] = "idle"]
    /\ lock' = [lock EXCEPT ![want[p]] = Tail(@)]
    /\ ended' = [ended EXCEPT ![p] = FALSE]
    /\ stop' = [stop EXCEPT ![p] = FALSE]
    /\ UNCHANGED <<loopVars, want, askVars, opened>>

-----------------------------------------------------------------------------
(* The server and the transport.                                           *)

ServerOpens(k) ==
    /\ ~broken /\ opened[k] < MaxOpens[k]
    /\ opened' = [opened EXCEPT ![k] = @ + 1]
    /\ wire' = Append(wire, [kind |-> k, id |-> opened[k] + 1])
    /\ UNCHANGED <<running, broken, outbox, asked, hand, queue, callVars, askVars,
                   delivered>>

ServerReplies ==
    /\ ~broken /\ asked # <<>>
    /\ asked' = Tail(asked)
    /\ wire' = Append(wire, [kind |-> "reply", id |-> Head(asked)])
    /\ UNCHANGED <<running, broken, outbox, hand, queue, callVars, askVars,
                   opened, delivered>>

TransportFails ==
    /\ ~broken
    /\ broken' = TRUE
    /\ UNCHANGED <<running, wire, outbox, asked, hand, queue, callVars, askVars,
                   opened, delivered>>

-----------------------------------------------------------------------------
(* The session loop.  Whatever it does, it is not inside a handler.        *)

\* A channel is handed to server_channel_open_forwarded_*(), a reply to the
\* request it belongs to; nobody may be waiting for it any more.
LoopReads ==
    /\ Free /\ wire # <<>>
    /\ wire' = Tail(wire)
    /\ IF Head(wire).kind = "reply"
         THEN /\ request' = IF Head(wire).id = request THEN 0 ELSE request
              /\ UNCHANGED hand
         ELSE /\ hand' = <<Head(wire)>>
              /\ UNCHANGED request
    /\ UNCHANGED <<running, broken, outbox, asked, queue, callVars, requests,
                   opened, delivered>>

\* sender.send().await in the handler.
Send ==
    /\ hand # <<>>
    /\ LET k == Head(hand).kind IN
       /\ Len(queue[k]) < Capacity
       /\ queue' = [queue EXCEPT ![k] = Append(@, Head(hand).id)]
    /\ hand' = <<>>
    /\ UNCHANGED <<running, broken, wire, outbox, asked, callVars, askVars,
                   opened, delivered>>

\* A request goes out, or the disconnect message.  After that russh's loop
\* ends at once, or goes on until the server closes the connection.
LoopWrites ==
    /\ Free /\ outbox # <<>>
    /\ outbox' = Tail(outbox)
    /\ IF Head(outbox) = Bye
         THEN running' \in BOOLEAN /\ UNCHANGED asked
         ELSE asked' = Append(asked, Head(outbox)) /\ UNCHANGED running
    /\ UNCHANGED <<broken, wire, hand, queue, callVars, askVars,
                   opened, delivered>>

\* The loop notices the broken transport and is dropped with its senders.
LoopEnds ==
    /\ Free /\ broken
    /\ running' = FALSE
    /\ UNCHANGED <<broken, wire, outbox, asked, hand, queue, callVars, askVars,
                   opened, delivered>>

-----------------------------------------------------------------------------
(* next_forwarded_*(): wait for the receiver's mutex, then for a channel,  *)
(* both inside context.run().                                              *)

Call(p, k) ==
    /\ cpc[p] = "idle" /\ request = 0
    /\ cpc' = [cpc EXCEPT ![p] = "locking"]
    /\ want' = [want EXCEPT ![p] = k]
    /\ ended' = [ended EXCEPT ![p] = FALSE]
    /\ lock' = [lock EXCEPT ![k] = Append(@, p)]
    /\ UNCHANGED <<loopVars, queue, stop, askVars, opened, delivered>>

\* Its deadline passes or its token is set.
Stop(p) ==
    /\ cpc[p] # "idle" /\ ~stop[p]
    /\ stop' = [stop EXCEPT ![p] = TRUE]
    /\ UNCHANGED <<loopVars, queue, lock, cpc, want, ended, askVars,
                   opened, delivered>>

Locked(p) ==
    /\ cpc[p] = "locking" /\ Head(lock[want[p]]) = p
    /\ cpc' = [cpc EXCEPT ![p] = "receiving"]
    /\ UNCHANGED <<loopVars, queue, lock, want, stop, ended, askVars,
                   opened, delivered>>

\* The call returns; its guard and its context are dropped.
Return(p, end) ==
    /\ cpc' = [cpc EXCEPT ![p] = "idle"]
    /\ lock' = [lock EXCEPT ![want[p]] = RemoveFirst(@, p)]
    /\ ended' = [ended EXCEPT ![p] = end]
    /\ stop' = [stop EXCEPT ![p] = FALSE]
    /\ UNCHANGED <<loopVars, want, askVars, opened>>

\* A channel with a port that is no u16 is taken as well: the caller gets an
\* error in its place.
Receive(p) ==
    LET k == want[p] IN
    /\ cpc[p] = "receiving"
    /\ queue[k] # <<>>
    /\ queue' = [queue EXCEPT ![k] = Tail(@)]
    /\ delivered' = [delivered EXCEPT ![k] = Append(@, Head(queue[k]))]
    /\ Return(p, FALSE)

\* recv() returns None when the queue is empty and its senders are gone.
ReceiveEnd(p) ==
    /\ cpc[p] = "receiving"
    /\ queue[want[p]] = <<>> /\ ~running
    /\ Return(p, TRUE)
    /\ UNCHANGED <<queue, delivered>>

\* context.run() drops the future, wherever it waits.
GiveUp(p) ==
    /\ cpc[p] # "idle" /\ stop[p]
    /\ Return(p, FALSE)
    /\ UNCHANGED <<queue, delivered>>

-----------------------------------------------------------------------------
(* The owner of the session: request_remote_*_forward() and                *)
(* cancel_remote_*_forward(), which need it alone, and disconnect().       *)

OwnerRequest ==
    /\ request = 0 /\ requests < MaxRequests
    /\ \A p \in Callers : cpc[p] = "idle"
    /\ requests' = requests + 1
    /\ request' = requests + 1
    /\ outbox' = Append(outbox, requests + 1)
    /\ UNCHANGED <<running, broken, wire, asked, hand, queue, callVars, opened,
                   delivered>>

\* operation_timeout, the token, or a handle whose loop is gone.
RequestTimeout ==
    /\ request # 0
    /\ request' = 0
    /\ UNCHANGED <<loopVars, queue, callVars, requests, opened, delivered>>

Disconnect ==
    /\ request = 0
    /\ \A i \in DOMAIN outbox : outbox[i] # Bye
    /\ running
    /\ outbox' = Append(outbox, Bye)
    /\ UNCHANGED <<running, broken, wire, asked, hand, queue, callVars, askVars,
                   opened, delivered>>

-----------------------------------------------------------------------------
Server == (\E k \in Kinds : ServerOpens(k)) \/ ServerReplies \/ TransportFails

LoopStep == LoopReads \/ LoopEnds
CallStep(p) == Locked(p) \/ Receive(p) \/ ReceiveEnd(p) \/ GiveUp(p)

ForwardedNext == \/ Server
                 \/ LoopStep \/ Send \/ LoopWrites
                 \/ \E p \in Callers : \/ \E k \in Kinds : Call(p, k)
                                       \/ Stop(p) \/ CallStep(p)
                 \/ OwnerRequest \/ RequestTimeout \/ Disconnect

\* The loop, the tasks and the timer of a request go on while they can; the
\* loop's select! is unbiased, so it neither starves reading nor writing.
\* No caller has to call, and the server owes nothing.
ForwardedFairness == /\ WF_forwardedVars(LoopStep) /\ WF_forwardedVars(Send)
                     /\ SF_forwardedVars(LoopWrites)
                     /\ \A p \in Callers : WF_forwardedVars(CallStep(p))
                     /\ WF_forwardedVars(RequestTimeout)

ForwardedSafetySpec == ForwardedInit /\ [][ForwardedNext]_forwardedVars

ForwardedSpec == ForwardedSafetySpec /\ ForwardedFairness

-----------------------------------------------------------------------------
(* Properties *)

Numbers(n) == [i \in 1..n |-> i]

\* What has reached the queue of a kind, and that exactly the rest of its
\* channels is in the handler's hand or on the wire, in order.
Queued(k) == Len(delivered[k]) + Len(queue[k])
Coming == hand \o wire
For(k) == {i \in DOMAIN Coming : Coming[i].kind = k}
Travelling(k) ==
    /\ \A n \in Queued(k) + 1..opened[k] : \E i \in For(k) : Coming[i].id = n
    /\ \A i \in For(k) : Coming[i].id \in Queued(k) + 1..opened[k]
    /\ \A i, j \in For(k) : i < j => Coming[i].id < Coming[j].id

\* Ok(None) means that the session is over and that the caller will not miss
\* a channel that was queued before it ended.
EndIsEnd ==
    \A p \in Callers : ended[p] => ~running /\ queue[want[p]] = <<>>

\* A receiver's mutex is waited for by the callers of its kind and by nobody
\* else, each once, and whoever receives holds it; no queue exceeds its
\* capacity, a handler sends one channel, requests exclude callers, and the
\* end that a caller is told of is the end.
ForwardedInv ==
    /\ ForwardedTypeOK
    /\ \A k \in Kinds :
        /\ ToSet(lock[k]) = {p \in Callers : cpc[p] # "idle" /\ want[p] = k}
        /\ IsInjective(lock[k])
        /\ Len(queue[k]) <= Capacity
    /\ \A p \in Callers : cpc[p] = "receiving" => Head(lock[want[p]]) = p
    /\ request # 0 => \A p \in Callers : cpc[p] = "idle"
    /\ ~running => hand = <<>>
    /\ EndIsEnd

\* Channels of a kind are handed out once each and in the order the server
\* opened them, across concurrent callers that come, give up and go away;
\* none is missing but those that the loop has not read or is about to queue.
NoneLost ==
    \A k \in Kinds :
        /\ IsPrefix(delivered[k] \o queue[k], Numbers(opened[k]))
        /\ Travelling(k)

\* A caller whose context ends returns, also while another caller sits on
\* the receiver's mutex without a deadline (the lock is taken inside run).
CallerReturns ==
    \A p \in Callers : cpc[p] # "idle" /\ stop[p] ~> cpc[p] = "idle"

\* One loop fills both queues, so a channel that a caller waits for may stand
\* behind a handler that waits for room.  A caller whose kind has a channel
\* left returns, or others took it, in whatever order callers before it give
\* up, unless its queue is empty and the session is over or stuck for good on
\* the other kind.  A full queue of its own kind is no deadlock, and a server
\* that goes on opening channels starves nobody.
Left(k) == Len(delivered[k]) < opened[k]
Stuck(k) ==
    /\ queue[k] = <<>>
    /\ hand # <<>> /\ Head(hand).kind # k
    /\ Len(queue[Head(hand).kind]) = Capacity
CallerServed ==
    \A p \in Callers :
        []<>~Stuck(want[p]) =>
            (cpc[p] # "idle" /\ Left(want[p]) ~>
                \/ cpc[p] = "idle" \/ ~Left(want[p])
                \/ ~running /\ queue[want[p]] = <<>>)
=============================================================================
