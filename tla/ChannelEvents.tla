--------------------------- MODULE ChannelEvents ----------------------------
(***************************************************************************)
(* Events of SSH channels (core/channel.rs, terminal/): russh's session    *)
(* loop puts what the server sends into the bounded inbox of its channel,  *)
(* next_event() and next_event_with_context() take it out.  They need the  *)
(* channel alone (&mut self), requests only share it (&self), and nobody   *)
(* waits for the answer of a request: it comes as an event.                *)
(*                                                                         *)
(* The loop, the inboxes and the server are external.  A message is its    *)
(* kind and its number, which stands for what it carries.                  *)
(***************************************************************************)
EXTENDS Naturals, Sequences, SequencesExt

CONSTANTS Channels,
          Inbox,        \* messages an inbox holds
          Kinds,        \* kinds of messages the server sends unasked
          MaxMessages,  \* bound: messages of the server, per channel
          MaxRequests   \* bound: requests that want a reply, per channel

ASSUME EventsAssumption == /\ Inbox \in Nat \ {0}
                           /\ MaxMessages \in Nat
                           /\ MaxRequests \in Nat

Replies == {"Success", "Failure"}
Reported == {"Data", "ExtendedData", "Eof", "Close", "ExitStatus", "ExitSignal",
             "OpenFailure"} \cup Replies

ASSUME KindsAssumption == Kinds \cap (Replies \cup {"Close", "OpenFailure"}) = {}

VARIABLES alive,    \* the session loop runs
          wire,     \* messages the loop has not read, of all channels
          sent,     \* sent[c]: history, all messages of the server
          asked,    \* asked[c]: requests made that want a reply
          replied,  \* replied[c]: those the server has answered
          inbox,    \* inbox[c]: messages delivered and not taken
          ended,    \* ended[c]: the sender of the inbox is gone
          reader,   \* reader[c]: "idle", or how its owner waits
          stop,     \* stop[c]: deadline passed or token set
          last,     \* last[c]: what the last call returned
          events    \* events[c]: history, all events returned

loopVars == <<alive, wire, inbox, ended>>
serverVars == <<sent, replied>>
readVars == <<reader, stop, last, events>>
vars == <<loopVars, serverVars, asked, readVars>>

Message == [kind : Kinds \cup Replies \cup {"Close"}, n : Nat]
Event == [kind : Reported, n : Nat]

TypeOK == /\ alive \in BOOLEAN
          /\ wire \in Seq([to : Channels, what : Message])
          /\ sent \in [Channels -> Seq(Message)]
          /\ asked \in [Channels -> Nat] /\ replied \in [Channels -> Nat]
          /\ inbox \in [Channels -> Seq(Message)]
          /\ ended \in [Channels -> BOOLEAN]
          /\ reader \in [Channels -> {"idle", "default", "context"}]
          /\ stop \in [Channels -> BOOLEAN]
          /\ last \in [Channels -> {"none", "event", "end", "stopped", "nothing"}]
          /\ events \in [Channels -> Seq(Event)]

Init == /\ alive = TRUE /\ wire = <<>>
        /\ sent = [c \in Channels |-> <<>>]
        /\ asked = [c \in Channels |-> 0] /\ replied = [c \in Channels |-> 0]
        /\ inbox = [c \in Channels |-> <<>>]
        /\ ended = [c \in Channels |-> FALSE]
        /\ reader = [c \in Channels |-> "idle"]
        /\ stop = [c \in Channels |-> FALSE]
        /\ last = [c \in Channels |-> "none"]
        /\ events = [c \in Channels |-> <<>>]

-----------------------------------------------------------------------------
(* The server and the loop.                                                *)

Closed(c) == \E i \in DOMAIN sent[c] : sent[c][i].kind = "Close"

Send(c, kind) ==
    LET m == [kind |-> kind, n |-> Len(sent[c]) + 1] IN
    /\ alive /\ ~Closed(c) /\ Len(sent[c]) < MaxMessages
    /\ sent' = [sent EXCEPT ![c] = Append(@, m)]
    /\ wire' = Append(wire, [to |-> c, what |-> m])

ServerSends(c) ==
    /\ \E kind \in Kinds \cup {"Close"} : Send(c, kind)
    /\ UNCHANGED <<alive, inbox, ended, asked, replied, readVars>>

ServerReplies(c) ==
    /\ replied[c] < asked[c]
    /\ \E kind \in Replies : Send(c, kind)
    /\ replied' = [replied EXCEPT ![c] = @ + 1]
    /\ UNCHANGED <<alive, inbox, ended, asked, readVars>>

\* One loop for all channels: a full inbox holds up everything behind it.
\* After a close the loop forgets the channel.
Deliver ==
    LET c == Head(wire).to IN
    /\ alive /\ wire # <<>> /\ Len(inbox[c]) < Inbox
    /\ wire' = Tail(wire)
    /\ inbox' = [inbox EXCEPT ![c] = Append(@, Head(wire).what)]
    /\ ended' = [ended EXCEPT ![c] = Head(wire).what.kind = "Close"]
    /\ UNCHANGED <<alive, serverVars, asked, readVars>>

SessionEnds ==
    /\ alive
    /\ alive' = FALSE
    /\ wire' = <<>>
    /\ ended' = [c \in Channels |-> TRUE]
    /\ UNCHANGED <<inbox, serverVars, asked, readVars>>

-----------------------------------------------------------------------------
(* The owner of a channel.                                                 *)

\* request_pty(), request_shell(), exec() and request_subsystem() with
\* want_reply: they return when the request is sent.
Request(c) ==
    /\ alive /\ ~ended[c] /\ reader[c] = "idle" /\ asked[c] < MaxRequests
    /\ asked' = [asked EXCEPT ![c] = @ + 1]
    /\ UNCHANGED <<loopVars, serverVars, readVars>>

Begin(c, how) ==
    /\ reader[c] = "idle"
    /\ reader' = [reader EXCEPT ![c] = how]
    /\ stop' = [stop EXCEPT ![c] = FALSE]
    /\ last' = [last EXCEPT ![c] = "none"]
    /\ UNCHANGED <<loopVars, serverVars, asked, events>>

NextEvent(c) == Begin(c, "default")
NextEventWithContext(c) == Begin(c, "context")

\* No with_timeout_from_now(): only the end of the session ends the wait.
ExpiresWithSession(c) ==
    /\ reader[c] = "default" /\ ~stop[c] /\ ~alive
    /\ stop' = [stop EXCEPT ![c] = TRUE]
    /\ UNCHANGED <<loopVars, serverVars, asked, reader, last, events>>

\* operation_timeout has passed since the call.
Expires(c) ==
    /\ reader[c] = "default" /\ ~stop[c]
    /\ stop' = [stop EXCEPT ![c] = TRUE]
    /\ UNCHANGED <<loopVars, serverVars, asked, reader, last, events>>

\* The context the caller gave ends, if it ever does.
Stops(c) ==
    /\ reader[c] = "context" /\ ~stop[c]
    /\ stop' = [stop EXCEPT ![c] = TRUE]
    /\ UNCHANGED <<loopVars, serverVars, asked, reader, last, events>>

\* next_event() makes None of whatever is not an event: ok().flatten().
Return(c, result) ==
    /\ reader' = [reader EXCEPT ![c] = "idle"]
    /\ last' = [last EXCEPT ![c] =
                  IF reader[c] = "default" /\ result # "event"
                    THEN "nothing" ELSE result]
    /\ UNCHANGED <<alive, wire, ended, serverVars, asked, stop>>

\* channel_event(), and TerminalEvent::from() which keeps the kind.
ChannelEvent(m) ==
    [m EXCEPT !.kind = IF @ \in Reported THEN @ ELSE "Failure"]

Take(c) ==
    /\ reader[c] # "idle" /\ inbox[c] # <<>>
    /\ inbox' = [inbox EXCEPT ![c] = Tail(@)]
    /\ events' = [events EXCEPT ![c] = Append(@, ChannelEvent(Head(inbox[c])))]
    /\ Return(c, "event")

\* An inbox that is empty at the moment is taken for the end (try_recv).
EndWhenEmpty(c) ==
    /\ reader[c] # "idle" /\ inbox[c] = <<>>
    /\ Return(c, "end")
    /\ UNCHANGED <<inbox, events>>

\* wait() returns None once the inbox is empty and its sender gone.
End(c) ==
    /\ reader[c] # "idle" /\ inbox[c] = <<>> /\ ended[c]
    /\ Return(c, "end")
    /\ UNCHANGED <<inbox, events>>

\* The wait runs in a task: its message is lost when the caller gives up.
StoppedTaking(c) ==
    /\ reader[c] # "idle" /\ stop[c]
    /\ inbox' = [inbox EXCEPT ![c] = IF @ = <<>> THEN @ ELSE Tail(@)]
    /\ Return(c, "stopped")
    /\ UNCHANGED events

\* context.run() drops wait(), which then has taken nothing.
Stopped(c) ==
    /\ reader[c] # "idle" /\ stop[c]
    /\ Return(c, "stopped")
    /\ UNCHANGED <<inbox, events>>

-----------------------------------------------------------------------------
ReaderStep(c) == Take(c) \/ End(c) \/ Stopped(c)

Next == \/ \E c \in Channels :
             \/ ServerSends(c) \/ ServerReplies(c) \/ Request(c)
             \/ NextEvent(c) \/ NextEventWithContext(c)
             \/ Expires(c) \/ Stops(c) \/ ReaderStep(c)
        \/ Deliver \/ SessionEnds

\* Tasks run and timers fire; nobody has to call or to send.
Fairness == /\ WF_vars(Deliver)
            /\ \A c \in Channels : /\ WF_vars(ReaderStep(c))
                                   /\ WF_vars(Expires(c))

SafetySpec == Init /\ [][Next]_vars

Spec == SafetySpec /\ Fairness

-----------------------------------------------------------------------------
(* Properties *)

Mapped(s) == [i \in DOMAIN s |-> ChannelEvent(s[i])]

\* What the loop has delivered to a channel, and that exactly the rest of its
\* messages is on the wire, in order.
Delivered(c) == Len(events[c]) + Len(inbox[c])
For(c) == {i \in DOMAIN wire : wire[i].to = c}
Travelling(c) ==
    /\ \A n \in Delivered(c) + 1..Len(sent[c]) :
           \E i \in For(c) : wire[i].what.n = n
    /\ \A i \in For(c) : /\ wire[i].what.n \in Delivered(c) + 1..Len(sent[c])
                         /\ wire[i].what = sent[c][wire[i].what.n]
    /\ \A i, j \in For(c) : i < j => wire[i].what.n < wire[j].what.n

\* Events are the server's messages, each once and in order: a call that
\* times out or is cancelled, and a None of next_event(), lose nothing.
EventsComplete ==
    \A c \in Channels :
        /\ IsPrefix(events[c] \o Mapped(inbox[c]), Mapped(sent[c]))
        /\ alive => Travelling(c)

\* Ok(None) of next_event_with_context() tells a normal end from a timeout
\* or a cancellation (README): no event can follow it.
EndIsLast ==
    \A c \in Channels :
        last[c] = "end" => ended[c] /\ inbox[c] = <<>> /\ reader[c] = "idle"

\* The inductive invariant: a close is the last message of its channel, and
\* an inbox loses its sender when that message is in it or the session ends.
Settled(c) ==
    /\ Len(inbox[c]) <= Inbox
    /\ replied[c] <= asked[c]
    /\ \A i \in DOMAIN sent[c] : sent[c][i].kind = "Close" => i = Len(sent[c])
    /\ ended[c] => ~alive \/ (Closed(c) /\ For(c) = {})
    /\ alive /\ Closed(c) /\ For(c) = {} => ended[c]
EventsInv == /\ TypeOK
             /\ \A c \in Channels : Settled(c)
             /\ ~alive => wire = <<>> /\ \A c \in Channels : ended[c]
             /\ EventsComplete
             /\ EndIsLast

\* next_event() returns within operation_timeout, also when the loop is held
\* up by another channel that nobody reads.
NextEventReturns ==
    \A c \in Channels : reader[c] = "default" ~> reader[c] = "idle"
=============================================================================
