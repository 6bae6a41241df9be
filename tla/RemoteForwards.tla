--------------------------- MODULE RemoteForwards ---------------------------
(***************************************************************************)
(* Remote forwards of an SshSession (core/channel.rs, core/session.rs):    *)
(* what the client believes, its handles, against what the server does,    *)
(* its listeners.  Requests and cancellations take &mut self, so one call  *)
(* at a time waits; a call that its context stops leaves a request behind  *)
(* that the server still carries out.                                      *)
(*                                                                         *)
(* The server handles requests in order and russh gives every answer to    *)
(* the request it belongs to; both are external.                           *)
(***************************************************************************)
EXTENDS Naturals, Sequences

CONSTANTS Addresses,  \* addresses of tcpip forwards
          Paths,      \* socket paths of streamlocal forwards
          BadPaths,   \* the empty path and those with a NUL
          MaxPort,    \* u16::MAX
          MaxCalls    \* bound: calls of the session's owner

ASSUME RemoteAssumption == /\ MaxPort \in Nat \ {0}
                           /\ MaxCalls \in Nat
                           /\ BadPaths \subseteq Paths

Tcpip == [kind : {"tcpip"}, at : Addresses, port : 0..MaxPort]
Streamlocal == [kind : {"streamlocal"}, at : Paths, port : {0}]
Forwards == Tcpip \cup Streamlocal

VARIABLES alive,      \* the session is connected
          call,       \* the call that waits, Idle for none
          sent,       \* requests the server has not seen
          answers,    \* answers the client has not seen
          listeners,  \* the server's listeners
          handles,    \* what the client was given
          result,     \* result[i]: how call i ended
          closed      \* history: calls whose listener was cancelled

vars == <<alive, call, sent, answers, listeners, handles, result, closed>>

Calls == 1..MaxCalls
Idle == [op |-> "idle", id |-> 0]
Asked == [op : {"request", "cancel"}, id : Calls, fwd : Forwards]
Bound == [id : Calls, fwd : Forwards]   \* a forward and the call that made it
Results == {"none", "pending", "handle", "ok", "denied", "stopped", "protocol",
            "disconnected"}

TypeOK == /\ alive \in BOOLEAN
          /\ call \in Asked \cup {Idle}
          /\ sent \in Seq(Asked)
          /\ answers \in Seq([id : Calls, granted : BOOLEAN, port : Nat])
          /\ listeners \subseteq Bound
          /\ handles \subseteq Bound
          /\ result \in [Calls -> Results]
          /\ closed \subseteq Calls

Init == /\ alive = TRUE
        /\ call = Idle
        /\ sent = <<>> /\ answers = <<>>
        /\ listeners = {} /\ handles = {}
        /\ result = [i \in Calls |-> "none"]
        /\ closed = {}

-----------------------------------------------------------------------------
(* What the client makes of the port in an answer; 0 stands for none.      *)

\* "as u16" instead of u16::try_from.
EffectivePortTruncated(f, returned) ==
    IF returned = 0 THEN f.port ELSE returned % (MaxPort + 1)

EffectivePort(f, returned) == IF returned = 0 THEN f.port ELSE returned

Accepted(f, returned) ==
    f.kind = "tcpip" => EffectivePort(f, returned) \in 1..MaxPort

-----------------------------------------------------------------------------
(* The session's owner.                                                    *)

Begin(op, i, f) ==
    /\ alive /\ call = Idle /\ result[i] = "none"
    /\ \A j \in Calls : j < i => result[j] # "none"
    /\ call' = [op |-> op, id |-> i, fwd |-> f]
    /\ sent' = Append(sent, call')
    /\ result' = [result EXCEPT ![i] = "pending"]
    /\ UNCHANGED <<alive, answers, listeners, handles, closed>>

\* The request leaves and nobody waits for its answer.
CancelSendsOnly(i, h) ==
    /\ alive /\ call = Idle /\ result[i] = "none"
    /\ \A j \in Calls : j < i => result[j] # "none"
    /\ sent' = Append(sent, [op |-> "cancel", id |-> i, fwd |-> h.fwd])
    /\ result' = [result EXCEPT ![i] = "ok"]
    /\ UNCHANGED <<alive, call, answers, listeners, handles, closed>>

\* request_remote_tcpip_forward_with_context() and its streamlocal twin,
\* which does not send a path it finds invalid.
Request(i, f) == f.at \notin BadPaths /\ Begin("request", i, f)

\* cancel_remote_*_forward_with_context() with any handle, used or not.
Cancel(i, h) == h \in handles /\ Begin("cancel", i, h.fwd)

Ends(outcome) == /\ call' = Idle
                 /\ result' = [result EXCEPT ![call.id] = outcome]

\* The loop reads an answer; the caller it belongs to may have given up.
Answered ==
    LET a == Head(answers)
        f == call.fwd
    IN /\ answers # <<>>
       /\ answers' = Tail(answers)
       /\ IF call.id # a.id THEN UNCHANGED <<call, result, handles>>
          ELSE IF ~a.granted THEN Ends("denied") /\ UNCHANGED handles
          ELSE IF call.op = "cancel" THEN Ends("ok") /\ UNCHANGED handles
          ELSE IF ~Accepted(f, a.port) THEN Ends("protocol") /\ UNCHANGED handles
          ELSE /\ Ends("handle")
               /\ handles' = handles \cup
                    {[id |-> a.id,
                      fwd |-> [f EXCEPT !.port = EffectivePort(f, a.port)]]}
       /\ UNCHANGED <<alive, sent, listeners, closed>>

\* A call that its context stops is taken for denied.
StoppedAsDenied ==
    /\ call # Idle
    /\ Ends("denied")
    /\ UNCHANGED <<alive, sent, answers, listeners, handles, closed>>

\* context.run(): the deadline passes or the token is set.
Stopped ==
    /\ call # Idle
    /\ Ends("stopped")
    /\ UNCHANGED <<alive, sent, answers, listeners, handles, closed>>

\* The session is gone, and with it whoever would answer.
Disconnected ==
    /\ call # Idle /\ ~alive /\ answers = <<>>
    /\ Ends("disconnected")
    /\ UNCHANGED <<alive, sent, answers, listeners, handles, closed>>

-----------------------------------------------------------------------------
(* The server, external.  Some do not report the port they chose, or one   *)
(* that is no port: the client checks for both.                            *)

Chosen(f) == IF f.kind = "tcpip" /\ f.port = 0 THEN 1..MaxPort ELSE {f.port}
Reported(f, port) == IF f.kind = "streamlocal" THEN {0}
                     ELSE IF f.port = 0 THEN {0, port, MaxPort + 1, MaxPort + 2}
                     ELSE {0, port}

Answer(granted, port) ==
    /\ sent' = Tail(sent)
    /\ answers' = Append(answers, [id |-> Head(sent).id, granted |-> granted,
                                   port |-> port])
    /\ UNCHANGED <<alive, call, handles, result>>

Listens ==
    /\ alive /\ sent # <<>> /\ Head(sent).op = "request"
    /\ LET f == Head(sent).fwd IN
       \E port \in Chosen(f) :
           LET l == [f EXCEPT !.port = port] IN
           /\ \A other \in listeners : other.fwd # l
           /\ listeners' = listeners \cup {[id |-> Head(sent).id, fwd |-> l]}
           /\ \E reported \in Reported(f, port) : Answer(TRUE, reported)
    /\ UNCHANGED closed

Cancels ==
    /\ alive /\ sent # <<>> /\ Head(sent).op = "cancel"
    /\ LET these == {l \in listeners : l.fwd = Head(sent).fwd} IN
       /\ these # {}
       /\ listeners' = listeners \ these
       /\ closed' = closed \cup {l.id : l \in these}
    /\ Answer(TRUE, 0)

Denies ==
    /\ alive /\ sent # <<>>
    /\ Answer(FALSE, 0)
    /\ UNCHANGED <<listeners, closed>>

\* The transport breaks; the server closes what the session had opened.
SessionEnds ==
    /\ alive
    /\ alive' = FALSE
    /\ listeners' = {}
    /\ UNCHANGED <<call, sent, answers, handles, result, closed>>

-----------------------------------------------------------------------------
Next == \/ \E i \in Calls : \/ \E f \in Forwards : Request(i, f)
                            \/ \E h \in handles : Cancel(i, h)
        \/ Answered \/ Stopped \/ Disconnected
        \/ Listens \/ Cancels \/ Denies \/ SessionEnds

Spec == Init /\ [][Next]_vars

-----------------------------------------------------------------------------
(* Properties *)

\* A handle names the listener its own request made, address and port,
\* until the session ends or somebody cancels that listener: answers that
\* come late, that leave the port out or that report an impossible one
\* never produce a handle for something else.
HandlesReal ==
    alive => \A h \in handles : h \in listeners \/ h.id \in closed

\* The result of a request tells whether a listener may be left behind:
\* none after a denial, the one of the handle after success, perhaps one
\* after a stop or a protocol error (request_remote_tcpip_forward drops the
\* answer without cancelling).
OrphansExplained ==
    \A l \in listeners :
        \/ result[l.id] \in {"pending", "stopped", "protocol"}
        \/ result[l.id] = "handle" /\ l \in handles

\* A cancellation that returns Ok has closed the listener it names, and no
\* request of an earlier call can bring it back.
CancelsEffective ==
    [][\A i \in Calls :
         result[i] # "ok" /\ result'[i] = "ok" =>
             /\ sent' = <<>>
             /\ \A l \in listeners' : l.fwd # call.fwd]_vars

\* The inductive invariant: requests and answers in flight are in the order
\* of the calls, the call that waits is the last of them, an answer agrees
\* with what the server did, and a request not yet seen made no listener.
InFlight == {answers[n].id : n \in DOMAIN answers}
              \cup {sent[n].id : n \in DOMAIN sent}
Made(i) == {l \in listeners : l.id = i}

Ordered ==
    /\ \A m, n \in DOMAIN answers : m < n => answers[m].id < answers[n].id
    /\ \A m, n \in DOMAIN sent : m < n => sent[m].id < sent[n].id
    /\ \A m \in DOMAIN answers, n \in DOMAIN sent : answers[m].id < sent[n].id
    /\ \A i \in InFlight : result[i] # "none" /\ (call # Idle => i <= call.id)

Numbered ==
    /\ \A i, j \in Calls : i < j /\ result[j] # "none" => result[i] # "none"
    /\ \A i \in Calls : result[i] = "pending" <=> call # Idle /\ call.id = i

Unseen ==
    \A n \in DOMAIN sent : /\ Made(sent[n].id) = {} /\ sent[n].id \notin closed
                           /\ sent[n].id = call.id => sent[n] = call
                           /\ alive => result[sent[n].id] \in {"pending", "stopped"}

Agrees(a) ==
    /\ ~a.granted => Made(a.id) = {}
    /\ a.id = call.id /\ call.fwd.kind = "streamlocal" => a.port = 0
    /\ a.granted /\ alive /\ a.id = call.id =>
         IF call.op = "cancel"
           THEN \A l \in listeners : l.fwd # call.fwd
           ELSE \/ a.id \in closed
                \/ \E l \in Made(a.id) :
                       Accepted(call.fwd, a.port) =>
                         l.fwd = [call.fwd EXCEPT !.port =
                                      EffectivePort(call.fwd, a.port)]

Listening ==
    /\ ~alive => listeners = {}
    /\ call.op = "cancel" => Made(call.id) = {}
    /\ \A l, m \in listeners : l.id = m.id \/ l.fwd = m.fwd => l = m
    /\ \A l \in listeners : result[l.id] # "none" /\ l.id \notin closed
    /\ \A i \in closed : result[i] # "none"

RemoteInv ==
    /\ TypeOK
    /\ Ordered /\ Numbered /\ Unseen /\ Listening
    /\ \A n \in DOMAIN answers : Agrees(answers[n])
    /\ HandlesReal
    /\ OrphansExplained
=============================================================================
