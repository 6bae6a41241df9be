------------------------- MODULE SessionOperations -------------------------
(***************************************************************************)
(* How deadlines and cancellation reach the operations of a session:       *)
(* OperationContext of core/operation.rs, the phases of connect in         *)
(* core/session.rs, the ways of opening a channel and the operations on it *)
(* in core/channel.rs, the set-up of terminal/session.rs and               *)
(* sftp/client.rs.                                                         *)
(*                                                                         *)
(* Every operation of the library is one OperationContext::run around a    *)
(* request to the server, and all that distinguishes them here is the      *)
(* context they run under.  The server is external: it answers or fails    *)
(* when it likes, or never.  Time is a counter; a timer that is due may    *)
(* fire late, as a busy runtime's does.  A token is its flag.              *)
(***************************************************************************)
EXTENDS Naturals

CONSTANTS Channels,
          Tokens,           \* cancellation tokens of the callers
          Timeouts,         \* SshConfig: connect, authentication, operation
          CallerDeadlines,  \* deadlines a caller puts in a context
          MaxTime           \* bound: the clock stops here

\* SshConfig::validate refuses zero timeouts.
ASSUME OperationsAssumption ==
    /\ Timeouts \in [connect : Nat \ {0}, authentication : Nat \ {0},
                     operation : Nat \ {0}]
    /\ CallerDeadlines \subseteq Nat
    /\ MaxTime \in Nat

VARIABLES now,        \* Instant::now()
          cancelled,  \* the tokens that were cancelled
          phase,      \* where the session is in connect_with_context
          base,       \* SshSession.operation_context
          limit,      \* the deadline of connect's current phase
          asked,      \* history, the deadline the caller gave connect
          state,      \* state[c]: where channel c is
          kind,       \* kind[c]: how c came to be
          ctx,        \* ctx[c]: SshChannel.context
          op,         \* op[c]: the context of the operation in progress on c
          setup,      \* setup[c]: setup_context of a terminal or SFTP open
          result,     \* result[c]: how the last operation on c ended
          own,        \* own[c]: history, the deadline the caller gave c
          promised    \* promised[c]: history, when its operation may expire

sessionVars == <<phase, base, limit, asked>>
channelVars == <<state, kind, ctx, op, setup, result, own, promised>>
vars == <<now, cancelled, sessionVars, channelVars>>

\* No deadline: an instant the clock does not reach.
Never == MaxTime + Timeouts.connect + Timeouts.authentication
                 + Timeouts.operation + 1

Deadlines == CallerDeadlines \cup {Never}
Contexts == [deadline : Nat, token : Tokens]

Kinds == {"none", "session", "terminal", "sftp", "direct", "forwarded"}
\* A terminal asks for a PTY and then a shell, SFTP for the subsystem and
\* then its version exchange: two requests after the channel is open.
States == {"none", "opening", "setup1", "setup2", "open", "busy", "failed"}
InProgress == {"opening", "setup1", "setup2", "busy"}

TypeOK ==
    /\ now \in 0..MaxTime
    /\ cancelled \subseteq Tokens
    /\ phase \in {"idle", "jump", "handshake", "authenticating", "ready", "failed"}
    /\ base \in Contexts
    /\ limit \in Nat
    /\ asked \in Nat
    /\ state \in [Channels -> States]
    /\ kind \in [Channels -> Kinds]
    /\ ctx \in [Channels -> Contexts]
    /\ op \in [Channels -> Contexts]
    /\ setup \in [Channels -> Nat]
    /\ result \in [Channels -> {"none", "ok", "error", "timeout", "cancelled"}]
    /\ own \in [Channels -> Nat]
    /\ promised \in [Channels -> Nat]

Init ==
    /\ now = 0
    /\ cancelled = {}
    /\ phase = "idle"
    /\ base \in [deadline : {Never}, token : Tokens]
    /\ limit = Never
    /\ asked = Never
    /\ state = [c \in Channels |-> "none"]
    /\ kind = [c \in Channels |-> "none"]
    /\ ctx = [c \in Channels |-> base]
    /\ op = [c \in Channels |-> base]
    /\ setup = [c \in Channels |-> Never]
    /\ result = [c \in Channels |-> "none"]
    /\ own = [c \in Channels |-> Never]
    /\ promised = [c \in Channels |-> Never]

Earlier(a, b) == IF a <= b THEN a ELSE b

-----------------------------------------------------------------------------
(* Mutated forms of the operations, each a plausible slip in this code.    *)

\* "Add a timeout without extending an earlier deadline", extending it.
ReplaceDeadline(context, timeout) ==
    [context EXCEPT !.deadline = now + timeout]

\* connect keeps authentication_context instead of the caller's context.
AuthenticatedKeepsDeadline ==
    /\ phase = "authenticating"
    /\ phase' = "ready"
    /\ base' = [base EXCEPT !.deadline = limit]
    /\ limit' = Never
    /\ UNCHANGED <<now, cancelled, asked, channelVars>>

\* EnterPhase with the caller's context as it is.
EnterPhaseWithoutTimeout(next, context, timeout) ==
    IF context.token \in cancelled
      THEN phase' = "failed" /\ limit' = Never
      ELSE phase' = next /\ limit' = context.deadline

\* The default methods use the context of the channel as it is.
DefaultWithoutTimeout(context) == context

-----------------------------------------------------------------------------
(* OperationContext *)

WithTimeoutFromNow(context, timeout) ==
    [context EXCEPT !.deadline = Earlier(@, now + timeout)]

\* The default of every method without a context of its own.
Default(context) == WithTimeoutFromNow(context, Timeouts.operation)

Tick == /\ now < MaxTime
        /\ now' = now + 1
        /\ UNCHANGED <<cancelled, sessionVars, channelVars>>

Cancel(k) == /\ k \notin cancelled
             /\ cancelled' = cancelled \cup {k}
             /\ UNCHANGED <<now, sessionVars, channelVars>>

-----------------------------------------------------------------------------
(* SshSession::connect_with_context *)

\* OperationContext::run refuses a cancelled token before it starts.
EnterPhase(next, context, timeout) ==
    IF context.token \in cancelled
      THEN phase' = "failed" /\ limit' = Never
      ELSE /\ phase' = next
           /\ limit' = WithTimeoutFromNow(context, timeout).deadline

Connect(context) ==
    /\ phase = "idle"
    /\ base' = context
    /\ asked' = context.deadline
    /\ EnterPhase("handshake", context, Timeouts.connect)
    /\ UNCHANGED <<now, cancelled, channelVars>>

\* connect_via_jump_with_context: first a direct-tcpip channel through the
\* jump session, then the handshake over it, within one connect_timeout.
ConnectViaJump(context) ==
    /\ phase = "idle"
    /\ base' = context
    /\ asked' = context.deadline
    /\ EnterPhase("jump", context, Timeouts.connect)
    /\ UNCHANGED <<now, cancelled, channelVars>>

JumpOpened ==
    /\ phase = "jump"
    /\ IF base.token \in cancelled
          THEN phase' = "failed" /\ limit' = Never
          ELSE phase' = "handshake" /\ UNCHANGED limit
    /\ UNCHANGED <<now, cancelled, base, asked, channelVars>>

\* The handshake is done: authentication gets a timeout of its own.
Handshaken ==
    /\ phase = "handshake"
    /\ EnterPhase("authenticating", base, Timeouts.authentication)
    /\ UNCHANGED <<now, cancelled, base, asked, channelVars>>

\* The session keeps the caller's context.
Authenticated ==
    /\ phase = "authenticating"
    /\ phase' = "ready"
    /\ limit' = Never
    /\ UNCHANGED <<now, cancelled, base, asked, channelVars>>

ConnectEnds ==
    /\ phase \in {"jump", "handshake", "authenticating"}
    /\ phase' = "failed"
    /\ limit' = Never
    /\ UNCHANGED <<now, cancelled, base, asked, channelVars>>

ConnectRefused == ConnectEnds
ConnectTimedOut == now >= limit /\ ConnectEnds
ConnectCancelled == base.token \in cancelled /\ ConnectEnds

-----------------------------------------------------------------------------
(* Opening a channel, and one operation at a time on it.                   *)

\* One OperationContext::run: refused at once, or a request to the server.
Begin(c, next, refused, context) ==
    IF context.token \in cancelled
      THEN /\ state' = [state EXCEPT ![c] = refused]
           /\ result' = [result EXCEPT ![c] = "cancelled"]
           /\ UNCHANGED op
      ELSE /\ state' = [state EXCEPT ![c] = next]
           /\ result' = [result EXCEPT ![c] = "none"]
           /\ op' = [op EXCEPT ![c] = context]

\* Channel c will carry context; its open runs under first.  The caller gave
\* it the deadline given, and the open may expire at promise.
Open(c, k, context, first, given, promise) ==
    /\ phase = "ready"
    /\ state[c] = "none"
    /\ kind' = [kind EXCEPT ![c] = k]
    /\ ctx' = [ctx EXCEPT ![c] = context]
    /\ setup' = [setup EXCEPT ![c] = Default(context).deadline]
    /\ own' = [own EXCEPT ![c] = given]
    /\ promised' = [promised EXCEPT ![c] = promise]
    /\ Begin(c, "opening", "failed", first)
    /\ UNCHANGED <<now, cancelled, sessionVars>>

\* History: what a default method promises to who gave it a deadline.
Promise(given) == Earlier(given, now + Timeouts.operation)

\* With the session's context or the caller's.
OpenSession(c, context, given) ==
    Open(c, "session", context, Default(context), given, Promise(given))

\* TerminalSession::open and SftpClient::connect start with the same open.
OpenTerminal(c, context, given) ==
    Open(c, "terminal", context, Default(context), given, Promise(given))

ConnectSftp(c, context, given) ==
    Open(c, "sftp", context, Default(context), given, Promise(given))

\* open_direct_tcpip and open_direct_streamlocal: the context made for the
\* open, deadline included, becomes the channel's.
OpenDirect(c) ==
    Open(c, "direct", Default(base), Default(base), asked, Promise(asked))

OpenDirectWithContext(c, context) ==
    Open(c, "direct", context, context, context.deadline, context.deadline)

\* next_forwarded_tcpip and next_forwarded_streamlocal hand over a channel
\* the server opened.
NextForwarded(c) ==
    /\ phase = "ready"
    /\ state[c] = "none"
    /\ state' = [state EXCEPT ![c] = "open"]
    /\ kind' = [kind EXCEPT ![c] = "forwarded"]
    /\ ctx' = [ctx EXCEPT ![c] = base]
    /\ own' = [own EXCEPT ![c] = asked]
    /\ UNCHANGED <<now, cancelled, sessionVars, op, setup, result, promised>>

\* SshChannel::with_context, and the same on terminals, SFTP and streams.
WithContext(c, context) ==
    /\ state[c] = "open"
    /\ ctx' = [ctx EXCEPT ![c] = context]
    /\ own' = [own EXCEPT ![c] = context.deadline]
    /\ UNCHANGED <<now, cancelled, sessionVars, state, kind, op, setup, result,
                   promised>>

StartDefault(c) ==
    /\ state[c] = "open"
    /\ promised' = [promised EXCEPT ![c] = Promise(own[c])]
    /\ Begin(c, "busy", "open", Default(ctx[c]))
    /\ UNCHANGED <<now, cancelled, sessionVars, kind, ctx, setup, own>>

\* write, eof, close, window_change, next_event, ... of a channel, terminal
\* or stream.
Start(c) == kind[c] # "sftp" /\ StartDefault(c)

\* SftpClient::run, which every SFTP call goes through.
SftpRun(c) == kind[c] = "sftp" /\ StartDefault(c)

\* The channel's methods with a context for this one operation; they add no
\* timeout.  SFTP calls have no such form.
StartWithContext(c, context) ==
    /\ state[c] = "open"
    /\ kind[c] # "sftp"
    /\ promised' = [promised EXCEPT ![c] = context.deadline]
    /\ Begin(c, "busy", "open", context)
    /\ UNCHANGED <<now, cancelled, sessionVars, kind, ctx, setup, own>>

\* The server answers.  A terminal and SFTP go on with their next request,
\* under the setup context that was made before the channel was opened.
Answered(c) ==
    LET next == IF state[c] = "opening" THEN "setup1"
                ELSE IF state[c] = "setup1" THEN "setup2" ELSE "open"
        setupContext == [ctx[c] EXCEPT !.deadline = setup[c]] IN
    /\ state[c] \in InProgress
    /\ IF kind[c] \in {"terminal", "sftp"} /\ next # "open"
          THEN Begin(c, next, "failed", setupContext)
          ELSE /\ state' = [state EXCEPT ![c] = "open"]
               /\ result' = [result EXCEPT ![c] = "ok"]
               /\ UNCHANGED op
    /\ UNCHANGED <<now, cancelled, sessionVars, kind, ctx, setup, own, promised>>

\* A channel that did not open is gone; one that was open stays.
End(c, res) ==
    /\ state[c] \in InProgress
    /\ state' = [state EXCEPT ![c] = IF @ = "busy" THEN "open" ELSE "failed"]
    /\ result' = [result EXCEPT ![c] = res]
    /\ UNCHANGED <<now, cancelled, sessionVars, kind, ctx, op, setup, own,
                   promised>>

Failed(c) == End(c, "error")
TimedOut(c) == now >= op[c].deadline /\ End(c, "timeout")
Cancelled(c) == op[c].token \in cancelled /\ End(c, "cancelled")

-----------------------------------------------------------------------------
\* What a caller may put in a context.
Given == [deadline : Deadlines, token : Tokens]

ConnectStep == \/ \E context \in Given :
                     Connect(context) \/ ConnectViaJump(context)
               \/ JumpOpened \/ Handshaken \/ Authenticated
               \/ ConnectRefused \/ ConnectTimedOut \/ ConnectCancelled

OpenWith(c, context, given) == \/ OpenSession(c, context, given)
                               \/ OpenTerminal(c, context, given)
                               \/ ConnectSftp(c, context, given)

OpenStep(c) == \/ OpenWith(c, base, asked)
               \/ \E context \in Given : OpenWith(c, context, context.deadline)
               \/ OpenDirect(c)
               \/ \E context \in Given : OpenDirectWithContext(c, context)
               \/ NextForwarded(c)

UseStep(c) == \/ \E context \in Given : WithContext(c, context)
              \/ Start(c) \/ SftpRun(c)
              \/ \E context \in Given : StartWithContext(c, context)

EndStep(c) == Answered(c) \/ Failed(c) \/ TimedOut(c) \/ Cancelled(c)

Next == \/ Tick
        \/ \E k \in Tokens : Cancel(k)
        \/ ConnectStep
        \/ \E c \in Channels : OpenStep(c) \/ UseStep(c) \/ EndStep(c)

\* Time passes, and a task whose timer or token fired is scheduled.  Servers
\* and callers owe nothing.
Fairness == /\ WF_vars(Tick)
            /\ WF_vars(ConnectTimedOut) /\ WF_vars(ConnectCancelled)
            /\ \A c \in Channels : WF_vars(TimedOut(c)) /\ WF_vars(Cancelled(c))

SafetySpec == Init /\ [][Next]_vars

Spec == SafetySpec /\ Fairness

-----------------------------------------------------------------------------
(* Properties *)

Expires(c) == result[c] # "timeout" /\ result'[c] = "timeout"

\* operation_timeout is what an ordinary operation is given (README, section
\* on timeouts): on a session, terminal, SFTP or forwarded channel none times
\* out before that long has passed since it began, unless the caller put an
\* earlier deadline in the context of connect, of the channel or of the
\* operation.
TimeoutNotEarly ==
    [][\A c \in Channels :
          kind[c] # "direct" /\ Expires(c) => now >= promised[c]]_vars

\* The same of the channels of open_direct_tcpip and open_direct_streamlocal:
\* README says that reads, writes and flushes of their streams follow the
\* same operation timeout policy.
DirectTimeoutNotEarly ==
    [][\A c \in Channels :
          kind[c] = "direct" /\ Expires(c) => now >= promised[c]]_vars

\* "Add a timeout without extending an already earlier deadline"
\* (operation.rs): no operation, on any kind of channel, runs with a later
\* deadline than the caller's contexts and the default give it.
DeadlineNotExtended ==
    \A c \in Channels : state[c] \in InProgress => op[c].deadline <= promised[c]

\* A server that never answers does not hang an operation that has a
\* deadline, be it the default one, nor one whose token is cancelled; opening
\* a terminal or SFTP, several requests long, included.
MustEnd(c) == promised[c] <= MaxTime \/ op[c].token \in cancelled
OperationsEnd ==
    \A c \in Channels :
        state[c] \in InProgress /\ MustEnd(c) ~> state[c] \notin InProgress

\* connect_timeout bounds the handshake, together with the opening of the
\* channel to it through a jump host, and authentication_timeout bounds the
\* authentication.  (A phase that runs at some time t has its deadline
\* by t plus the timeout; later ones are beyond the clock's bound.)
ConnectBounded ==
    /\ phase \in {"jump", "handshake"} /\ now + Timeouts.connect <= MaxTime
          ~> phase \notin {"jump", "handshake"}
    /\ phase = "authenticating" /\ now + Timeouts.authentication <= MaxTime
          ~> phase # "authenticating"

\* The inductive invariant: the deadlines that an operation takes from its
\* session and its channel are the caller's, except on direct channels, where
\* they are the earlier ones of the open; the set-up of a terminal or SFTP
\* goes on under the deadline its open had.
OperationsInv ==
    /\ TypeOK
    /\ base.deadline = asked
    /\ \A c \in Channels :
          /\ kind[c] # "direct" => ctx[c].deadline = own[c]
          /\ ctx[c].deadline <= own[c]
          /\ state[c] \in InProgress =>
                /\ kind[c] # "direct" => op[c].deadline = promised[c]
                /\ op[c].deadline <= promised[c]
          /\ state[c] \in {"opening", "setup1", "setup2"} /\ kind[c] # "direct" =>
                setup[c] = promised[c]
=============================================================================
