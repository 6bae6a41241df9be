---------------------- MODULE SessionOperationsProofs ----------------------
(***************************************************************************)
(* OperationsInv is inductive; from it, that no operation runs past the    *)
(* deadline it was given and that none expires before it, for any          *)
(* channels, tokens, timeouts and deadlines.  The last part is about the   *)
(* token itself, whose flag is all that OperationContext::run sees of it.  *)
(***************************************************************************)
EXTENDS SessionOperations, CancellationToken, TLAPS

\* What the invariant says of one channel.
ChannelSound(c) ==
    /\ kind[c] # "direct" => ctx[c].deadline = own[c]
    /\ ctx[c].deadline <= own[c]
    /\ state[c] \in InProgress =>
          /\ kind[c] # "direct" => op[c].deadline = promised[c]
          /\ op[c].deadline <= promised[c]
    /\ state[c] \in {"opening", "setup1", "setup2"} /\ kind[c] # "direct" =>
          setup[c] = promised[c]

\* The instant that stands for no deadline is one.
LEMMA NeverIsTime == Never \in Nat
BY OperationsAssumption DEF Never

\* The contexts of callers are contexts.
LEMMA GivenContexts == Given \subseteq Contexts
BY NeverIsTime, OperationsAssumption DEF Given, Contexts, Deadlines

\* with_timeout_from_now: the token stays, the deadline is the earlier of the
\* two.
LEMMA DefaultContext ==
    ASSUME TypeOK, NEW context \in Contexts
    PROVE  /\ Default(context) \in Contexts
           /\ Default(context).deadline
                = Earlier(context.deadline, now + Timeouts.operation)
           /\ Default(context).token = context.token
           /\ Default(context).deadline <= context.deadline
<1>1. now \in Nat /\ Timeouts.operation \in Nat
  BY OperationsAssumption DEF TypeOK
<1>2. context.deadline \in Nat /\ now + Timeouts.operation \in Nat
  BY <1>1 DEF Contexts
<1>3. Earlier(context.deadline, now + Timeouts.operation) \in Nat
      /\ Earlier(context.deadline, now + Timeouts.operation) <= context.deadline
  BY <1>2 DEF Earlier
<1> QED BY <1>3 DEF Default, WithTimeoutFromNow, Contexts

\* Before connect no channel exists and no deadline is set.
LEMMA InitOperationsInv == Init => OperationsInv
<1> SUFFICES ASSUME Init PROVE OperationsInv
  OBVIOUS
<1>1. base \in Contexts
  BY NeverIsTime DEF Init, Contexts
<1>2. TypeOK
  BY <1>1, NeverIsTime, OperationsAssumption DEF Init, TypeOK, States, Kinds
<1>3. base.deadline = Never
  BY DEF Init
<1>4. ASSUME NEW c \in Channels PROVE ChannelSound(c)
  <2>1. ctx[c] = base /\ own[c] = Never /\ state[c] = "none"
    BY DEF Init
  <2> QED BY <1>3, <2>1, NeverIsTime DEF ChannelSound, InProgress
<1> QED BY <1>2, <1>3, <1>4 DEF Init, OperationsInv, ChannelSound

\* A step of connect, of the clock or of a token leaves the channels alone.
LEMMA SessionStepInv ==
    ASSUME OperationsInv, UNCHANGED channelVars,
           now' \in 0..MaxTime, cancelled' \subseteq Tokens,
           phase' \in {"idle", "jump", "handshake", "authenticating", "ready", "failed"},
           base' \in Contexts, limit' \in Nat, asked' \in Nat,
           base'.deadline = asked'
    PROVE  OperationsInv'
BY DEF OperationsInv, TypeOK, channelVars

\* The phases of connect: each has a deadline, the channels stay.
LEMMA ConnectStepInv ==
    ASSUME OperationsInv, ConnectStep
    PROVE  OperationsInv'
<1> USE DEF OperationsInv, TypeOK
<1>1. ASSUME NEW next \in {"jump", "handshake", "authenticating"},
             NEW context \in Contexts,
             NEW timeout \in Nat, EnterPhase(next, context, timeout)
      PROVE  /\ phase' \in {"jump", "handshake", "authenticating", "failed"}
             /\ limit' \in Nat
  <2>1. now + timeout \in Nat /\ context.deadline \in Nat
    BY DEF Contexts
  <2>2. WithTimeoutFromNow(context, timeout).deadline \in Nat
    BY <2>1 DEF WithTimeoutFromNow, Earlier, Contexts
  <2> QED BY <1>1, <2>2, NeverIsTime DEF EnterPhase
<1>2. Timeouts.connect \in Nat /\ Timeouts.authentication \in Nat
  BY OperationsAssumption
<1>3. CASE \E context \in Given : Connect(context) \/ ConnectViaJump(context)
  BY <1>1, <1>2, <1>3, GivenContexts, SessionStepInv DEF Connect, ConnectViaJump, Contexts
<1>4. CASE JumpOpened
  BY <1>4, NeverIsTime, SessionStepInv DEF JumpOpened
<1>5. CASE Handshaken
  BY <1>1, <1>2, <1>5, SessionStepInv DEF Handshaken
<1>6. CASE Authenticated
  BY <1>6, NeverIsTime, SessionStepInv DEF Authenticated
<1>7. CASE ConnectEnds
  BY <1>7, NeverIsTime, SessionStepInv DEF ConnectEnds
<1> QED
  BY <1>3, <1>4, <1>5, <1>6, <1>7 DEF ConnectStep, ConnectRefused,
     ConnectTimedOut, ConnectCancelled

-----------------------------------------------------------------------------
\* One OperationContext::run on channel c.
LEMMA BeginTypes ==
    ASSUME TypeOK, NEW c \in Channels, NEW context \in Contexts,
           NEW next \in States, NEW refused \in States,
           Begin(c, next, refused, context)
    PROVE  /\ state' \in [Channels -> States]
           /\ result' \in [Channels -> {"none", "ok", "error", "timeout", "cancelled"}]
           /\ op' \in [Channels -> Contexts]
           /\ \A b \in Channels \ {c} : state'[b] = state[b] /\ op'[b] = op[b]
           /\ state'[c] = refused \/ (state'[c] = next /\ op'[c] = context)
BY DEF TypeOK, Begin

\* Channel c alone may change: it has to stay sound.
LEMMA ChannelStepInv ==
    ASSUME OperationsInv, TypeOK', NEW c \in Channels, ChannelSound(c)',
           \A b \in Channels \ {c} :
              /\ state'[b] = state[b] /\ kind'[b] = kind[b] /\ ctx'[b] = ctx[b]
              /\ op'[b] = op[b] /\ own'[b] = own[b] /\ promised'[b] = promised[b]
              /\ setup'[b] = setup[b],
           UNCHANGED <<base, asked>>
    PROVE  OperationsInv'
<1>1. ASSUME NEW b \in Channels PROVE ChannelSound(b)'
  <2>1. CASE b = c BY <2>1
  <2>2. CASE b # c BY <2>2 DEF OperationsInv, ChannelSound
  <2> QED BY <2>1, <2>2
<1> QED BY <1>1 DEF OperationsInv, ChannelSound

\* An open: channel c takes its context, and its open runs under first.
LEMMA OpenInv ==
    ASSUME OperationsInv, NEW c \in Channels, NEW k \in Kinds,
           NEW context \in Contexts, NEW first \in Contexts,
           NEW given \in Nat, NEW promise \in Nat,
           Open(c, k, context, first, given, promise),
           context.deadline <= given, first.deadline <= promise,
           k # "direct" => /\ context.deadline = given
                           /\ first.deadline = promise
                           /\ Default(context).deadline = promise
    PROVE  OperationsInv'
<1>1. TypeOK
  BY DEF OperationsInv
<1>2. "opening" \in States /\ "failed" \in States /\ "failed" \notin InProgress
  BY DEF States, InProgress
<1>3. Begin(c, "opening", "failed", first)
  BY DEF Open
<1>4. /\ state' \in [Channels -> States]
      /\ result' \in [Channels -> {"none", "ok", "error", "timeout", "cancelled"}]
      /\ op' \in [Channels -> Contexts]
      /\ \A b \in Channels \ {c} : state'[b] = state[b] /\ op'[b] = op[b]
      /\ state'[c] = "failed" \/ (state'[c] = "opening" /\ op'[c] = first)
  BY <1>1, <1>2, <1>3, BeginTypes
<1>5. first.deadline \in Nat /\ Default(context).deadline \in Nat
  BY <1>1, DefaultContext DEF Contexts
<1>6. TypeOK'
  BY <1>1, <1>4, <1>5 DEF Open, TypeOK, sessionVars
<1>7. ChannelSound(c)'
  BY <1>1, <1>2, <1>4, <1>5 DEF Open, TypeOK, ChannelSound
<1> QED
  BY <1>1, <1>4, <1>6, <1>7, ChannelStepInv DEF Open, TypeOK, sessionVars

\* Every way of opening hands the channel a context whose deadline is not
\* later than the caller's; all but the direct ones hand over the caller's.
LEMMA OpenStepInv ==
    ASSUME OperationsInv, NEW c \in Channels, OpenStep(c)
    PROVE  OperationsInv'
<1>1. TypeOK /\ base \in Contexts /\ asked = base.deadline
  BY DEF OperationsInv, TypeOK
<1>2. {"session", "terminal", "sftp", "direct"} \subseteq Kinds
  BY DEF Kinds
<1>3. ASSUME NEW context \in Contexts
      PROVE  /\ Default(context) \in Contexts
             /\ Default(context).deadline <= context.deadline
             /\ Default(context).deadline = Promise(context.deadline)
             /\ Promise(context.deadline) \in Nat
             /\ Promise(context.deadline) <= Promise(context.deadline)
             /\ context.deadline \in Nat /\ context.deadline <= context.deadline
  BY <1>1, DefaultContext DEF Contexts, Promise
<1>4. ASSUME NEW context \in Contexts, OpenWith(c, context, context.deadline)
      PROVE  OperationsInv'
  <2>1. CASE OpenSession(c, context, context.deadline)
    BY <1>2, <1>3, <2>1, OpenInv DEF OpenSession
  <2>2. CASE OpenTerminal(c, context, context.deadline)
    BY <1>2, <1>3, <2>2, OpenInv DEF OpenTerminal
  <2>3. CASE ConnectSftp(c, context, context.deadline)
    BY <1>2, <1>3, <2>3, OpenInv DEF ConnectSftp
  <2> QED BY <1>4, <2>1, <2>2, <2>3 DEF OpenWith
<1>5. CASE OpenDirect(c)
  BY <1>1, <1>2, <1>3, <1>5, OpenInv DEF OpenDirect
<1>6. CASE \E context \in Given : OpenDirectWithContext(c, context)
  BY <1>2, <1>3, <1>6, GivenContexts, OpenInv DEF OpenDirectWithContext
<1>7. CASE NextForwarded(c)
  <2>1. TypeOK'
    BY <1>1, <1>3, <1>7 DEF NextForwarded, TypeOK, sessionVars, States, Kinds
  <2>2. ChannelSound(c)'
    BY <1>1, <1>3, <1>7 DEF NextForwarded, TypeOK, ChannelSound, InProgress
  <2> QED
    BY <1>1, <1>7, <2>1, <2>2, ChannelStepInv DEF NextForwarded, TypeOK, sessionVars
<1> QED BY <1>1, <1>4, <1>5, <1>6, <1>7, GivenContexts DEF OpenStep

\* A default operation takes the earlier of the channel's deadline and the
\* operation timeout; with a context, that context's.
LEMMA UseStepInv ==
    ASSUME OperationsInv, NEW c \in Channels, UseStep(c)
    PROVE  OperationsInv'
<1>1. TypeOK /\ ctx[c] \in Contexts /\ own[c] \in Nat /\ ctx[c].deadline \in Nat
  BY DEF OperationsInv, TypeOK, Contexts
<1>2. "busy" \in States /\ "open" \in States /\ "open" \notin InProgress
  BY DEF States, InProgress
<1>3. ChannelSound(c)
  BY DEF OperationsInv, ChannelSound
<1>4. ASSUME NEW context \in Given, WithContext(c, context) PROVE OperationsInv'
  <2>1. context \in Contexts /\ context.deadline \in Nat
    BY GivenContexts DEF Contexts
  <2>2. TypeOK'
    BY <1>1, <1>4, <2>1 DEF WithContext, TypeOK, sessionVars
  <2>3. ChannelSound(c)'
    BY <1>1, <1>2, <1>4, <2>1 DEF WithContext, TypeOK, ChannelSound
  <2> QED
    BY <1>1, <1>4, <2>2, <2>3, ChannelStepInv DEF WithContext, TypeOK, sessionVars
<1>5. CASE StartDefault(c)
  <2> DEFINE context == Default(ctx[c])
             time == now + Timeouts.operation
  <2>1. context \in Contexts /\ context.deadline = Earlier(ctx[c].deadline, time)
    BY <1>1, DefaultContext
  <2>2. time \in Nat
    BY <1>1, OperationsAssumption DEF TypeOK
  <2>3. /\ Earlier(own[c], time) \in Nat
        /\ context.deadline <= Earlier(own[c], time)
        /\ kind[c] # "direct" => context.deadline = Earlier(own[c], time)
    BY <1>1, <1>3, <2>1, <2>2 DEF Earlier, ChannelSound
  <2>4. /\ state' \in [Channels -> States]
        /\ result' \in [Channels -> {"none", "ok", "error", "timeout", "cancelled"}]
        /\ op' \in [Channels -> Contexts]
        /\ \A b \in Channels \ {c} : state'[b] = state[b] /\ op'[b] = op[b]
        /\ state'[c] = "open" \/ (state'[c] = "busy" /\ op'[c] = context)
    BY <1>1, <1>2, <1>5, <2>1, BeginTypes DEF StartDefault
  <2>5. TypeOK'
    BY <1>1, <1>5, <2>3, <2>4 DEF StartDefault, Promise, TypeOK, sessionVars
  <2>6. promised'[c] = Earlier(own[c], time)
    BY <1>1, <1>5 DEF StartDefault, Promise, TypeOK
  <2>7. ChannelSound(c)'
    BY <1>2, <1>3, <1>5, <2>3, <2>4, <2>6 DEF StartDefault, ChannelSound
  <2> QED
    BY <1>1, <1>5, <2>4, <2>5, <2>7, ChannelStepInv DEF StartDefault, TypeOK, sessionVars
<1>6. ASSUME NEW context \in Given, StartWithContext(c, context)
      PROVE  OperationsInv'
  <2>1. context \in Contexts /\ context.deadline \in Nat
    BY GivenContexts DEF Contexts
  <2>2. /\ state' \in [Channels -> States]
        /\ result' \in [Channels -> {"none", "ok", "error", "timeout", "cancelled"}]
        /\ op' \in [Channels -> Contexts]
        /\ \A b \in Channels \ {c} : state'[b] = state[b] /\ op'[b] = op[b]
        /\ state'[c] = "open" \/ (state'[c] = "busy" /\ op'[c] = context)
    BY <1>1, <1>2, <1>6, <2>1, BeginTypes DEF StartWithContext
  <2>3. TypeOK'
    BY <1>1, <1>6, <2>1, <2>2 DEF StartWithContext, TypeOK, sessionVars
  <2>4. promised'[c] = context.deadline
    BY <1>1, <1>6 DEF StartWithContext, TypeOK
  <2>5. ChannelSound(c)'
    BY <1>2, <1>3, <1>6, <2>1, <2>2, <2>4 DEF StartWithContext, ChannelSound
  <2> QED
    BY <1>1, <1>6, <2>2, <2>3, <2>5, ChannelStepInv DEF StartWithContext, TypeOK, sessionVars
<1> QED BY <1>4, <1>5, <1>6 DEF UseStep, Start, SftpRun

\* An operation ends, or a set-up goes on under its own context.
LEMMA EndStepInv ==
    ASSUME OperationsInv, NEW c \in Channels, EndStep(c)
    PROVE  OperationsInv'
<1>1. TypeOK /\ ctx[c] \in Contexts /\ setup[c] \in Nat
  BY DEF OperationsInv, TypeOK
<1>2. {"setup1", "setup2", "open", "failed"} \subseteq States
      /\ "open" \notin InProgress /\ "failed" \notin InProgress
  BY DEF States, InProgress
<1>3. ChannelSound(c)
  BY DEF OperationsInv, ChannelSound
<1>4. ASSUME NEW res \in {"error", "timeout", "cancelled"}, End(c, res)
      PROVE  OperationsInv'
  <2>1. TypeOK'
    BY <1>1, <1>2, <1>4 DEF End, TypeOK, sessionVars
  <2>2. ChannelSound(c)'
    BY <1>1, <1>2, <1>3, <1>4 DEF End, TypeOK, ChannelSound
  <2> QED BY <1>1, <1>4, <2>1, <2>2, ChannelStepInv DEF End, TypeOK, sessionVars
<1>5. CASE Answered(c)
  <2> DEFINE next == IF state[c] = "opening" THEN "setup1"
                     ELSE IF state[c] = "setup1" THEN "setup2" ELSE "open"
             context == [ctx[c] EXCEPT !.deadline = setup[c]]
  <2>1. context \in Contexts /\ context.deadline = setup[c]
    BY <1>1 DEF Contexts
  <2>2. CASE kind[c] \in {"terminal", "sftp"} /\ next # "open"
    <3>1. Begin(c, next, "failed", context)
      BY <1>5, <2>2 DEF Answered
    <3>2. next \in States /\ "failed" \in States
      BY <1>2
    <3>3. /\ state' \in [Channels -> States]
          /\ result' \in [Channels -> {"none", "ok", "error", "timeout", "cancelled"}]
          /\ op' \in [Channels -> Contexts]
          /\ \A b \in Channels \ {c} : state'[b] = state[b] /\ op'[b] = op[b]
          /\ state'[c] = "failed" \/ (state'[c] = next /\ op'[c] = context)
      BY <1>1, <2>1, <3>1, <3>2, BeginTypes
    <3>5. UNCHANGED <<now, cancelled, sessionVars, kind, ctx, setup, own, promised>>
      BY <1>5 DEF Answered
    <3>6. TypeOK'
      BY <1>1, <3>3, <3>5 DEF TypeOK, sessionVars
    <3>7. promised'[c] = setup[c]
      BY <1>3, <2>2, <3>5 DEF ChannelSound
    <3>8. state'[c] \in InProgress => op'[c].deadline = promised'[c]
      BY <1>2, <2>1, <3>3, <3>7
    <3>9. ChannelSound(c)'
      BY <1>1, <1>3, <3>5, <3>7, <3>8 DEF ChannelSound
    <3> QED
      BY <1>1, <3>3, <3>5, <3>6, <3>9, ChannelStepInv DEF TypeOK, sessionVars
  <2>3. CASE ~ (kind[c] \in {"terminal", "sftp"} /\ next # "open")
    <3>1. /\ state' = [state EXCEPT ![c] = "open"]
          /\ result' = [result EXCEPT ![c] = "ok"]
          /\ UNCHANGED <<now, cancelled, sessionVars, kind, ctx, op, setup, own,
                         promised>>
      BY <1>5, <2>3 DEF Answered
    <3>2. TypeOK'
      BY <1>1, <1>2, <3>1 DEF TypeOK, sessionVars
    <3>3. ChannelSound(c)'
      BY <1>1, <1>2, <1>3, <3>1 DEF TypeOK, ChannelSound
    <3> QED BY <1>1, <3>1, <3>2, <3>3, ChannelStepInv DEF TypeOK, sessionVars
  <2> QED BY <2>2, <2>3
<1> QED BY <1>4, <1>5 DEF EndStep, Failed, TimedOut, Cancelled

-----------------------------------------------------------------------------
\* The invariant is kept by every step.
THEOREM NextOperationsInv == OperationsInv /\ [Next]_vars => OperationsInv'
<1> SUFFICES ASSUME OperationsInv, [Next]_vars PROVE OperationsInv'
  OBVIOUS
<1>1. CASE Tick
  BY <1>1, OperationsAssumption, SessionStepInv DEF Tick, sessionVars, OperationsInv, TypeOK
<1>2. CASE \E k \in Tokens : Cancel(k)
  BY <1>2, SessionStepInv DEF Cancel, sessionVars, OperationsInv, TypeOK
<1>3. CASE ConnectStep
  BY <1>3, ConnectStepInv
<1>4. CASE \E c \in Channels : OpenStep(c) \/ UseStep(c) \/ EndStep(c)
  BY <1>4, OpenStepInv, UseStepInv, EndStepInv
<1>5. CASE UNCHANGED vars
  BY <1>5, SessionStepInv DEF vars, sessionVars, OperationsInv, TypeOK
<1> QED BY <1>1, <1>2, <1>3, <1>4, <1>5 DEF Next

\* The invariant holds in every reachable state, for any constants.
THEOREM OperationsInvariant == SafetySpec => []OperationsInv
BY InitOperationsInv, NextOperationsInv, PTL DEF SafetySpec

\* No operation runs with a later deadline than it was given.
THEOREM DeadlineNeverExtended == SafetySpec => []DeadlineNotExtended
<1>1. OperationsInv => DeadlineNotExtended
  BY DEF OperationsInv, DeadlineNotExtended
<1> QED BY <1>1, OperationsInvariant, PTL

\* Only an expired timer ends an operation with a timeout.
LEMMA TimeoutIsTimer ==
    ASSUME OperationsInv, Next, NEW c \in Channels, Expires(c)
    PROVE  TimedOut(c)
<1> USE DEF Expires
<1>1. result \in [Channels -> {"none", "ok", "error", "timeout", "cancelled"}]
  BY DEF OperationsInv, TypeOK
<1>2. CASE result' = result
  BY <1>2
<1>3. ASSUME NEW b \in Channels, NEW res, res # "timeout",
             result' = [result EXCEPT ![b] = res]
      PROVE  FALSE
  BY <1>1, <1>3
<1>4. ASSUME NEW b \in Channels, NEW next, NEW refused, NEW context,
             Begin(b, next, refused, context)
      PROVE  FALSE
  BY <1>3, <1>4 DEF Begin
<1>5. CASE Tick \/ ConnectStep \/ (\E k \in Tokens : Cancel(k))
  BY <1>2, <1>5 DEF Tick, Cancel, ConnectStep, Connect, ConnectViaJump,
     JumpOpened, Handshaken, Authenticated, ConnectRefused, ConnectTimedOut,
     ConnectCancelled, ConnectEnds, channelVars
<1>6. ASSUME NEW b \in Channels, OpenStep(b) PROVE FALSE
  BY <1>2, <1>4, <1>6 DEF OpenStep, OpenWith, OpenSession, OpenTerminal, ConnectSftp,
     OpenDirect, OpenDirectWithContext, Open, NextForwarded
<1>7. ASSUME NEW b \in Channels, UseStep(b) PROVE FALSE
  BY <1>2, <1>4, <1>7 DEF UseStep, WithContext, Start, SftpRun, StartDefault,
     StartWithContext
<1>8. ASSUME NEW b \in Channels, EndStep(b) PROVE TimedOut(c)
  <2>1. ~ Answered(b)
    BY <1>3, <1>4 DEF Answered
  <2>2. ~ Failed(b) /\ ~ Cancelled(b)
    BY <1>3 DEF Failed, Cancelled, End
  <2>3. TimedOut(b)
    BY <1>8, <2>1, <2>2 DEF EndStep
  <2>4. b = c
    BY <1>1, <2>3 DEF TimedOut, End
  <2> QED BY <2>3, <2>4
<1> QED BY <1>5, <1>6, <1>7, <1>8 DEF Next

\* Except on direct channels, an operation expires no earlier than the caller
\* was promised: an action property.
THEOREM TimeoutNeverEarly == SafetySpec => TimeoutNotEarly
<1>1. OperationsInv /\ [Next]_vars =>
        [\A c \in Channels :
            kind[c] # "direct" /\ Expires(c) => now >= promised[c]]_vars
  <2> SUFFICES ASSUME OperationsInv, Next, NEW c \in Channels,
                      kind[c] # "direct", Expires(c)
               PROVE  now >= promised[c]
    OBVIOUS
  <2>1. TimedOut(c)
    BY TimeoutIsTimer
  <2> QED BY <2>1 DEF TimedOut, End, OperationsInv
<1> QED BY <1>1, OperationsInvariant, PTL DEF SafetySpec, TimeoutNotEarly

-----------------------------------------------------------------------------
(* The cancellation token, which the contexts of this module reduce to a   *)
(* flag: TokenInv of CancellationToken is inductive for any number of      *)
(* tasks and threads, it implies the checked properties, and every step of *)
(* the token is a step of the abstract one or a stutter.  The liveness     *)
(* half of the refinement is checked by TLC only.                          *)

\* The initial state of CancellationToken::new satisfies the invariant.
LEMMA InitTokenInv == TokenInit => TokenInv
<1> SUFFICES ASSUME TokenInit PROVE TokenInv
  OBVIOUS
<1>1. TokenTypeOK
  BY DEF TokenInit, TokenTypeOK, TaskPC, CancellerPC
<1>2. \A c \in Cancellers : cpc[c] # "notify"
  BY DEF TokenInit
<1>3. \A t \in Tasks : pc[t] = "idle" /\ ticket[t] = 0
  BY DEF TokenInit
<1>4. ~flag /\ calls = 0
  BY DEF TokenInit
<1> QED
  BY <1>1, <1>2, <1>3, <1>4 DEF TokenInv

\* Every step of cancelled() and of cancel() preserves the invariant.
LEMMA NextTokenInv == TokenInv /\ [TokenNext]_tokenVars => TokenInv'
<1> SUFFICES ASSUME TokenInv, [TokenNext]_tokenVars PROVE TokenInv'
  OBVIOUS
<1> USE DEF TokenInv, TokenTypeOK, TaskPC, CancellerPC
<1>1. ASSUME NEW t \in Tasks, Call(t) PROVE TokenInv'
  BY <1>1 DEF Call
<1>2. ASSUME NEW t \in Tasks, FastCheck(t) PROVE TokenInv'
  BY <1>2 DEF FastCheck
<1>3. ASSUME NEW t \in Tasks, CreateNotified(t) PROVE TokenInv'
  BY <1>3 DEF CreateNotified
<1>4. ASSUME NEW t \in Tasks, Recheck(t) PROVE TokenInv'
  BY <1>4 DEF Recheck
<1>5. ASSUME NEW t \in Tasks, PollNotified(t) PROVE TokenInv'
  BY <1>5 DEF PollNotified
<1>6. ASSUME NEW t \in Tasks, Resume(t) PROVE TokenInv'
  BY <1>6 DEF Resume
<1>7. ASSUME NEW t \in Tasks, Drop(t) PROVE TokenInv'
  BY <1>7 DEF Drop
<1>8. ASSUME NEW c \in Cancellers, Swap(c) PROVE TokenInv'
  BY <1>8 DEF Swap
<1>9. ASSUME NEW c \in Cancellers, NotifyWaiters(c) PROVE TokenInv'
  BY <1>9 DEF NotifyWaiters
<1>10. CASE UNCHANGED tokenVars
  BY <1>10 DEF tokenVars
<1> QED
  BY <1>1, <1>2, <1>3, <1>4, <1>5, <1>6, <1>7, <1>8, <1>9, <1>10
     DEF TokenNext, Poll

\* The invariant holds throughout every execution of the token; its first
\* conjunct is type correctness.
THEOREM TokenInvariant == TokenSafetySpec => []TokenInv
BY InitTokenInv, NextTokenInv, PTL DEF TokenSafetySpec

\* A parked task on a cancelled token has its wake-up still coming: no
\* interleaving of cancel() with the poll of cancelled() loses it.
THEOREM WakeupNeverLost == TokenSafetySpec => []NoLostWakeup
<1>1. TokenInv => NoLostWakeup
  BY DEF TokenInv, NoLostWakeup
<1> QED
  BY <1>1, TokenInvariant, PTL

\* However often and from however many threads cancel() is called, the
\* waiters are notified at most once.
THEOREM NotificationUnique == TokenSafetySpec => []NotifiedOnce
<1>1. TokenInv => NotifiedOnce
  BY DEF TokenInv, NotifiedOnce
<1> QED
  BY <1>1, TokenInvariant, PTL

-----------------------------------------------------------------------------
(* Refinement: pc is mapped to the three abstract positions.               *)

\* Every step of the token is a step of the abstract one or changes nothing
\* it can see.
LEMMA StepRefines ==
    TokenInv /\ [TokenNext]_tokenVars => [Abs!Next]_<<flag, AbstractWait>>
<1> SUFFICES ASSUME TokenInv, [TokenNext]_tokenVars
             PROVE  [Abs!Next]_<<flag, AbstractWait>>
  OBVIOUS
<1>0. TokenTypeOK
  BY DEF TokenInv
<1>1. ASSUME NEW t \in Tasks, Call(t) PROVE Abs!Enter(t)
  BY <1>0, <1>1
     DEF Call, Abs!Enter, AbstractWait, Waiting, TokenTypeOK, TaskPC
<1>2. ASSUME NEW t \in Tasks, FastCheck(t)
      PROVE  Abs!Return(t) \/ UNCHANGED <<flag, AbstractWait>>
  BY <1>0, <1>2
     DEF FastCheck, Abs!Return, AbstractWait, Waiting, TokenTypeOK, TaskPC
<1>3. ASSUME NEW t \in Tasks, CreateNotified(t)
      PROVE  UNCHANGED <<flag, AbstractWait>>
  BY <1>0, <1>3 DEF CreateNotified, AbstractWait, Waiting, TokenTypeOK, TaskPC
<1>4. ASSUME NEW t \in Tasks, Recheck(t)
      PROVE  Abs!Return(t) \/ UNCHANGED <<flag, AbstractWait>>
  BY <1>0, <1>4
     DEF Recheck, Abs!Return, AbstractWait, Waiting, TokenTypeOK, TaskPC
<1>5. ASSUME NEW t \in Tasks, PollNotified(t) \/ Resume(t)
      PROVE  UNCHANGED <<flag, AbstractWait>>
  BY <1>0, <1>5
     DEF PollNotified, Resume, AbstractWait, Waiting, TokenTypeOK, TaskPC
<1>6. ASSUME NEW t \in Tasks, Drop(t) PROVE Abs!Abandon(t)
  BY <1>0, <1>6
     DEF Drop, Abs!Abandon, AbstractWait, Waiting, TokenTypeOK, TaskPC
<1>7. ASSUME NEW c \in Cancellers, Swap(c) PROVE Abs!Cancel
  BY <1>7 DEF Swap, Abs!Cancel, AbstractWait
<1>8. ASSUME NEW c \in Cancellers, NotifyWaiters(c)
      PROVE  UNCHANGED <<flag, AbstractWait>>
  BY <1>0, <1>8 DEF NotifyWaiters, AbstractWait, Waiting, TokenTypeOK, TaskPC
<1>9. CASE UNCHANGED tokenVars
  BY <1>9 DEF tokenVars, AbstractWait
<1> QED
  BY <1>1, <1>2, <1>3, <1>4, <1>5, <1>6, <1>7, <1>8, <1>9
     DEF TokenNext, Poll, Abs!Next

\* The safety half of ImplementsAbstract: cancelled() returns only on a
\* cancelled token and the flag is one-way, for any number of tasks.
THEOREM TokenRefines == TokenSafetySpec => Abs!SafetySpec
<1>1. TokenInit => Abs!Init
  BY DEF TokenInit, Abs!Init, AbstractWait, Waiting
<1> QED
  BY <1>1, TokenInvariant, StepRefines, PTL
     DEF TokenSafetySpec, Abs!SafetySpec, Abs!vars
=============================================================================
