------------------------------- MODULE Socks5 -------------------------------
(***************************************************************************)
(* Socks5Proxy of core/socks5.rs: calls of run_with_context() on one       *)
(* listener and one spawned task per client, handle_connection().          *)
(*                                                                         *)
(* Every await is one OperationContext::run.  Its look at the token before *)
(* it starts is part of the step that leads to it (Enter): between the two *)
(* a task touches nothing that others see.  Consecutive reads of one       *)
(* message are one step, because they fail in the same way.  A client is   *)
(* the script of what it will send if it sends anything; the SSH session   *)
(* is external and opens, refuses or hangs.                                *)
(***************************************************************************)
EXTENDS Naturals, Sequences, FiniteSets

CONSTANTS Runs,            \* run_with_context() calls
          NoRun,           \* the owner of a client nobody accepted
          Conns,           \* clients
          Scripts,         \* what a client may have to say
          Silent,          \* the script of a client that is not there yet
          MaxConnections,  \* Socks5ProxyOptions.max_connections
          RequireLogin     \* authentication is UsernamePassword

\* What the address of a request may turn out to be (read_connect_request).
AddressKinds == {"ip", "name", "blank", "empty", "notUtf8", "unknown"}

\* Socks5ProxyOptions::validate refuses a zero limit.
ASSUME Socks5Assumption == /\ NoRun \notin Runs
                           /\ IsFiniteSet(Conns)
                           /\ Silent \notin Scripts
                           /\ \A s \in Scripts : s.request.address \in AddressKinds
                           /\ MaxConnections \in Nat \ {0}
                           /\ RequireLogin \in BOOLEAN

VARIABLES cancelled,  \* cancelled[r]: the token of r's context
          expired,    \* expired[r]: the deadline of r's context has passed
          rpc,        \* rpc[r]: where run r is in its loop
          permits,    \* permits[r]: free permits of r's semaphore
          cpc,        \* cpc[c]: where client c is
          owner,      \* owner[c]: the run that accepted c
          late,       \* late[c]: the handshake deadline of c has passed
          code,       \* code[c]: the failure about to be replied
          says,       \* says[c]: what c sends
          told,       \* told[c]: what was written to c, in order
          tunnel,     \* tunnel[c]: its SSH channel
          why         \* why[c]: history, what cut the dialogue short

runVars == <<cancelled, expired, rpc>>
taskVars == <<owner, says>>
vars == <<runVars, permits, cpc, taskVars, late, code, told, tunnel, why>>

A == INSTANCE AbstractSocks5

Reading == {"greeting", "login", "request"}
Writing == {"select", "judge", "reply", "grant"}
Handshaking == Reading \cup Writing \cup {"opening", "opened"}
Relaying == {"granted", "relaying", "shutting"}
Holding == Handshaking \cup Relaying \cup {"finishing"}
ConnPC == {"outside", "backlog", "taken", "closed", "done"} \cup Holding

Messages == {"noAuth", "userPassword", "noAcceptable", "accepted", "rejected"}
              \cup A!Replies

TypeOK == /\ cancelled \in [Runs -> BOOLEAN]
          /\ expired \in [Runs -> BOOLEAN]
          /\ rpc \in [Runs -> {"idle", "accept", "dispatch", "returned"}]
          /\ permits \in [Runs -> Nat]
          /\ cpc \in [Conns -> ConnPC]
          /\ owner \in [Conns -> Runs \cup {NoRun}]
          /\ late \in [Conns -> BOOLEAN]
          /\ code \in [Conns -> A!Failures \cup {"none"}]
          /\ says \in [Conns -> Scripts \cup {Silent}]
          /\ told \in [Conns -> Seq(Messages)]
          /\ tunnel \in [Conns -> {"none", "open", "closed"}]
          /\ why \in [Conns -> {"none", "cancelled", "late", "broken"}]

Init == /\ cancelled = [r \in Runs |-> FALSE]
        /\ expired = [r \in Runs |-> FALSE]
        /\ rpc = [r \in Runs |-> "idle"]
        /\ permits = [r \in Runs |-> 0]
        /\ cpc = [c \in Conns |-> "outside"]
        /\ owner = [c \in Conns |-> NoRun]
        /\ late = [c \in Conns |-> FALSE]
        /\ code = [c \in Conns |-> "none"]
        /\ says = [c \in Conns |-> Silent]
        /\ told = [c \in Conns |-> <<>>]
        /\ tunnel = [c \in Conns |-> "none"]
        /\ why = [c \in Conns |-> "none"]

-----------------------------------------------------------------------------
(* The environment: clients, callers and the clock.                        *)

Connect(c, s) ==
    /\ cpc[c] = "outside"
    /\ cpc' = [cpc EXCEPT ![c] = "backlog"]
    /\ says' = [says EXCEPT ![c] = s]
    /\ UNCHANGED <<runVars, permits, owner, late, code, told, tunnel, why>>

Cancel(r) ==
    /\ ~cancelled[r]
    /\ cancelled' = [cancelled EXCEPT ![r] = TRUE]
    /\ UNCHANGED <<expired, rpc, permits, cpc, taskVars, late, code, told,
                   tunnel, why>>

Expire(r) ==
    /\ ~expired[r]
    /\ expired' = [expired EXCEPT ![r] = TRUE]
    /\ UNCHANGED <<cancelled, rpc, permits, cpc, taskVars, late, code, told,
                   tunnel, why>>

\* handshake_timeout after the task began.
HandshakeExpires(c) ==
    /\ cpc[c] \in Handshaking /\ ~late[c]
    /\ late' = [late EXCEPT ![c] = TRUE]
    /\ UNCHANGED <<runVars, permits, cpc, taskVars, code, told, tunnel, why>>

-----------------------------------------------------------------------------
(* Steps of a task.                                                        *)

\* The task leaves handle_connection(); both streams are dropped.
Finish(c, reason) ==
    /\ cpc' = [cpc EXCEPT ![c] = "finishing"]
    /\ tunnel' = [tunnel EXCEPT ![c] = IF @ = "open" THEN "closed" ELSE @]
    /\ why' = [why EXCEPT ![c] = reason]

\* On to the next await, unless its run() finds the token set.
Enter(c, next) ==
    IF cancelled[owner[c]]
      THEN Finish(c, "cancelled")
      ELSE /\ cpc' = [cpc EXCEPT ![c] = next]
           /\ UNCHANGED <<tunnel, why>>

\* write_reply() with a failure.
Fail(c, failure) ==
    /\ code' = [code EXCEPT ![c] = failure]
    /\ Enter(c, "reply")

Tell(c, message) == told' = [told EXCEPT ![c] = Append(@, message)]

Untouched == UNCHANGED <<runVars, permits, taskVars, late>>

\* The handshake context: handshake_timeout or the deadline of the run.
Late(c) == late[c] \/ expired[owner[c]]

\* Name and password are both compared.
LoginAccepted(login) == login = "right"

\* What read_connect_request() rejects, in the order of its reads.
RequestError(q) ==
    IF ~q.wellFormed THEN "GeneralFailure"
    ELSE IF q.address = "unknown" THEN "AddressTypeNotSupported"
    ELSE IF q.address \in {"empty", "notUtf8"} \/ q.port = 0
           THEN "GeneralFailure"
    ELSE "none"

-----------------------------------------------------------------------------
(* Mutated forms of the operations, each a plausible slip in this code.    *)

\* "let _ = permit" instead of "let _permit = permit": released at once.
AdmitDropsPermit(c) ==
    /\ cpc[c] = "taken"
    /\ rpc' = [rpc EXCEPT ![owner[c]] =
                 IF cancelled[owner[c]] THEN "returned" ELSE "accept"]
    /\ IF permits[owner[c]] = 0
         THEN /\ cpc' = [cpc EXCEPT ![c] = "closed"]
              /\ UNCHANGED <<tunnel, why>>
         ELSE Enter(c, "greeting")
    /\ UNCHANGED <<cancelled, expired, permits, taskVars, late, code, told>>

\* The reply is sent before the channel is opened.
ReadRequestGrants(c) ==
    LET q == says[c].request
        failure == RequestError(q)
    IN /\ cpc[c] = "request"
       /\ CASE failure # "none" -> Fail(c, failure)
            [] failure = "none" /\ q.command # "connect" ->
                 Fail(c, "CommandNotSupported")
            [] OTHER -> Enter(c, "grant") /\ UNCHANGED code
       /\ UNCHANGED told
       /\ Untouched

\* "?" on the open instead of a reply.
OpenFailsSilently(c) ==
    /\ cpc[c] = "opening"
    /\ Finish(c, "none")
    /\ UNCHANGED <<code, told>>
    /\ Untouched

\* Reads run under the proxy's context instead of the handshake's.
ReadTimeoutOfRun(c) ==
    /\ cpc[c] \in Reading /\ expired[owner[c]]
    /\ IF cpc[c] = "request" THEN Fail(c, "GeneralFailure")
                             ELSE Finish(c, "late") /\ UNCHANGED code
    /\ UNCHANGED told
    /\ Untouched

\* The relay is not run under the context, only its inner select! is.
RelayCancelledInnerOnly(c) ==
    /\ cpc[c] = "relaying" /\ cancelled[owner[c]]
    /\ cpc' = [cpc EXCEPT ![c] = "shutting"]
    /\ UNCHANGED <<code, told, tunnel, why>>
    /\ Untouched

-----------------------------------------------------------------------------
(* The loop of run_with_context().                                         *)

\* A fresh semaphore; the first accept() is refused by a cancelled token.
RunStart(r) ==
    /\ rpc[r] = "idle"
    /\ permits' = [permits EXCEPT ![r] = MaxConnections]
    /\ rpc' = [rpc EXCEPT ![r] = IF cancelled[r] THEN "returned" ELSE "accept"]
    /\ UNCHANGED <<cancelled, expired, cpc, taskVars, late, code, told, tunnel,
                   why>>

Returned(r) ==
    /\ rpc' = [rpc EXCEPT ![r] = "returned"]
    /\ UNCHANGED <<cancelled, expired, permits, cpc, taskVars, late, code, told,
                   tunnel, why>>

AcceptCancelled(r) == rpc[r] = "accept" /\ cancelled[r] /\ Returned(r)

\* timeout() polls accept() before it looks at the timer.
AcceptTimeout(r) == /\ rpc[r] = "accept" /\ expired[r]
                    /\ \A c \in Conns : cpc[c] # "backlog"
                    /\ Returned(r)

\* The listener fails; the tasks of this run go on.
AcceptFails(r) == rpc[r] = "accept" /\ Returned(r)

Accept(r, c) ==
    /\ rpc[r] = "accept"
    /\ cpc[c] = "backlog"
    /\ rpc' = [rpc EXCEPT ![r] = "dispatch"]
    /\ cpc' = [cpc EXCEPT ![c] = "taken"]
    /\ owner' = [owner EXCEPT ![c] = r]
    /\ UNCHANGED <<cancelled, expired, permits, says, late, code, told, tunnel,
                   why>>

\* try_acquire_owned(): the socket is closed, or a task is spawned.
Admit(c) ==
    LET r == owner[c] IN
    /\ cpc[c] = "taken"
    /\ rpc' = [rpc EXCEPT ![r] = IF cancelled[r] THEN "returned" ELSE "accept"]
    /\ IF permits[r] = 0
         THEN /\ cpc' = [cpc EXCEPT ![c] = "closed"]
              /\ UNCHANGED <<permits, tunnel, why>>
         ELSE /\ permits' = [permits EXCEPT ![r] = @ - 1]
              /\ Enter(c, "greeting")
    /\ UNCHANGED <<cancelled, expired, taskVars, late, code, told>>

\* The task ends and its permit is dropped.
ReleasePermit(c) ==
    /\ cpc[c] = "finishing"
    /\ permits' = [permits EXCEPT ![owner[c]] = @ + 1]
    /\ cpc' = [cpc EXCEPT ![c] = "done"]
    /\ UNCHANGED <<runVars, taskVars, late, code, told, tunnel, why>>

-----------------------------------------------------------------------------
(* authenticate(): errors close the connection without a reply.            *)

\* A client of another version has no methods to read.
ReadMethods(c) ==
    /\ cpc[c] = "greeting"
    /\ IF says[c].greeting = 5 THEN Enter(c, "select") ELSE Finish(c, "none")
    /\ UNCHANGED <<code, told>>
    /\ Untouched

WriteMethod(c) ==
    /\ cpc[c] = "select"
    /\ IF A!Method \in says[c].methods
         THEN /\ Tell(c, A!Method)
              /\ Enter(c, IF RequireLogin THEN "login" ELSE "request")
         ELSE /\ Tell(c, "noAcceptable")
              /\ Finish(c, "none")
    /\ UNCHANGED code
    /\ Untouched

ReadCredentials(c) ==
    /\ cpc[c] = "login"
    /\ IF says[c].login = "badVersion" THEN Finish(c, "none")
                                       ELSE Enter(c, "judge")
    /\ UNCHANGED <<code, told>>
    /\ Untouched

WriteStatus(c) ==
    /\ cpc[c] = "judge"
    /\ IF LoginAccepted(says[c].login)
         THEN Tell(c, "accepted") /\ Enter(c, "request")
         ELSE Tell(c, "rejected") /\ Finish(c, "none")
    /\ UNCHANGED code
    /\ Untouched

-----------------------------------------------------------------------------
(* handle_connection() after authenticate().                               *)

\* The command is looked at once the whole request was read; an empty host
\* is refused by open_direct_tcpip_from_with_context().
ReadRequest(c) ==
    LET q == says[c].request
        failure == RequestError(q)
    IN /\ cpc[c] = "request"
       /\ CASE failure # "none" -> Fail(c, failure)
            [] failure = "none" /\ q.command # "connect" ->
                 Fail(c, "CommandNotSupported")
            [] failure = "none" /\ q.command = "connect" /\ q.address = "blank" ->
                 Fail(c, "GeneralFailure")
            [] OTHER -> Enter(c, "opening") /\ UNCHANGED code
       /\ UNCHANGED told
       /\ Untouched

\* End of file or an error: only a request is answered.
ReadFails(c) ==
    /\ cpc[c] \in Reading
    /\ IF cpc[c] = "request" THEN Fail(c, "GeneralFailure")
                             ELSE Finish(c, "broken") /\ UNCHANGED code
    /\ UNCHANGED told
    /\ Untouched

ReadTimeout(c) ==
    /\ cpc[c] \in Reading /\ Late(c)
    /\ IF cpc[c] = "request" THEN Fail(c, "GeneralFailure")
                             ELSE Finish(c, "late") /\ UNCHANGED code
    /\ UNCHANGED told
    /\ Untouched

OpenFails(c) ==
    /\ cpc[c] = "opening"
    /\ Fail(c, "GeneralFailure")
    /\ UNCHANGED told
    /\ Untouched

OpenTimeout(c) ==
    /\ cpc[c] = "opening" /\ Late(c)
    /\ Fail(c, "GeneralFailure")
    /\ UNCHANGED told
    /\ Untouched

Opened(c) ==
    /\ cpc[c] = "opening"
    /\ cpc' = [cpc EXCEPT ![c] = "opened"]
    /\ tunnel' = [tunnel EXCEPT ![c] = "open"]
    /\ UNCHANGED <<code, told, why>>
    /\ Untouched

\* The run() of the success reply, and the one around the relay.
NextCheck(c) ==
    /\ \/ cpc[c] = "opened" /\ Enter(c, "grant")
       \/ cpc[c] = "granted" /\ Enter(c, "relaying")
    /\ UNCHANGED <<code, told>>
    /\ Untouched

WriteFailure(c) ==
    /\ cpc[c] = "reply"
    /\ Tell(c, code[c])
    /\ Finish(c, "none")
    /\ UNCHANGED code
    /\ Untouched

WriteSucceeded(c) ==
    /\ cpc[c] = "grant"
    /\ Tell(c, "Succeeded")
    /\ cpc' = [cpc EXCEPT ![c] = "granted"]
    /\ UNCHANGED <<code, tunnel, why>>
    /\ Untouched

\* The client is gone, or does not read.
WriteFails(c) ==
    /\ cpc[c] \in Writing
    /\ Finish(c, "broken")
    /\ UNCHANGED <<code, told>>
    /\ Untouched

WriteTimeout(c) ==
    /\ cpc[c] \in Writing /\ Late(c)
    /\ Finish(c, "late")
    /\ UNCHANGED <<code, told>>
    /\ Untouched

\* select! sees the token in the middle of an await.  A failure that is then
\* to be replied is not: the write is refused at once.
HandshakeCancelled(c) ==
    /\ cpc[c] \in Reading \cup Writing \cup {"opening"}
    /\ cancelled[owner[c]]
    /\ Finish(c, "cancelled")
    /\ UNCHANGED <<code, told>>
    /\ Untouched

CopyEnds(c) ==
    /\ cpc[c] = "relaying"
    /\ Finish(c, "none")
    /\ UNCHANGED <<code, told>>
    /\ Untouched

\* The inner select! sees the token: shut both streams down.
BeginShutdown(c) ==
    /\ cpc[c] = "relaying" /\ cancelled[owner[c]]
    /\ cpc' = [cpc EXCEPT ![c] = "shutting"]
    /\ UNCHANGED <<code, told, tunnel, why>>
    /\ Untouched

ShutdownDone(c) ==
    /\ cpc[c] = "shutting"
    /\ Finish(c, "cancelled")
    /\ UNCHANGED <<code, told>>
    /\ Untouched

\* The outer select! sees the token, shutdown in progress or not.
RelayCancelled(c) ==
    /\ cpc[c] \in {"relaying", "shutting"} /\ cancelled[owner[c]]
    /\ Finish(c, "cancelled")
    /\ UNCHANGED <<code, told>>
    /\ Untouched

RelayTimeout(c) ==
    /\ cpc[c] \in {"relaying", "shutting"} /\ expired[owner[c]]
    /\ Finish(c, "late")
    /\ UNCHANGED <<code, told>>
    /\ Untouched

-----------------------------------------------------------------------------
\* What a loop or a task does without waiting for a peer or the server.
RunStep(r) == AcceptCancelled(r) \/ AcceptTimeout(r)

TaskStep(c) == \/ ReadTimeout(c) \/ OpenTimeout(c) \/ WriteTimeout(c)
               \/ HandshakeCancelled(c) \/ NextCheck(c) \/ RelayCancelled(c)
               \/ RelayTimeout(c) \/ ReleasePermit(c)

\* What it does when they answer, or on a branch select! need not take.
PeerStep(c) == \/ ReadMethods(c) \/ WriteMethod(c) \/ ReadCredentials(c)
               \/ WriteStatus(c) \/ ReadRequest(c) \/ ReadFails(c)
               \/ OpenFails(c) \/ Opened(c) \/ WriteFailure(c)
               \/ WriteSucceeded(c) \/ WriteFails(c) \/ CopyEnds(c)
               \/ BeginShutdown(c) \/ ShutdownDone(c)

Next == \/ \E c \in Conns, s \in Scripts : Connect(c, s)
        \/ \E r \in Runs : \/ Cancel(r) \/ Expire(r) \/ RunStart(r)
                           \/ RunStep(r) \/ AcceptFails(r)
                           \/ \E c \in Conns : Accept(r, c)
        \/ \E c \in Conns : \/ HandshakeExpires(c) \/ Admit(c) \/ TaskStep(c)
                            \/ PeerStep(c)

\* Tasks are scheduled and timers fire; nobody else owes anything.
Fairness == /\ \A r \in Runs : WF_vars(RunStep(r))
            /\ \A c \in Conns : /\ WF_vars(HandshakeExpires(c))
                                /\ WF_vars(Admit(c)) /\ WF_vars(TaskStep(c))

SafetySpec == Init /\ [][Next]_vars

Spec == SafetySpec /\ Fairness

-----------------------------------------------------------------------------
(* Properties *)

\* What clients are told and for whom channels are opened is what a SOCKS5
\* proxy promises: one method, one verdict, one reply of a code that fits,
\* success only over an open channel, a channel only for a client that is
\* admitted and asked for a reachable target (handle_connection).
ImplementsDialogue == A!Spec

\* "Authentication required before a client can issue a CONNECT request"
\* (Socks5ProxyOptions): whoever has a channel had the right credentials.
TunnelAuthenticated ==
    \A c \in Conns : tunnel[c] # "none" /\ RequireLogin =>
        says[c].login = "right" /\ "userPassword" \in says[c].methods

\* An admitted client whose task is over got a reply, unless the proxy was
\* cancelled, the handshake deadline passed or the client was gone by then:
\* no error path of handle_connection leaves it to guess.
FailureAnswered ==
    \A c \in Conns :
        cpc[c] \in {"finishing", "done"} /\ A!Admitted(c) => why[c] # "none"

\* "Deadline for the SOCKS5 handshake and SSH channel open request": a
\* client that stops talking and a server that never answers give the slot
\* back.
HandshakeEnds ==
    \A c \in Conns : cpc[c] = "greeting" ~> cpc[c] \in {"relaying", "done"}

\* README: close the proxy with cancel().  The loop returns and every task
\* ends, its permit returned, whatever clients and server do.
Held(r) == {c \in Conns : owner[c] = r /\ cpc[c] \in Holding}
ProxyDrains ==
    \A r \in Runs : cancelled[r] /\ rpc[r] # "idle" ~>
        rpc[r] = "returned" /\ Held(r) = {} /\ permits[r] = MaxConnections

\* The inductive invariant: where a task is determines what its client was
\* told, whether it has a channel and what is known of its script; slots and
\* tasks add up, and channels and replies are as above.
Before == {"outside", "backlog", "taken", "closed", "greeting", "select"}
Asking == {"request", "reply", "opening", "opened", "grant"}
Tunnelled == {"opened", "grant"} \cup Relaying
Authentic(c) == RequireLogin => /\ says[c].login = "right"
                                /\ "userPassword" \in says[c].methods
Placed(c) ==
    /\ owner[c] = NoRun <=> cpc[c] \in {"outside", "backlog"}
    /\ owner[c] # NoRun => rpc[owner[c]] # "idle"
    /\ says[c] = Silent <=> cpc[c] = "outside"
Spoken(c) ==
    /\ cpc[c] \in Before => told[c] = <<>>
    /\ cpc[c] \in {"login", "judge"} =>
           /\ RequireLogin /\ told[c] = <<"userPassword">>
           /\ "userPassword" \in says[c].methods
    /\ cpc[c] \in Asking => A!Admitted(c)
    /\ cpc[c] \in Asking \cup Relaying => Authentic(c)
    /\ cpc[c] \in Relaying => ~A!Admitted(c)
    /\ cpc[c] = "reply" => /\ code[c] # "none"
                           /\ A!Fitting(code[c], says[c].request)
Joined(c) ==
    /\ cpc[c] \in Tunnelled => tunnel[c] = "open"
    /\ cpc[c] \notin Tunnelled \cup {"finishing", "done"} => tunnel[c] = "none"
    /\ cpc[c] \in {"finishing", "done"} => tunnel[c] # "open"
    /\ cpc[c] \in {"opening"} \cup Tunnelled => A!Reachable(says[c].request)
\* "Maximum number of client connections handled concurrently"
\* (Socks5ProxyOptions.max_connections), of each run: no slot is lost or used
\* twice, whatever way a task ends.
SlotsConserved ==
    \A r \in Runs : rpc[r] # "idle" =>
        permits[r] + Cardinality(Held(r)) = MaxConnections
Socks5Inv == /\ TypeOK
             /\ \A c \in Conns : Placed(c) /\ Spoken(c) /\ Joined(c)
             /\ SlotsConserved
             /\ TunnelAuthenticated
             /\ FailureAnswered
=============================================================================
