------------------------------- MODULE Relay -------------------------------
(***************************************************************************)
(* SshForwardingRelay of core/relay.rs: one listener, any number of        *)
(* run_with_context() calls on it (the relay is shared behind an Arc and   *)
(* run takes &self), and one spawned task per admitted connection.         *)
(*                                                                         *)
(* Tasks and run loops are on a multi-threaded runtime, so every access to *)
(* the shared counters and to a semaphore is a step of its own.  A token   *)
(* is its flag: CancellationToken refines that view, waits included.  The  *)
(* SSH session and the peers are external: opening a channel and copying   *)
(* bytes succeed, fail or hang as they like.                               *)
(***************************************************************************)
EXTENDS Naturals, FiniteSets

CONSTANTS Runs,            \* run_with_context() calls
          NoRun,           \* the owner of a connection nobody accepted
          Conns,           \* connections that clients may make
          Denied,          \* those whose peer the access policy refuses
          MaxConnections   \* ForwardingRelayOptions.max_connections

\* ForwardingRelayOptions::validate refuses a zero limit.
ASSUME RelayAssumption == /\ NoRun \notin Runs
                          /\ IsFiniteSet(Conns)
                          /\ Denied \subseteq Conns
                          /\ MaxConnections \in Nat \ {0}

VARIABLES cancelled,  \* cancelled[r]: the token of r's context
          expired,    \* expired[r]: the deadline of r's context has passed
          rpc,        \* rpc[r]: where run r is in its loop
          outcome,    \* outcome[r]: the error run r returned
          permits,    \* permits[r]: free permits of r's semaphore
          cpc,        \* cpc[c]: where connection c is
          owner,      \* owner[c]: the run that accepted c
          result,     \* result[c]: what c's task ended with
          late,       \* late[r]: history, accepts after r's cancellation
          accepted, rejected, active, completed, failed   \* RelayStats

runVars == <<cancelled, expired, rpc, outcome, late>>
connVars == <<cpc, owner, result>>
statVars == <<accepted, rejected, active, completed, failed>>
vars == <<runVars, permits, connVars, statVars>>

RunPC == {"idle", "check", "accept", "dispatch", "returned"}
\* A connection on its way through dispatch(), and then through its task.
Waiting == {"outside", "backlog"}
Dispatching == {"taken", "counted", "refused"}
Working == {"open", "opening", "opened", "relaying", "shutting", "finishing"}
Ending == {"uncounted", "failing", "recorded"}
Holding == {"spawned"} \cup Working \cup Ending
ConnPC == Waiting \cup Dispatching \cup {"closed", "done"} \cup Holding

Outcomes == {"none", "cancelled", "timeout", "connection"}
Results == {"none", "ok", "cancelled", "timeout", "channel"}
\* record_completed counts every error but a cancellation as a failure.
Failing == {"timeout", "channel"}

TypeOK == /\ cancelled \in [Runs -> BOOLEAN]
          /\ expired \in [Runs -> BOOLEAN]
          /\ rpc \in [Runs -> RunPC]
          /\ outcome \in [Runs -> Outcomes]
          /\ permits \in [Runs -> Nat]
          /\ cpc \in [Conns -> ConnPC]
          /\ owner \in [Conns -> Runs \cup {NoRun}]
          /\ result \in [Conns -> Results]
          /\ late \in [Runs -> Nat]
          /\ accepted \in Nat /\ rejected \in Nat /\ active \in Nat
          /\ completed \in Nat /\ failed \in Nat

Init == /\ cancelled = [r \in Runs |-> FALSE]
        /\ expired = [r \in Runs |-> FALSE]
        /\ rpc = [r \in Runs |-> "idle"]
        /\ outcome = [r \in Runs |-> "none"]
        /\ permits = [r \in Runs |-> 0]
        /\ cpc = [c \in Conns |-> "outside"]
        /\ owner = [c \in Conns |-> NoRun]
        /\ result = [c \in Conns |-> "none"]
        /\ late = [r \in Runs |-> 0]
        /\ accepted = 0 /\ rejected = 0 /\ active = 0
        /\ completed = 0 /\ failed = 0

-----------------------------------------------------------------------------
(* The environment: clients, the callers of run and the clock.             *)

Connect(c) ==
    /\ cpc[c] = "outside"
    /\ cpc' = [cpc EXCEPT ![c] = "backlog"]
    /\ UNCHANGED <<runVars, permits, owner, result, statVars>>

\* cancel() on the token of r's context; a caller may do so before it runs.
Cancel(r) ==
    /\ ~cancelled[r]
    /\ cancelled' = [cancelled EXCEPT ![r] = TRUE]
    /\ UNCHANGED <<expired, rpc, outcome, late, permits, connVars, statVars>>

\* The deadline of r's context passes, if it has one.
Expire(r) ==
    /\ ~expired[r]
    /\ expired' = [expired EXCEPT ![r] = TRUE]
    /\ UNCHANGED <<cancelled, rpc, outcome, late, permits, connVars, statVars>>

-----------------------------------------------------------------------------
(* Mutated forms of the operations, each a plausible slip in this code.    *)

\* OperationContext::run without its look at the token before it starts.
CheckNothing(r) ==
    /\ rpc[r] = "check"
    /\ rpc' = [rpc EXCEPT ![r] = "accept"]
    /\ UNCHANGED <<cancelled, expired, outcome, late, permits, connVars,
                   statVars>>

\* try_acquire_owned() refuses one connection too late.
AdmitOneTooMany(c) ==
    LET r == owner[c] IN
    /\ cpc[c] = "counted"
    /\ IF c \in Denied
          THEN /\ cpc' = [cpc EXCEPT ![c] = "refused"]
               /\ UNCHANGED <<permits, rpc>>
          ELSE /\ cpc' = [cpc EXCEPT ![c] = "spawned"]
               /\ permits' = [permits EXCEPT ![r] = IF @ = 0 THEN 0 ELSE @ - 1]
               /\ rpc' = [rpc EXCEPT ![r] = "check"]
    /\ UNCHANGED <<cancelled, expired, outcome, late, owner, result, statVars>>

\* The early return of a refusal without record_rejected.
RecordRejectedForgotten(c) ==
    /\ cpc[c] = "refused"
    /\ cpc' = [cpc EXCEPT ![c] = "closed"]
    /\ rpc' = [rpc EXCEPT ![owner[c]] = "check"]
    /\ UNCHANGED <<cancelled, expired, outcome, late, permits, owner, result,
                   statVars>>

\* open_context without connection_timeout: only the context can end it.
OpenTimeoutWithoutLimit(c) ==
    /\ cpc[c] = "opening"
    /\ expired[owner[c]]
    /\ result' = [result EXCEPT ![c] = "timeout"]
    /\ cpc' = [cpc EXCEPT ![c] = "finishing"]
    /\ UNCHANGED <<runVars, permits, owner, statVars>>

\* The relay itself is not run under the context, only its inner select!:
\* a shutdown that hangs then hangs for ever.
RelayCancelledInnerOnly(c) ==
    /\ cpc[c] = "relaying"
    /\ cancelled[owner[c]]
    /\ result' = [result EXCEPT ![c] = "cancelled"]
    /\ cpc' = [cpc EXCEPT ![c] = "shutting"]
    /\ UNCHANGED <<runVars, permits, owner, statVars>>

\* The permit is released inside the block that holds the active guard.
GuardDropAfterPermit(c) ==
    /\ cpc[c] = "finishing"
    /\ permits' = [permits EXCEPT ![owner[c]] = @ + 1]
    /\ cpc' = [cpc EXCEPT ![c] = "uncounted"]
    /\ UNCHANGED <<runVars, owner, result, statVars>>

-----------------------------------------------------------------------------
(* The loop of RelayRuntime::run.                                          *)

\* Entry: a fresh semaphore for this call.
RunStart(r) ==
    /\ rpc[r] = "idle"
    /\ permits' = [permits EXCEPT ![r] = MaxConnections]
    /\ rpc' = [rpc EXCEPT ![r] = "check"]
    /\ UNCHANGED <<cancelled, expired, outcome, late, connVars, statVars>>

Returned(r, error) ==
    /\ rpc' = [rpc EXCEPT ![r] = "returned"]
    /\ outcome' = [outcome EXCEPT ![r] = error]
    /\ UNCHANGED <<cancelled, expired, late, permits, connVars, statVars>>

\* OperationContext::run looks at the token before it polls accept().
RunCheck(r) ==
    /\ rpc[r] = "check"
    /\ \/ /\ cancelled[r]
          /\ Returned(r, "cancelled")
       \/ /\ ~cancelled[r]
          /\ rpc' = [rpc EXCEPT ![r] = "accept"]
          /\ UNCHANGED <<cancelled, expired, outcome, late, permits, connVars,
                         statVars>>

AcceptCancelled(r) ==
    /\ rpc[r] = "accept"
    /\ cancelled[r]
    /\ Returned(r, "cancelled")

\* timeout() polls accept() before it looks at the timer.
AcceptTimeout(r) ==
    /\ rpc[r] = "accept"
    /\ expired[r]
    /\ \A c \in Conns : cpc[c] # "backlog"
    /\ Returned(r, "timeout")

\* The listener fails; the tasks that run spawned go on.
AcceptFails(r) ==
    /\ rpc[r] = "accept"
    /\ Returned(r, "connection")

\* select! takes any branch that is ready, so a connection may still be
\* accepted although the context is cancelled or past its deadline.
Accept(r, c) ==
    /\ rpc[r] = "accept"
    /\ cpc[c] = "backlog"
    /\ rpc' = [rpc EXCEPT ![r] = "dispatch"]
    /\ cpc' = [cpc EXCEPT ![c] = "taken"]
    /\ owner' = [owner EXCEPT ![c] = r]
    /\ late' = [late EXCEPT ![r] = IF cancelled[r] THEN @ + 1 ELSE @]
    /\ UNCHANGED <<cancelled, expired, outcome, permits, result, statVars>>

-----------------------------------------------------------------------------
(* RelayRuntime::dispatch, which runs inside the loop.                     *)

RecordAccepted(c) ==
    /\ cpc[c] = "taken"
    /\ accepted' = accepted + 1
    /\ cpc' = [cpc EXCEPT ![c] = "counted"]
    /\ UNCHANGED <<runVars, permits, owner, result, rejected, active,
                   completed, failed>>

\* The access policy, then try_acquire_owned(), then the spawn.
Admit(c) ==
    LET r == owner[c] IN
    /\ cpc[c] = "counted"
    /\ IF c \in Denied \/ permits[r] = 0
          THEN /\ cpc' = [cpc EXCEPT ![c] = "refused"]
               /\ UNCHANGED <<permits, rpc>>
          ELSE /\ cpc' = [cpc EXCEPT ![c] = "spawned"]
               /\ permits' = [permits EXCEPT ![r] = @ - 1]
               /\ rpc' = [rpc EXCEPT ![r] = "check"]
    /\ UNCHANGED <<cancelled, expired, outcome, late, owner, result, statVars>>

\* The stream is dropped and the loop goes on.
RecordRejected(c) ==
    /\ cpc[c] = "refused"
    /\ rejected' = rejected + 1
    /\ cpc' = [cpc EXCEPT ![c] = "closed"]
    /\ rpc' = [rpc EXCEPT ![owner[c]] = "check"]
    /\ UNCHANGED <<cancelled, expired, outcome, late, permits, owner, result,
                   accepted, active, completed, failed>>

-----------------------------------------------------------------------------
(* The task of one connection: RelayConnection::run and relay_streams.     *)

StartConnection(c) ==
    /\ cpc[c] = "spawned"
    /\ active' = active + 1
    /\ cpc' = [cpc EXCEPT ![c] = "open"]
    /\ UNCHANGED <<runVars, permits, owner, result, accepted, rejected,
                   completed, failed>>

Goto(c, to) ==
    /\ cpc' = [cpc EXCEPT ![c] = to]
    /\ UNCHANGED <<runVars, permits, owner, result, statVars>>

Finish(c, res) ==
    /\ result' = [result EXCEPT ![c] = res]
    /\ cpc' = [cpc EXCEPT ![c] = "finishing"]
    /\ UNCHANGED <<runVars, permits, owner, statVars>>

\* The context.run() of open_channel: token first, then the attempt.
OpenCheck(c) ==
    /\ cpc[c] = "open"
    /\ \/ cancelled[owner[c]] /\ Finish(c, "cancelled")
       \/ ~cancelled[owner[c]] /\ Goto(c, "opening")

OpenCancelled(c) ==
    /\ cpc[c] = "opening"
    /\ cancelled[owner[c]]
    /\ Finish(c, "cancelled")

\* connection_timeout, or the context's own deadline if that is earlier.
OpenTimeout(c) ==
    /\ cpc[c] = "opening"
    /\ Finish(c, "timeout")

OpenFails(c) ==
    /\ cpc[c] = "opening"
    /\ Finish(c, "channel")

Opened(c) ==
    /\ cpc[c] = "opening"
    /\ Goto(c, "opened")

\* The context.run() around the relay: token first, then the copy.
RelayCheck(c) ==
    /\ cpc[c] = "opened"
    /\ \/ cancelled[owner[c]] /\ Finish(c, "cancelled")
       \/ ~cancelled[owner[c]] /\ Goto(c, "relaying")

CopyEnds(c) ==
    /\ cpc[c] = "relaying"
    /\ \E res \in {"ok", "channel"} : Finish(c, res)

\* The inner select! sees the token: shut both streams down.
BeginShutdown(c) ==
    /\ cpc[c] = "relaying"
    /\ cancelled[owner[c]]
    /\ Goto(c, "shutting")

ShutdownDone(c) ==
    /\ cpc[c] = "shutting"
    /\ Finish(c, "cancelled")

\* The outer select! sees the token, shutdown in progress or not.
RelayCancelled(c) ==
    /\ cpc[c] \in {"relaying", "shutting"}
    /\ cancelled[owner[c]]
    /\ Finish(c, "cancelled")

RelayTimeout(c) ==
    /\ cpc[c] \in {"relaying", "shutting"}
    /\ expired[owner[c]]
    /\ Finish(c, "timeout")

\* The block that holds the active guard ends.
GuardDrop(c) ==
    /\ cpc[c] = "finishing"
    /\ active' = active - 1
    /\ cpc' = [cpc EXCEPT ![c] = "uncounted"]
    /\ UNCHANGED <<runVars, permits, owner, result, accepted, rejected,
                   completed, failed>>

RecordCompleted(c) ==
    /\ cpc[c] = "uncounted"
    /\ completed' = completed + 1
    /\ cpc' = [cpc EXCEPT ![c] =
                 IF result[c] \in Failing THEN "failing" ELSE "recorded"]
    /\ UNCHANGED <<runVars, permits, owner, result, accepted, rejected,
                   active, failed>>

RecordFailed(c) ==
    /\ cpc[c] = "failing"
    /\ failed' = failed + 1
    /\ cpc' = [cpc EXCEPT ![c] = "recorded"]
    /\ UNCHANGED <<runVars, permits, owner, result, accepted, rejected,
                   active, completed>>

\* The task ends and its permit is dropped.
ReleasePermit(c) ==
    /\ cpc[c] = "recorded"
    /\ permits' = [permits EXCEPT ![owner[c]] = @ + 1]
    /\ cpc' = [cpc EXCEPT ![c] = "done"]
    /\ UNCHANGED <<runVars, owner, result, statVars>>

-----------------------------------------------------------------------------
Environment == \/ \E c \in Conns : Connect(c)
               \/ \E r \in Runs : Cancel(r) \/ Expire(r)

\* What a run loop does without waiting for a peer.
RunStep(r) == RunCheck(r) \/ AcceptCancelled(r) \/ AcceptTimeout(r)

DispatchStep(c) == RecordAccepted(c) \/ Admit(c) \/ RecordRejected(c)

\* What a task does without waiting for the server or the peers.
TaskStep(c) == \/ StartConnection(c) \/ OpenCheck(c) \/ OpenCancelled(c)
               \/ OpenTimeout(c) \/ RelayCheck(c) \/ RelayCancelled(c)
               \/ RelayTimeout(c) \/ GuardDrop(c) \/ RecordCompleted(c)
               \/ RecordFailed(c) \/ ReleasePermit(c)

\* What it does when they answer, or on a branch select! need not take.
PeerStep(c) == \/ OpenFails(c) \/ Opened(c) \/ CopyEnds(c)
               \/ BeginShutdown(c) \/ ShutdownDone(c)

Next == \/ Environment
        \/ \E r \in Runs : \/ RunStart(r) \/ RunStep(r) \/ AcceptFails(r)
                           \/ \E c \in Conns : Accept(r, c)
        \/ \E c \in Conns : DispatchStep(c) \/ TaskStep(c) \/ PeerStep(c)

\* Scheduled tasks run and timers fire; clients, servers, listeners and the
\* callers of cancel() owe nothing.
Fairness == /\ \A r \in Runs : WF_vars(RunStep(r))
            /\ \A c \in Conns : WF_vars(DispatchStep(c)) /\ WF_vars(TaskStep(c))

SafetySpec == Init /\ [][Next]_vars

Spec == SafetySpec /\ Fairness

-----------------------------------------------------------------------------
(* Properties *)

In(S) == {c \in Conns : cpc[c] \in S}
Held(r) == {c \in Conns : owner[c] = r /\ cpc[c] \in Holding}

\* max_connections, as the type says of it: "Limits applied to each
\* SshForwardingRelay" (relay.rs, ForwardingRelayOptions).  The number of
\* connections being relayed, which stats() reports as active, is within it.
ActiveWithinLimit == active <= MaxConnections

\* No run has more tasks alive than its semaphore had permits, and no permit
\* is lost: what tasks hold and what is free add up to the limit.
PermitsConserved ==
    \A r \in Runs : rpc[r] # "idle" =>
        permits[r] + Cardinality(Held(r)) = MaxConnections

\* Whatever the threads are in the middle of, each accepted connection is in
\* one place only: turned away, completed, or somewhere in dispatch() or in
\* a task that has not recorded it yet (relay.rs, dispatch and RelayStats).
Unrecorded == {"counted", "refused", "spawned", "uncounted"} \cup Working
StatsBalanced ==
    accepted = rejected + completed + Cardinality(In(Unrecorded))

\* At most one connection is accepted by a run after its cancellation: the
\* one accept() that the unbiased select! may still let win.
OneLateAccept == \A r \in Runs : late[r] <= 1

\* README: cancelling the relay cancels both the accept loop and the relays
\* in progress.  The run returns and every task it spawned ends, with its
\* permit back in the semaphore, even if a shutdown or a peer hangs.
CancelDrains ==
    \A r \in Runs :
        cancelled[r] /\ rpc[r] # "idle"
            ~> rpc[r] = "returned" /\ Held(r) = {} /\ permits[r] = MaxConnections

\* README: the opening of each channel is bounded by connection_timeout.  A
\* server that never answers cannot hold a slot for ever.
OpeningEnds ==
    \A c \in Conns : cpc[c] = "spawned" ~> cpc[c] \in {"relaying", "done"}

\* The inductive invariant: who owns which connection, what each counter
\* counts, permits against tasks, and why a second late accept is impossible.
Recorded == {"failing", "recorded", "done"}
RelayInv ==
    /\ TypeOK
    /\ \A c \in Conns : owner[c] = NoRun <=> cpc[c] \in Waiting
    /\ \A c \in Conns : owner[c] # NoRun => rpc[owner[c]] # "idle"
    /\ \A r \in Runs : late[r] # 0 =>
           late[r] = 1 /\ cancelled[r] /\ rpc[r] # "accept"
    /\ \A c \in Conns : cpc[c] = "failing" => result[c] \in Failing
    /\ active = Cardinality(In(Working))
    /\ completed = Cardinality(In(Recorded))
    /\ failed = Cardinality({c \in In({"recorded", "done"}) :
                               result[c] \in Failing})
    /\ StatsBalanced
    /\ PermitsConserved
=============================================================================
