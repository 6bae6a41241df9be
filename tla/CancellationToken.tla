------------------------- MODULE CancellationToken -------------------------
(***************************************************************************)
(* CancellationToken of core/operation.rs: an AtomicBool and a tokio       *)
(* Notify shared by every clone of the token.  cancel() is two steps (swap *)
(* the flag, then wake the registered waiters) and cancelled() is a loop   *)
(* of three (create a Notified, look at the flag again, await), so the     *)
(* calls of several threads interleave between them.                       *)
(*                                                                         *)
(* tokio's Notify is external and modelled from its use here: a Notified   *)
(* is stamped with the number of notify_waiters() calls made before it was *)
(* created, and completes as soon as that number has grown, whether or not *)
(* it had been polled by then.                                             *)
(***************************************************************************)
EXTENDS Naturals

CONSTANTS Tasks,       \* tasks that call cancelled()
          Cancellers   \* threads that call cancel()

VARIABLES flag,        \* CancellationState.cancelled
          calls,       \* notify_waiters() calls the Notify has seen
          ticket,      \* ticket[t]: calls when t's Notified was created
          pc,          \* pc[t]: where t is inside cancelled()
          cpc          \* cpc[c]: where c is inside cancel()

tokenVars == <<flag, calls, ticket, pc, cpc>>

TaskPC == {"idle", "enter", "loop", "recheck", "await", "parked", "woken",
           "done"}
CancellerPC == {"idle", "notify", "returned"}

TokenTypeOK == /\ flag \in BOOLEAN
               /\ calls \in Nat
               /\ ticket \in [Tasks -> Nat]
               /\ pc \in [Tasks -> TaskPC]
               /\ cpc \in [Cancellers -> CancellerPC]

TokenInit == /\ flag = FALSE
             /\ calls = 0
             /\ ticket = [t \in Tasks |-> 0]
             /\ pc = [t \in Tasks |-> "idle"]
             /\ cpc = [c \in Cancellers |-> "idle"]

-----------------------------------------------------------------------------
(* Mutated forms of the operations, each a plausible slip in this code.    *)

\* The flag is not looked at again once the Notified exists.
RecheckNothing(t) ==
    /\ pc[t] = "recheck"
    /\ pc' = [pc EXCEPT ![t] = "await"]
    /\ UNCHANGED <<flag, calls, ticket, cpc>>

\* notify_waiters() marks the call but leaves registered waiters parked.
NotifyNobody(c) ==
    /\ cpc[c] = "notify"
    /\ calls' = calls + 1
    /\ cpc' = [cpc EXCEPT ![c] = "returned"]
    /\ UNCHANGED <<flag, ticket, pc>>

-----------------------------------------------------------------------------
(* cancelled(), one step per access to shared state.                       *)

\* The future is created; nothing runs until it is polled.
Call(t) ==
    /\ pc[t] \in {"idle", "done"}
    /\ pc' = [pc EXCEPT ![t] = "enter"]
    /\ UNCHANGED <<flag, calls, ticket, cpc>>

FastCheck(t) ==
    /\ pc[t] = "enter"
    /\ pc' = [pc EXCEPT ![t] = IF flag THEN "done" ELSE "loop"]
    /\ UNCHANGED <<flag, calls, ticket, cpc>>

CreateNotified(t) ==
    /\ pc[t] = "loop"
    /\ ticket' = [ticket EXCEPT ![t] = calls]
    /\ pc' = [pc EXCEPT ![t] = "recheck"]
    /\ UNCHANGED <<flag, calls, cpc>>

Recheck(t) ==
    /\ pc[t] = "recheck"
    /\ pc' = [pc EXCEPT ![t] = IF flag THEN "done" ELSE "await"]
    /\ UNCHANGED <<flag, calls, ticket, cpc>>

\* The first poll of the Notified: complete if a notification came since it
\* was created, registered as a waiter otherwise.
PollNotified(t) ==
    /\ pc[t] = "await"
    /\ pc' = [pc EXCEPT ![t] = IF calls # ticket[t] THEN "loop" ELSE "parked"]
    /\ UNCHANGED <<flag, calls, ticket, cpc>>

\* A waiter that notify_waiters() woke is polled again.
Resume(t) ==
    /\ pc[t] = "woken"
    /\ pc' = [pc EXCEPT ![t] = "loop"]
    /\ UNCHANGED <<flag, calls, ticket, cpc>>

\* A select! drops the future because another branch completed; that can
\* only be at a point where the future is not running.
Drop(t) ==
    /\ pc[t] \in {"enter", "parked", "woken"}
    /\ pc' = [pc EXCEPT ![t] = "idle"]
    /\ UNCHANGED <<flag, calls, ticket, cpc>>

-----------------------------------------------------------------------------
(* cancel(), callable any number of times on any clone.                    *)

Swap(c) ==
    /\ cpc[c] # "notify"
    /\ flag' = TRUE
    /\ cpc' = [cpc EXCEPT ![c] = IF flag THEN "returned" ELSE "notify"]
    /\ UNCHANGED <<calls, ticket, pc>>

NotifyWaiters(c) ==
    /\ cpc[c] = "notify"
    /\ calls' = calls + 1
    /\ pc' = [t \in Tasks |-> IF pc[t] = "parked" THEN "woken" ELSE pc[t]]
    /\ cpc' = [cpc EXCEPT ![c] = "returned"]
    /\ UNCHANGED <<flag, ticket>>

-----------------------------------------------------------------------------
\* The steps of a running poll: tokio polls a woken task, and a poll runs on
\* until the future is parked or done.
Poll(t) == \/ FastCheck(t)
           \/ CreateNotified(t)
           \/ Recheck(t)
           \/ PollNotified(t)
           \/ Resume(t)

TokenNext == \/ \E t \in Tasks : Call(t) \/ Poll(t) \/ Drop(t)
             \/ \E c \in Cancellers : Swap(c) \/ NotifyWaiters(c)

\* A future being polled makes progress, and a thread inside cancel() reaches
\* its second statement.  Nobody has to call either.
TokenFairness == /\ \A t \in Tasks : WF_tokenVars(Poll(t))
                 /\ \A c \in Cancellers : WF_tokenVars(NotifyWaiters(c))

TokenSafetySpec == TokenInit /\ [][TokenNext]_tokenVars

TokenSpec == TokenSafetySpec /\ TokenFairness

-----------------------------------------------------------------------------
(* Properties *)

\* No lost wake-up (operation.rs, cancelled() and cancel()): a task is parked
\* on a cancelled token only while some thread is between the swap and
\* notify_waiters(), so the call that will wake it is still to come.
NoLostWakeup ==
    \A t \in Tasks :
        pc[t] = "parked" /\ flag => \E c \in Cancellers : cpc[c] = "notify"

\* "Calling this method more than once is harmless" (cancel()): however many
\* threads call cancel(), in whatever order, waiters are notified once.
NotifiedOnce == calls <= 1

Waiting == {"enter", "loop", "recheck", "await", "parked", "woken"}

AbstractWait ==
    [t \in Tasks |-> CASE pc[t] = "idle" -> "out"
                       [] pc[t] \in Waiting -> "waiting"
                       [] pc[t] = "done" -> "returned"]

Abs == INSTANCE AbstractCancellation WITH wait <- AbstractWait

\* The token implements the abstract one: cancelled() returns only on a
\* cancelled token, the flag never goes down, and a wait on a cancelled token
\* that is not dropped does return.
ImplementsAbstract == Abs!Spec

\* Why none of this can go wrong, as an inductive invariant: the single
\* notification is tied to the single swap that saw FALSE, and a task that is
\* parked was stamped before that notification.
TokenInv ==
    /\ TokenTypeOK
    /\ ~flag => calls = 0 /\ \A c \in Cancellers : cpc[c] # "notify"
    /\ \A c \in Cancellers : cpc[c] = "notify" => calls = 0
    /\ \A c, d \in Cancellers : cpc[c] = "notify" /\ cpc[d] = "notify" => c = d
    /\ flag /\ calls = 0 => \E c \in Cancellers : cpc[c] = "notify"
    /\ calls \in {0, 1}
    /\ \A t \in Tasks : ticket[t] <= calls
    /\ \A t \in Tasks : pc[t] = "await" => ticket[t] = 0
    /\ \A t \in Tasks : pc[t] = "parked" => calls = 0
    /\ \A t \in Tasks : pc[t] = "done" => flag
=============================================================================
