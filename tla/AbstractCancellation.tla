------------------------ MODULE AbstractCancellation ------------------------
(***************************************************************************)
(* What a cancellation token promises to the tasks that wait on it,        *)
(* without the notification machinery: a one-way flag, and a wait that     *)
(* returns only once the flag is up and that does return then, unless the  *)
(* waiting future is dropped first.                                        *)
(***************************************************************************)
CONSTANT Tasks    \* the tasks that may call cancelled()

VARIABLES flag,   \* cancel() has taken effect
          wait    \* where each task is with respect to cancelled()

vars == <<flag, wait>>

Init == /\ flag = FALSE
        /\ wait = [t \in Tasks |-> "out"]

Cancel == /\ flag' = TRUE
          /\ UNCHANGED wait

Enter(t) == /\ wait[t] \in {"out", "returned"}
            /\ wait' = [wait EXCEPT ![t] = "waiting"]
            /\ UNCHANGED flag

Return(t) == /\ wait[t] = "waiting"
             /\ flag
             /\ wait' = [wait EXCEPT ![t] = "returned"]
             /\ UNCHANGED flag

Abandon(t) == /\ wait[t] = "waiting"
              /\ wait' = [wait EXCEPT ![t] = "out"]
              /\ UNCHANGED flag

Next == \/ Cancel
        \/ \E t \in Tasks : Enter(t) \/ Return(t) \/ Abandon(t)

SafetySpec == Init /\ [][Next]_vars

Spec == SafetySpec /\ \A t \in Tasks : WF_vars(Return(t))
=============================================================================
