------------------------ MODULE MCSessionOperations ------------------------
(* Small timeouts for the session's operations. *)
EXTENDS SessionOperations

MCTimeouts == [connect |-> 1, authentication |-> 1, operation |-> 2]
=============================================================================
