-------------------------- MODULE MCAuthentication --------------------------
(* Every plan of up to three methods. *)
EXTENDS Authentication

MCPlans == UNION {[1..n -> Kinds] : n \in 0..3}
=============================================================================
