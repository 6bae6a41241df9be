--------------------------- MODULE AbstractSocks5 ---------------------------
(***************************************************************************)
(* What a SOCKS5 proxy promises each of its clients (core/socks5.rs): what *)
(* it says, in which order, and for whom it opens an SSH channel.  When it *)
(* speaks, waits or gives up is left open: a dialogue may stop anywhere.   *)
(***************************************************************************)
EXTENDS Naturals, Sequences

CONSTANTS Conns,          \* clients
          Scripts,        \* what a client may have to say
          Silent,         \* the script of a client that is not there yet
          RequireLogin    \* Socks5Authentication::UsernamePassword

VARIABLES says,     \* says[c]: what the client at c is going to send
          told,     \* told[c]: the messages it got, in order
          tunnel    \* tunnel[c]: its direct-tcpip channel

vars == <<says, told, tunnel>>

Failures == {"GeneralFailure", "CommandNotSupported", "AddressTypeNotSupported"}
Replies == Failures \cup {"Succeeded"}

Method == IF RequireLogin THEN "userPassword" ELSE "noAuth"

\* The client may issue its request.
Admitted(c) ==
    told[c] = IF RequireLogin THEN <<"userPassword", "accepted">>
                              ELSE <<"noAuth">>

\* A request that can be carried out: a target, and the command CONNECT.
Complete(q) == /\ q.wellFormed
               /\ q.address \in {"ip", "name", "blank"}
               /\ q.port # 0
Reachable(q) == Complete(q) /\ q.command = "connect" /\ q.address # "blank"

Init == /\ says = [c \in Conns |-> Silent]
        /\ told = [c \in Conns |-> <<>>]
        /\ tunnel = [c \in Conns |-> "none"]

Tell(c, message) == told' = [told EXCEPT ![c] = Append(@, message)]

Arrive(c) == /\ says[c] = Silent
             /\ \E s \in Scripts : says' = [says EXCEPT ![c] = s]
             /\ UNCHANGED <<told, tunnel>>

SelectMethod(c) ==
    /\ says[c] # Silent /\ told[c] = <<>>
    /\ Tell(c, IF Method \in says[c].methods THEN Method ELSE "noAcceptable")
    /\ UNCHANGED <<says, tunnel>>

JudgeLogin(c) ==
    /\ told[c] = <<"userPassword">>
    /\ Tell(c, IF says[c].login = "right" THEN "accepted" ELSE "rejected")
    /\ UNCHANGED <<says, tunnel>>

OpenTunnel(c) ==
    /\ Admitted(c) /\ tunnel[c] = "none"
    /\ Reachable(says[c].request)
    /\ tunnel' = [tunnel EXCEPT ![c] = "open"]
    /\ UNCHANGED <<says, told>>

\* One reply: success to who has a tunnel, else the code that fits.
Grant(c) == /\ Admitted(c) /\ tunnel[c] = "open"
            /\ Tell(c, "Succeeded")
            /\ UNCHANGED <<says, tunnel>>

Fitting(code, q) ==
    CASE code = "CommandNotSupported" -> Complete(q) /\ q.command # "connect"
      [] code = "AddressTypeNotSupported" -> q.wellFormed /\ q.address = "unknown"
      [] OTHER -> TRUE

Refuse(c) == /\ Admitted(c) /\ tunnel[c] = "none"
             /\ \E code \in Failures : /\ Fitting(code, says[c].request)
                                       /\ Tell(c, code)
             /\ UNCHANGED <<says, tunnel>>

CloseTunnel(c) == /\ tunnel[c] = "open"
                  /\ tunnel' = [tunnel EXCEPT ![c] = "closed"]
                  /\ UNCHANGED <<says, told>>

Next == \E c \in Conns : \/ Arrive(c) \/ SelectMethod(c) \/ JudgeLogin(c)
                         \/ OpenTunnel(c) \/ Grant(c) \/ Refuse(c)
                         \/ CloseTunnel(c)

Spec == Init /\ [][Next]_vars
=============================================================================
