------------------------------ MODULE MCSocks5 ------------------------------
(* Scripts for TLC.  Greeting, login and request vary one at a time: the    *)
(* first that is wrong ends the dialogue.                                   *)
EXTENDS Socks5

Asks(command, address, port) ==
    [wellFormed |-> TRUE, command |-> command, address |-> address,
     port |-> port]

GoodRequest == Asks("connect", "name", 1)

Script(methods, login, request) ==
    [greeting |-> 5, methods |-> methods, login |-> login,
     request |-> request]

Both == {"noAuth", "userPassword"}

\* Refused for its blank name, its kind of address, its command and its
\* header; the first error found decides the reply.
BadRequests == {Asks("connect", "blank", 1), Asks("other", "unknown", 0),
                Asks("other", "ip", 1),
                [Asks("other", "unknown", 0) EXCEPT !.wellFormed = FALSE]}

MCScripts ==
    {Script(m, "right", GoodRequest) : m \in {Both, {"noAuth"}}}
      \cup {Script(Both, l, GoodRequest) : l \in {"wrongName", "badVersion"}}
      \cup {Script(Both, "right", q) : q \in BadRequests}
      \cup {[Script(Both, "right", GoodRequest) EXCEPT !.greeting = 4]}
=============================================================================
