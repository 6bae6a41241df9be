------------------------ MODULE MCForwardedChannels ------------------------
(* Two channels of one kind, to fill a queue of one and block its handler,  *)
(* and one of the other kind behind them.                                   *)
EXTENDS ForwardedChannels

OpensFew == [k \in Kinds |-> IF k = "tcpip" THEN 2 ELSE 1]
=============================================================================
