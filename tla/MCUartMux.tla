------------------------------ MODULE MCUartMux ------------------------------
(* UartMux with data that repeat after three. *)
EXTENDS UartMux

MCSymbol == 10 .. 12
MCFirst == <<10, 10, 10>>
MCFollowing == [s \in MCSymbol |-> IF s = 12 THEN 10 ELSE s + 1]
=============================================================================
