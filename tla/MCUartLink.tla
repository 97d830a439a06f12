------------------------------ MODULE MCUartLink ------------------------------
(* Instances of UartLink for TLC.                                           *)
EXTENDS UartLink

CONSTANTS current, former

MCNoOld == {}
MCOld == {former}

\* How many packages each end numbers.
MCOne  == [n \in Nodes |-> 1]
MCTwo  == [n \in Nodes |-> 2]
MCHost == [n \in Nodes |-> IF n = "host" THEN 2 ELSE 1]
MCHostOnly == [n \in Nodes |-> IF n = "host" THEN 2 ELSE 0]
===============================================================================
