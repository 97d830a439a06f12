----------------------------- MODULE MCHdcChannel -----------------------------
(* Instances of HdcChannel for TLC: c1 names a device, c2 does not.         *)
EXTENDS HdcChannel

CONSTANTS c1, c2

MCBound == {c1}
MCLocal == {c2}
MCBoth == {c1, c2}
MCNone == {}
===============================================================================
