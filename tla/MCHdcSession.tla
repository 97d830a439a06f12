----------------------------- MODULE MCHdcSession -----------------------------
(* Instances of HdcSession for TLC: the sessions are model values.          *)
EXTENDS HdcSession

CONSTANTS s1, s2

\* Sessions of the two configurations of a process.
MCTwo == {s1, s2}
MCOne == {s1}
MCNoTcp == {}
===============================================================================
