----------------------------- MODULE MCLinkControl -----------------------------
(* Instances of LinkControl.                                                 *)
EXTENDS LinkControl

Fresh  == [vr |-> 0, lockout |-> FALSE, retransmit |-> FALSE]
Farms  == {[Fresh EXCEPT !.vr = 1],
           [Fresh EXCEPT !.vr = 1, !.lockout = TRUE],
           [Fresh EXCEPT !.vr = 1, !.retransmit = TRUE]}
EveryFault  == {"restart", "exhausted", "consumed", "silent", "operator", "capture"}
OnlyCapture == {"capture"}
================================================================================
