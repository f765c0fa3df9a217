------------------------------ MODULE MCRecovery ------------------------------
(***************************************************************************)
(* Instances of Recovery.  With one value every election is a tie, which   *)
(* the spacecraft identifier decides; with two, either board may win.      *)
(***************************************************************************)
EXTENDS Recovery

OnlyTies     == {1}
EitherWins   == {1, 2}
EveryFault   == {"exhausted", "lockout", "dirty", "reboot", "timeout"}
Exhaustion   == {"exhausted"}
LateAnswer   == {"timeout"}

=============================================================================
