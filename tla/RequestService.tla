---------------------------- MODULE RequestService ----------------------------
(***************************************************************************)
(* What the command protocol promises whoever presses REQUEST: requests    *)
(* are settled in the order in which they were made, each at most once: it *)
(* is served, or it is refused or lost for good.  One is served at a time. *)
(***************************************************************************)
EXTENDS Naturals

CONSTANT NoRequest

VARIABLES issued,   \* requests made, numbered from 1
          settled,  \* all up to this one are served, refused or lost
          serving   \* the request being served

vars == <<issued, settled, serving>>

Init == issued = 0 /\ settled = 0 /\ serving = NoRequest

(* A request that is made is on its way, or lost at once.                  *)
Ask ==
  /\ issued' = issued + 1
  /\ settled' \in {settled, issued'}
  /\ UNCHANGED serving

(* Requests are refused or lost.                                           *)
Settle ==
  /\ settled' \in (settled + 1)..issued
  /\ UNCHANGED <<issued, serving>>

(* Requests that a served one overtakes were lost.                         *)
Serve(id) ==
  /\ id \in (settled + 1)..issued
  /\ serving = NoRequest
  /\ serving' = id
  /\ settled' \in id..issued
  /\ UNCHANGED issued

(* The service ends, or is cut short together with what was on its way.    *)
Finish ==
  /\ serving' = NoRequest
  /\ settled' \in {settled, issued}
  /\ UNCHANGED issued

(* Whoever asks has forgotten the requests made, and counts anew.          *)
StartOver ==
  /\ issued' = 0 /\ settled' = 0
  /\ UNCHANGED serving

Next == Ask \/ Settle \/ (\E id \in 1..issued : Serve(id)) \/ Finish \/ StartOver

Spec == Init /\ [][Next]_vars
=============================================================================
