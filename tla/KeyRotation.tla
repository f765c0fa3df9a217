----------------------------- MODULE KeyRotation -----------------------------
(***************************************************************************)
(* What a rotation of the operational keys promises the boards of a link.  *)
(* One board offers new keys while all agree; a peer installs what it was  *)
(* offered, once; the board that offers them commits only after its peer   *)
(* has; and a rotation counts as confirmed only while all use its keys.    *)
(* (README: "The winner becomes the sole OTAR sender"; "authenticated      *)
(* new-key traffic that proves both peers recovered".)                     *)
(***************************************************************************)
CONSTANTS Boards, Keys, BootKeys, NoKeys

VARIABLES keys,   \* the operational keys a board uses
          offer,  \* the keys it has offered to its peer
          known   \* whether it counts the rotation as confirmed

vars == <<keys, offer, known>>

Agreed == \A m, n \in Boards : keys[m] = keys[n]

Init ==
  /\ keys = [n \in Boards |-> BootKeys]
  /\ offer = [n \in Boards |-> NoKeys]
  /\ known = [n \in Boards |-> FALSE]

Offer(n, k) ==
  /\ Agreed /\ keys[n] # k
  /\ \A m \in Boards : offer[m] = NoKeys
  /\ offer' = [offer EXCEPT ![n] = k]
  /\ UNCHANGED <<keys, known>>

Install(n, m) ==
  /\ offer[m] \notin {NoKeys, keys[n]}
  /\ keys' = [keys EXCEPT ![n] = offer[m]]
  /\ known' = [known EXCEPT ![n] = FALSE]
  /\ UNCHANGED offer

Commit(n) ==
  /\ offer[n] # NoKeys
  /\ \A m \in Boards \ {n} : keys[m] = offer[n]
  /\ keys' = [keys EXCEPT ![n] = offer[n]]
  /\ offer' = [offer EXCEPT ![n] = NoKeys]
  /\ known' = [known EXCEPT ![n] = FALSE]

Confirm(n) ==
  /\ Agreed /\ keys[n] # BootKeys
  /\ known' = [known EXCEPT ![n] = TRUE]
  /\ UNCHANGED <<keys, offer>>

Next == \E n \in Boards :
  \/ \E k \in Keys \ {NoKeys} : Offer(n, k)
  \/ \E m \in Boards \ {n} : Install(n, m)
  \/ Commit(n)
  \/ Confirm(n)

Spec == Init /\ [][Next]_vars
=============================================================================
