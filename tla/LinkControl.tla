----------------------------- MODULE LinkControl -----------------------------
(***************************************************************************)
(* Supervision of one direction of the COP-1 link: the worker follows the  *)
(* CLCWs of its peer, tells a peer that restarted from datagrams that come *)
(* late, takes V(S) from a CLCW when the link has failed or the peer has   *)
(* restarted, and lets the operator resynchronize by hand.                 *)
(*                                                                         *)
(* The FOP of this board and the FARM of the peer are the CCSDS library's  *)
(* and external; the datagrams that carry CLCWs are reordered, lost and up *)
(* to MaxDelay late on the network.  They then wait in rx_queue until the  *)
(* worker drains it: at once, but for a capture, in which the worker       *)
(* sleeps for as long as it takes.  Time is counted in steps of the        *)
(* confirmation time.                                                      *)
(***************************************************************************)
EXTENDS Integers, FiniteSets, Sequences

CONSTANTS Confirm,     \* CLCW_DIVERGENCE_CONFIRM_MS
          MaxDelay,    \* the longest delay of a datagram on the network
          RxDepth,     \* RX_QUEUE_DEPTH
          FarmWindow,  \* how far from V(R) a frame may be without a lockout
          MaxSequence, \* bound: sequence numbers (they do not wrap)
          MaxClcws,    \* bound: datagrams on their way or waiting
          MaxFaults,   \* bound: faults and operator actions
          Faults,      \* the faults that may happen
          FirstFarms   \* what the peer's FARM may be when this board starts

(* The network does not delay a datagram for as long as a divergence is    *)
(* confirmed in.                                                           *)
ASSUME TimeAssumption == Confirm \in Nat /\ MaxDelay \in Nat /\ MaxDelay < Confirm
ASSUME WindowAssumption == FarmWindow \in Nat \ {0}
ASSUME BoundsAssumption ==
  RxDepth \in Nat /\ MaxSequence \in Nat /\ MaxClcws \in Nat /\ MaxFaults \in Nat

VARIABLES
  phase,        \* link_sync_phase
  peer_ready,
  initial,      \* initial_link_acquisition
  divergence,   \* clcw_divergence; and (history) real: the link was out of step
                \* when it was first seen, or the peer has restarted since; held:
                \* a capture has held the worker since
  new,          \* new_clcw: the last CLCW, if it came since the last tick
  status,       \* a peer status waits in the router queue
  fop,          \* state, V(S), the oldest number not acknowledged
  farm,         \* the peer's V(R), lockout and retransmit flags
  clcws,        \* datagrams on their way from the peer
  rx_queue,     \* datagrams received and not handled yet
  capturing,    \* the worker is in execute_send_operation
  faults

control == <<phase, peer_ready, initial>>
ingress == <<clcws, rx_queue>>
vars == <<phase, peer_ready, initial, divergence, new, status, fop, farm,
          clcws, rx_queue, capturing, faults>>

Phases    == {"CLCW", "UNLOCK", "READY", "FAILED"}
Sequence  == 0..MaxSequence
FopStates == {"waiting", "active", "unlocking", "setting", "initial", "terminal"}
Fop       == [state : FopStates, vs : Sequence, acked : Sequence]
Farm      == [vr : Sequence, lockout : BOOLEAN, retransmit : BOOLEAN]
ASSUME FarmsAssumption == FirstFarms \subseteq Farm

Flags     == {"clean", "retransmit", "lockout"}
NoClcw    == [valid |-> FALSE, report |-> 0, flag |-> "clean"]
Undiverged == [observed |-> FALSE, report |-> 0, age |-> 0, real |-> FALSE, held |-> FALSE]
Datagram  == [report : Sequence, flag : Flags, status : BOOLEAN, age : 0..MaxDelay]

(* Phases, counters and flags have their types, and nothing on its way is  *)
(* older than the network keeps it.                                        *)
TypeOK ==
  /\ phase \in Phases /\ peer_ready \in BOOLEAN /\ initial \in BOOLEAN
  /\ divergence \in [observed : BOOLEAN, report : Sequence, age : 0..Confirm,
                     real : BOOLEAN, held : BOOLEAN]
  /\ status \in BOOLEAN
  /\ new \in [valid : BOOLEAN, report : Sequence, flag : Flags]
  /\ fop \in Fop /\ farm \in Farm
  /\ clcws \subseteq Datagram
  /\ rx_queue \in Seq(Datagram) /\ Len(rx_queue) <= RxDepth
  /\ capturing \in BOOLEAN
  /\ faults \in 0..MaxFaults

Init ==
  /\ phase = "CLCW" /\ peer_ready = FALSE /\ initial = TRUE
  /\ divergence = Undiverged
  /\ new = NoClcw /\ status = FALSE
  /\ fop = [state |-> "waiting", vs |-> 0, acked |-> 0]
  /\ farm \in FirstFarms
  /\ clcws = {} /\ rx_queue = <<>> /\ capturing = FALSE /\ faults = 0

-----------------------------------------------------------------------------
(* The library and the network (external).                                 *)

Outstanding == fop.acked # fop.vs
InStep      == farm.vr \in fop.acked..fop.vs /\ ~farm.lockout

(* The worker is asleep in a capture.                                      *)
Awake == ~capturing

(* A frame is sent in sequence; it stays outstanding until a CLCW          *)
(* acknowledges it.                                                        *)
SendFrame ==
  /\ Awake
  /\ fop.state = "active" /\ fop.vs < MaxSequence /\ fop.vs - fop.acked < FarmWindow
  /\ fop' = [fop EXCEPT !.vs = @ + 1]
  /\ UNCHANGED <<control, divergence, new, status, farm, ingress, capturing, faults>>

(* An outstanding frame, or a retransmission, reaches the FARM.            *)
FrameArrives(n) ==
  /\ fop.state = "active" /\ n \in fop.acked..(fop.vs - 1)
  /\ ~farm.lockout
  /\ farm' = IF n = farm.vr THEN [farm EXCEPT !.vr = n + 1, !.retransmit = FALSE]
             ELSE IF n \in (farm.vr + 1)..(farm.vr + FarmWindow - 1)
             THEN [farm EXCEPT !.retransmit = TRUE]
             ELSE IF n \in (farm.vr - FarmWindow)..farm.vr THEN farm
             ELSE [farm EXCEPT !.lockout = TRUE]
  /\ farm' # farm
  /\ UNCHANGED <<control, divergence, new, status, fop, ingress, capturing, faults>>

(* A control frame reaches the FARM.                                       *)
ControlArrives ==
  /\ \/ /\ fop.state = "unlocking"
        /\ farm' = [farm EXCEPT !.lockout = FALSE, !.retransmit = FALSE]
     \/ /\ fop.state = "setting" /\ ~farm.lockout
        /\ farm' = [farm EXCEPT !.vr = fop.vs, !.retransmit = FALSE]
  /\ farm' # farm
  /\ UNCHANGED <<control, divergence, new, status, fop, ingress, capturing, faults>>

Flag == IF farm.lockout THEN "lockout" ELSE IF farm.retransmit THEN "retransmit" ELSE "clean"

(* Every datagram of the peer carries a CLCW; some a peer status too.      *)
Feedback(s) ==
  /\ Cardinality(clcws) + Len(rx_queue) < MaxClcws
  /\ clcws' = clcws \cup {[report |-> farm.vr, flag |-> Flag, status |-> s, age |-> 0]}
  /\ UNCHANGED <<control, divergence, new, status, fop, farm, rx_queue, capturing, faults>>

(* udp_receive: a datagram that does not fit is dropped.  While the worker *)
(* is awake it takes datagrams as they come (Arrives).                     *)
Received(c) ==
  /\ capturing
  /\ clcws' = clcws \ {c}
  /\ rx_queue' = IF Len(rx_queue) < RxDepth THEN Append(rx_queue, c) ELSE rx_queue
  /\ UNCHANGED <<control, divergence, new, status, fop, farm, capturing, faults>>

(* Time passes: what is too old is lost, and so may be anything.  The      *)
(* worker's loop is much faster, unless a capture holds it.                *)
TimePasses ==
  /\ Awake => rx_queue = <<>>
  /\ \E lost \in SUBSET clcws :
       clcws' = {[c EXCEPT !.age = @ + 1] : c \in {d \in clcws \ lost : d.age < MaxDelay}}
  /\ divergence' = [divergence EXCEPT !.age = IF divergence.observed /\ @ < Confirm THEN @ + 1 ELSE @]
  /\ UNCHANGED <<control, new, status, fop, farm, rx_queue, capturing, faults>>

(* ccsds_uslp_peer_receive: what the FOP makes of a CLCW.  One that is out *)
(* of range changes nothing, but a lockout may end a FOP all the same.     *)
OutOfRange(c) == fop.state # "waiting" /\ c.report \notin fop.acked..fop.vs

FopAfter(c) ==
  CASE fop.state = "waiting" /\ c.flag = "clean" ->
         {[state |-> "active", vs |-> c.report, acked |-> c.report]}
    [] fop.state = "active" /\ c.flag = "lockout" ->
         {[fop EXCEPT !.state = "initial"]} \cup (IF OutOfRange(c) THEN {fop} ELSE {})
    [] fop.state = "active" /\ c.flag # "lockout" /\ ~OutOfRange(c) ->
         {[fop EXCEPT !.acked = c.report]}
    [] fop.state \in {"unlocking", "setting"} /\ c.flag = "clean" /\ c.report = fop.vs ->
         {[fop EXCEPT !.state = "active", !.acked = fop.vs]}
    [] OTHER -> {fop}

(* ccsds_uslp_peer_recover_from_clcw                                       *)
Recovered(c) ==
  [state |-> IF c.flag = "clean" THEN "active" ELSE "unlocking",
   vs |-> c.report, acked |-> c.report]

(* A transmission limit is reached: the peer has not answered for long.    *)
Exhausted == fop.state \in {"unlocking", "setting"} \/ (fop.state = "active" /\ Outstanding)

(* Nothing the peer sends will acknowledge what is outstanding.            *)
Stuck == \/ fop.state = "setting" /\ farm.lockout
         \/ fop.state = "active" /\ Outstanding /\ ~InStep

Fault(kind) == kind \in Faults /\ faults < MaxFaults /\ faults' = faults + 1

(* The peer restarts: its FARM starts over.                                *)
PeerRestarts ==
  /\ Fault("restart")
  /\ farm' = [vr |-> 0, lockout |-> FALSE, retransmit |-> FALSE]
  /\ divergence' = [divergence EXCEPT !.real = @ \/ divergence.observed]
  /\ UNCHANGED <<control, new, status, fop, ingress, capturing>>

-----------------------------------------------------------------------------
(* service_peer_ingress and recover_from_restart_clcw.                     *)

RecoverFromRestart(c) ==
  /\ fop' = Recovered(c)
  /\ peer_ready' = FALSE
  /\ phase' = IF c.flag = "clean" THEN "READY" ELSE "UNLOCK"
  /\ divergence' = Undiverged
  /\ UNCHANGED initial

(* A mutant that takes a second report for a confirmation.                 *)
ConfirmedAtOnce(c) ==
  /\ OutOfRange(c)
  /\ divergence.observed /\ divergence.report = c.report

(* demo_clcw_divergence_observe: the report has been the same for the      *)
(* confirmation time.                                                      *)
Confirmed(c) ==
  /\ OutOfRange(c)
  /\ divergence.observed /\ divergence.report = c.report
  /\ divergence.age >= Confirm

Observed(c) ==
  IF ~OutOfRange(c) THEN Undiverged
  ELSE IF divergence.observed /\ divergence.report = c.report THEN divergence
  ELSE [observed |-> TRUE, report |-> c.report, age |-> 0, real |-> ~InStep, held |-> FALSE]

DirtyReturn(c) == c.flag # "clean" /\ ~peer_ready /\ phase # "UNLOCK"
KnownPeerReturn(c) == OutOfRange(c) /\ ~peer_ready /\ ~initial

Handled(c) ==
  /\ new' = [valid |-> TRUE, report |-> c.report, flag |-> c.flag]
  /\ status' = (status \/ c.status)
  /\ IF DirtyReturn(c) \/ KnownPeerReturn(c) \/ Confirmed(c)
     THEN RecoverFromRestart(c)
     ELSE /\ fop' \in FopAfter(c)
          /\ divergence' = Observed(c)
          /\ UNCHANGED control
  /\ UNCHANGED <<farm, capturing, faults>>

(* What has waited comes first, in its order.                              *)
Waiting == IF rx_queue = <<>> THEN clcws ELSE {Head(rx_queue)}

Arrives(c) ==
  /\ Awake
  /\ IF rx_queue = <<>> THEN clcws' = clcws \ {c} /\ UNCHANGED rx_queue
     ELSE rx_queue' = Tail(rx_queue) /\ UNCHANGED clcws
  /\ Handled(c)

(* A mutant that does not look at the phase of the link.                   *)
HandleStatusAnyPhase ==
  /\ Awake /\ status
  /\ status' = FALSE /\ peer_ready' = TRUE /\ initial' = FALSE
  /\ UNCHANGED <<phase, divergence, new, fop, farm, ingress, capturing, faults>>

(* process_peer_status, for a status that is valid                         *)
HandleStatus ==
  /\ Awake /\ status
  /\ status' = FALSE
  /\ IF phase = "FAILED" THEN UNCHANGED <<peer_ready, initial>>
     ELSE peer_ready' = TRUE /\ initial' = FALSE
  /\ UNCHANGED <<phase, divergence, new, fop, farm, ingress, capturing, faults>>

-----------------------------------------------------------------------------
(* advance_link_sync, called by the worker's tick: its branches in order.  *)

Advance ==
  /\ Awake
  /\ new' = NoClcw
  /\ UNCHANGED <<divergence, status, farm, ingress, capturing>>

(* The peer's tick reports a retry exhaustion.                             *)
Exhausts ==
  /\ Exhausted /\ phase # "FAILED"
  /\ (Stuck /\ UNCHANGED faults) \/ Fault("exhausted")
  /\ fop' = [fop EXCEPT !.state = "terminal"]
  /\ phase' = "FAILED" /\ peer_ready' = FALSE
  /\ UNCHANGED initial
  /\ Advance

(* A tick inside a blocked submission consumes that report.                *)
ExhaustsInSubmission ==
  /\ Exhausted /\ Awake
  /\ Fault("consumed")
  /\ fop' = [fop EXCEPT !.state = "terminal"]
  /\ UNCHANGED <<control, divergence, new, status, farm, ingress, capturing>>

LinkReturns ==
  /\ phase = "FAILED" /\ new.valid
  /\ fop' = Recovered(new)
  /\ phase' = IF new.flag = "clean" THEN "READY" ELSE "UNLOCK"
  /\ UNCHANGED <<peer_ready, initial, faults>>
  /\ Advance

DirtyStartup == phase = "CLCW" /\ new.valid /\ new.flag # "clean"

DirtyStart ==
  /\ DirtyStartup
  /\ fop' = Recovered(new)
  /\ phase' = "UNLOCK"
  /\ UNCHANGED <<peer_ready, initial, faults>>
  /\ Advance

(* A mutant that trusts every failure to be reported.                      *)
LockedOutAtStart ==
  /\ phase # "FAILED" /\ ~DirtyStartup
  /\ fop.state = "initial" /\ initial
  /\ fop' = [fop EXCEPT !.state = "unlocking", !.acked = fop.vs]
  /\ phase' = "UNLOCK"
  /\ UNCHANGED <<peer_ready, initial, faults>>
  /\ Advance

(* The FOP is in its initial state after a lockout or an exhaustion that   *)
(* nobody reported.                                                        *)
LockedOut ==
  /\ phase # "FAILED" /\ ~DirtyStartup
  /\ fop.state \in {"initial", "terminal"}
  /\ IF ~initial
     THEN phase' = "FAILED" /\ peer_ready' = FALSE /\ UNCHANGED fop
     ELSE /\ fop.state = "initial"
          /\ fop' = [fop EXCEPT !.state = "unlocking", !.acked = fop.vs]
          /\ phase' = "UNLOCK" /\ UNCHANGED peer_ready
  /\ UNCHANGED <<initial, faults>>
  /\ Advance

Synchronized ==
  /\ phase \notin {"FAILED", "READY"} /\ ~DirtyStartup
  /\ fop.state = "active"
  /\ phase' = "READY"
  /\ UNCHANGED <<peer_ready, initial, fop, faults>>
  /\ Advance

(* The other ticks only look.                                              *)
Looks ==
  /\ new.valid
  /\ \/ phase = "READY" /\ fop.state = "active"
     \/ phase = "CLCW" /\ fop.state = "waiting" /\ new.flag = "clean"
     \/ phase \in {"READY", "UNLOCK"} /\ fop.state \in {"unlocking", "setting"}
  /\ UNCHANGED <<control, fop, faults>>
  /\ Advance

(* The worker's PEER_TIMEOUT_MS.                                           *)
PeerSilent ==
  /\ Awake /\ peer_ready
  /\ Fault("silent")
  /\ peer_ready' = FALSE
  /\ UNCHANGED <<phase, initial, divergence, new, status, fop, farm, ingress, capturing>>

(* execute_send_operation, for SEND or a request: the worker sleeps, waits *)
(* for the camera and sleeps again.                                        *)
Capture ==
  /\ Awake /\ peer_ready
  /\ Fault("capture")
  /\ capturing' = TRUE
  /\ divergence' = [divergence EXCEPT !.held = divergence.observed]
  /\ UNCHANGED <<control, new, status, fop, farm, ingress>>

Captured ==
  /\ capturing /\ capturing' = FALSE
  /\ UNCHANGED <<control, divergence, new, status, fop, farm, ingress, faults>>

-----------------------------------------------------------------------------
(* process_link_action: refused while frames are outstanding on a link     *)
(* that has not failed.                                                    *)

Allowed == Outstanding => fop.state = "terminal" \/ phase = "FAILED"

SyncTx ==
  /\ Awake /\ Allowed /\ Fault("operator")
  /\ fop' = [state |-> "waiting", vs |-> 0, acked |-> 0]
  /\ phase' = "CLCW" /\ peer_ready' = FALSE
  /\ new' = NoClcw
  /\ UNCHANGED <<initial, divergence, status, farm, ingress, capturing>>

(* A mutant that initializes the FOP one number ahead.                     *)
UnlockAhead(command) ==
  /\ Awake /\ Allowed /\ Fault("operator")
  /\ fop' = [state |-> command, vs |-> fop.vs + 1, acked |-> fop.vs + 1]
  /\ phase' = "UNLOCK" /\ peer_ready' = FALSE
  /\ new' = NoClcw
  /\ UNCHANGED <<initial, divergence, status, farm, ingress, capturing>>

(* A FOP that has failed is initialized first, at the same V(S).           *)
Unlock(command) ==
  /\ Awake /\ Allowed /\ Fault("operator")
  /\ fop' = [state |-> command, vs |-> fop.vs, acked |-> fop.vs]
  /\ phase' = "UNLOCK" /\ peer_ready' = FALSE
  /\ new' = IF fop.state = "terminal" \/ phase = "FAILED" THEN NoClcw ELSE new
  /\ UNCHANGED <<initial, divergence, status, farm, ingress, capturing>>

-----------------------------------------------------------------------------
Tick == LinkReturns \/ DirtyStart \/ LockedOut \/ Synchronized \/ Looks

Next == \/ SendFrame \/ (\E n \in Sequence : FrameArrives(n)) \/ ControlArrives
        \/ Feedback(TRUE) \/ Feedback(FALSE) \/ TimePasses \/ PeerRestarts
        \/ (\E c \in clcws : Received(c)) \/ (\E c \in Waiting : Arrives(c)) \/ HandleStatus
        \/ Tick \/ Exhausts \/ ExhaustsInSubmission \/ PeerSilent
        \/ Capture \/ Captured
        \/ SyncTx \/ Unlock("unlocking") \/ Unlock("setting")

Spec == Init /\ [][Next]_vars

(* What is sent again until it is acknowledged arrives.                    *)
Delivers == (\E n \in Sequence : FrameArrives(n)) \/ ControlArrives

GivesUp == Stuck /\ Exhausts

(* The worker never stops: a capture ends, and queues are drained.         *)
Drains == rx_queue # <<>> /\ \E c \in Waiting : Arrives(c)

Works == Captured \/ Drains \/ HandleStatus

StatusArrives == \E c \in Waiting : c.status /\ Arrives(c)

Fairness ==
  /\ WF_vars(Delivers) /\ WF_vars(TimePasses)
  /\ SF_vars(Feedback(TRUE)) /\ SF_vars(StatusArrives)
  /\ WF_vars(Works) /\ WF_vars(Tick) /\ WF_vars(GivesUp)

FairSpec == Spec /\ Fairness

-----------------------------------------------------------------------------
(* A link in use is given up for a restart of the peer.                    *)
GivenUp == (\E c \in Waiting : Arrives(c)) /\ peer_ready /\ fop.state = "active" /\ ~peer_ready'

(* This happens only if the peer was out of step when the divergence was   *)
(* first seen or has restarted since, or if a capture has held the worker  *)
(* since: as long as the worker keeps up, never because of datagrams that  *)
(* only came late (service_peer_ingress, demo_clcw_divergence_observe).    *)
NoFalseRestart == [][GivenUp => divergence.real \/ divergence.held]_vars

(* What the unit test demands: "a burst of duplicated stale feedback must  *)
(* not resynchronize".  The time that datagrams wait in rx_queue during a  *)
(* capture counts for it (execute_send_operation, service_peer_ingress).   *)
StaleIgnored == [][GivenUp => divergence.real]_vars

(* A peer is never taken for ready over a link that has failed, though its *)
(* status goes on coming in (process_peer_status, advance_link_sync).      *)
FailedNotReady == phase = "FAILED" => ~peer_ready

(* When faults stop, the link comes to rest: synchronized with the FARM of *)
(* the peer, the peer ready, whatever failed, was consumed by a blocked    *)
(* submission, restarted or was set by hand before (advance_link_sync).    *)
Settled == peer_ready /\ phase = "READY" /\ fop.state = "active" /\ InStep

Converges == <>[]Settled

=============================================================================
