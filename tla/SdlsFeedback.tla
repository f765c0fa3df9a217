---------------------------- MODULE SdlsFeedback ----------------------------
(***************************************************************************)
(* How the acceptance of an OTAR gets back to the board that sent it.      *)
(* Every frame has one field (the OCF) for feedback.  The acceptor fills   *)
(* it with a CLCW, which COP-1 lives on, or with an FSR, which names the   *)
(* last protected frame received (src/demo_sdls_feedback.c chooses).  The  *)
(* sender takes an FSR that names its OTAR for the acceptance              *)
(* (security_receive_fsr) and cuts over to the new keys.                   *)
(*                                                                         *)
(* Frames of the acceptor may be lost.  Packets of the sender arrive in    *)
(* order (COP-1), unless its link fails and drops them.                    *)
(***************************************************************************)
EXTENDS Naturals, Sequences

CONSTANTS ClcwsPerFsr,  \* DEMO_SDLS_CLCWS_PER_FSR = 3
          Reports,      \* values of the CLCW's V(R)
          NoReport,     \* no CLCW sent yet
          LsbValues,    \* the ARSN an FSR carries is modulo this (2^8)
          MaxFrames,    \* bound: maintenance frames sent since a start
          MaxOtars,     \* bound: OTARs sent in a behaviour
          MaxWire,      \* bound: packets on the wire
          MaxFaults,    \* bound: faults in a behaviour
          Faults        \* the kinds of fault that may happen

ASSUME ClcwsAssumption == ClcwsPerFsr \in Nat \ {0}
ASSUME LsbAssumption == LsbValues \in Nat \ {0}
ASSUME ReportsAssumption == NoReport \notin Reports
ASSUME BoundsAssumption ==
  MaxFrames \in Nat /\ MaxOtars \in Nat /\ MaxWire \in Nat /\ MaxFaults \in Nat
ASSUME FaultsAssumption == Faults \subseteq {"lost", "reboot", "sync"}

VARIABLES
  \* acceptor
  policy,      \* sdls_feedback_policy
  live,        \* the FSR the SDLS library would encode now
  clcw,        \* the CLCW of the next frame, and whether COP-1 needs it
  cutover,     \* recovery_otar_cutover
  confirmed,   \* recovery_otar_confirmed
  installed,   \* the OTAR whose keys the acceptor uses
  \* sender
  tx_arsn,     \* the next number of its maintenance SA
  elected,     \* it has an election that may let it send an OTAR
  pending,     \* the OTAR that awaits its FSR, and the number it carries
  matched,     \* recovery_otar_fsr_matched
  keys,        \* the OTAR whose keys the sender uses
  wire,        \* packets on their way to the acceptor
  \* bounds and ghosts
  otars,       \* OTARs sent so far
  faults,      \* faults so far
  untold,      \* frames sent without a CLCW since the CLCW last changed
  unsaid       \* frames sent without the acceptance since it was latched

acceptor == <<live, cutover, confirmed, installed>>
sender   == <<tx_arsn, elected, pending, matched, keys, wire>>
bounds   == <<otars, faults>>
ghosts   == <<untold, unsaid>>
vars == <<policy, live, clcw, cutover, confirmed, installed, tx_arsn, elected,
          pending, matched, keys, wire, otars, faults, untold, unsaid>>

Arsn   == 0..MaxFrames
Lsb    == 0..(LsbValues - 1)
NoFsr  == [spi |-> "none", arsn |-> 0]
Fsr    == [spi : {"maintenance", "operational", "rejected"}, arsn : Lsb]
Otars  == 0..MaxOtars
NoOtar == [otar |-> 0, arsn |-> 0]

Policy == [acceptance : Fsr \cup {NoFsr}, streak : 0..ClcwsPerFsr,
           lastReport : Reports \cup {NoReport}, previousFsr : BOOLEAN]
FreshPolicy == [acceptance |-> NoFsr, streak |-> 0, lastReport |-> NoReport,
                previousFsr |-> FALSE]

Packet == [kind : {"CANDIDATE", "OTAR", "STATUS"}, arsn : Arsn, otar : Otars]

(* The policy's fields have their C types, and at most one acceptance is   *)
(* latched (struct demo_sdls_feedback_policy).                             *)
TypeOK ==
  /\ policy \in Policy
  /\ live \in Fsr \cup {NoFsr}
  /\ clcw \in [report : Reports, urgent : BOOLEAN]
  /\ cutover \in BOOLEAN /\ confirmed \in BOOLEAN
  /\ installed \in Otars /\ keys \in Otars
  /\ tx_arsn \in Arsn /\ elected \in BOOLEAN
  /\ pending \in [otar : Otars, arsn : Arsn]
  /\ matched \in BOOLEAN
  /\ wire \in Seq(Packet)
  /\ otars \in Otars /\ faults \in 0..MaxFaults
  /\ untold \in Nat /\ unsaid \in Nat

Init ==
  /\ policy = FreshPolicy
  /\ live = NoFsr
  /\ clcw \in [report : Reports, urgent : {TRUE}]
  /\ cutover = FALSE /\ confirmed = FALSE
  /\ installed = 0 /\ keys = 0
  /\ tx_arsn = 0 /\ elected = FALSE
  /\ pending = NoOtar
  /\ matched = FALSE
  /\ wire = <<>>
  /\ otars = 0 /\ faults = 0
  /\ untold = 0 /\ unsaid = 0

-----------------------------------------------------------------------------
(* demo_sdls_feedback_select_fsr: what the next frame carries.             *)

(* Mutant: an urgent CLCW goes before the acceptance.                      *)
SelectsAcceptanceWhenCalm ==
  policy.acceptance # NoFsr /\ ~policy.previousFsr /\ ~clcw.urgent

(* Mutant: nothing separates two FSRs.                                     *)
SelectsAcceptanceAlways == policy.acceptance # NoFsr

SelectsAcceptance == policy.acceptance # NoFsr /\ ~policy.previousFsr

SelectsLive ==
  /\ policy.acceptance = NoFsr /\ ~policy.previousFsr
  /\ ~clcw.urgent /\ policy.lastReport = clcw.report
  /\ policy.streak = ClcwsPerFsr

(* Mutant: any clean FSR of the maintenance SA is the acceptance.          *)
NamesOtarByAnyNumber(fsr) == fsr.spi = "maintenance"

(* security_receive_fsr, on an FSR that arrived.                           *)
NamesOtar(fsr) == fsr.spi = "maintenance" /\ fsr.arsn = pending.arsn % LsbValues

Received(fsr) ==
  matched' = (matched \/ (pending # NoOtar /\ NamesOtar(fsr)))

(* The frame arrives or is lost.  None of this concerns what the sender    *)
(* sends.                                                                  *)
Carry(fsr) ==
  /\ Received(fsr) \/ UNCHANGED matched
  /\ untold' = untold + 1
  /\ UNCHANGED <<acceptor, clcw, tx_arsn, elected, pending, keys, wire, bounds>>

SendAcceptance ==
  /\ SelectsAcceptance
  /\ policy' = [policy EXCEPT !.lastReport = clcw.report, !.previousFsr = TRUE]
  /\ unsaid' = 0
  /\ Carry(policy.acceptance)

SendLive ==
  /\ SelectsLive
  /\ policy' = [policy EXCEPT !.streak = 0, !.previousFsr = TRUE]
  /\ UNCHANGED unsaid
  /\ Carry(live)

(* Mutant: the streak grows without a limit.                               *)
SendClcwUncapped ==
  /\ ~SelectsAcceptance /\ ~SelectsLive
  /\ policy' = [policy EXCEPT
       !.lastReport = clcw.report, !.previousFsr = FALSE,
       !.streak = IF policy.acceptance = NoFsr THEN @ + 1 ELSE @]
  /\ untold' = 0
  /\ unsaid' = IF policy.acceptance = NoFsr THEN 0 ELSE unsaid + 1
  /\ UNCHANGED <<acceptor, clcw, sender, bounds>>

(* A latched acceptance leaves the streak of CLCWs alone.                  *)
SendClcw ==
  /\ ~SelectsAcceptance /\ ~SelectsLive
  /\ policy' = [policy EXCEPT
       !.lastReport = clcw.report, !.previousFsr = FALSE,
       !.streak = IF policy.acceptance = NoFsr /\ @ < ClcwsPerFsr THEN @ + 1 ELSE @]
  /\ untold' = 0
  /\ unsaid' = IF policy.acceptance = NoFsr THEN 0 ELSE unsaid + 1
  /\ UNCHANGED <<acceptor, clcw, sender, bounds>>

(* select_security_ocf: the CLCW to send changes as frames arrive, and is  *)
(* urgent while COP-1 is not idle on either side.                          *)
ClcwChanges ==
  /\ clcw' \in [report : Reports, urgent : BOOLEAN]
  /\ clcw' # clcw
  /\ untold' = 0
  /\ UNCHANGED <<policy, acceptor, sender, bounds, unsaid>>

-----------------------------------------------------------------------------
(* The acceptor receives.                                                  *)

Arrives(kind) ==
  /\ wire # <<>> /\ Head(wire).kind = kind
  /\ wire' = Tail(wire)
  /\ UNCHANGED <<clcw, tx_arsn, elected, pending, matched, keys, bounds, untold>>

NextFsr(spi) == [spi |-> spi, arsn |-> Head(wire).arsn % LsbValues]

(* A candidate is queued for the service.                                  *)
CandidateArrives ==
  /\ Arrives("CANDIDATE")
  /\ live' = NextFsr("maintenance")
  /\ UNCHANGED <<policy, cutover, confirmed, installed, unsaid>>

(* Mutant: a new election forgets the acceptance as well.                  *)
AcceptorElectsForgetting ==
  /\ cutover
  /\ cutover' = FALSE /\ confirmed' = FALSE
  /\ policy' = [policy EXCEPT !.acceptance = NoFsr]
  /\ UNCHANGED <<live, clcw, installed, sender, bounds, ghosts>>

(* start_recovery_election, for that candidate or by a tick: it forgets    *)
(* the last cutover, and leaves the policy alone.                          *)
AcceptorElects ==
  /\ cutover
  /\ cutover' = FALSE /\ confirmed' = FALSE
  /\ UNCHANGED <<policy, live, clcw, installed, sender, bounds, ghosts>>

(* Mutant: the acceptance is left to the live FSR.                         *)
OtarArrivesUnlatched ==
  /\ Arrives("OTAR")
  /\ installed' = Head(wire).otar
  /\ live' = NextFsr("maintenance")
  /\ cutover' = TRUE /\ confirmed' = FALSE
  /\ unsaid' = 0
  /\ UNCHANGED policy

(* recovery_otar_router_handler: the keys are installed and the FSR that   *)
(* says so is latched.                                                     *)
OtarArrives ==
  /\ Arrives("OTAR")
  /\ installed' = Head(wire).otar
  /\ live' = NextFsr("maintenance")
  /\ policy' = [policy EXCEPT !.acceptance = NextFsr("maintenance")]
  /\ cutover' = TRUE /\ confirmed' = FALSE
  /\ unsaid' = 0

(* security_receive_committed: the first traffic under the new keys        *)
(* confirms the acceptance; traffic under others is rejected.              *)
StatusArrives ==
  /\ Arrives("STATUS")
  /\ IF Head(wire).otar = installed
     THEN /\ live' = NextFsr("operational")
          /\ confirmed' = (confirmed \/ cutover)
          /\ policy' = IF cutover /\ ~confirmed
                       THEN [policy EXCEPT !.acceptance = NoFsr] ELSE policy
     ELSE /\ live' = NextFsr("rejected")
          /\ UNCHANGED <<confirmed, policy>>
  /\ UNCHANGED <<cutover, installed, unsaid>>

(* start_link_sync on the operator's SYNC: COP-1 starts over, so its CLCW  *)
(* is urgent, and the policy is cleared.                                   *)
Sync ==
  /\ "sync" \in Faults /\ faults < MaxFaults
  /\ faults' = faults + 1
  /\ policy' = FreshPolicy
  /\ clcw' \in [report : Reports, urgent : {TRUE}]
  /\ untold' = IF clcw' = clcw THEN untold ELSE 0
  /\ UNCHANGED <<acceptor, sender, otars, unsaid>>

-----------------------------------------------------------------------------
(* The sender (service_sdls_recovery).                                     *)

Submit(kind, otar, arsn) ==
  wire' = Append(wire, [kind |-> kind, arsn |-> arsn, otar |-> otar])

Protect == tx_arsn < MaxFrames /\ tx_arsn' = tx_arsn + 1

(* start_recovery_election, while no OTAR is pending.                      *)
SendCandidate ==
  /\ pending = NoOtar /\ Len(wire) < MaxWire
  /\ Submit("CANDIDATE", 0, tx_arsn) /\ Protect
  /\ elected' = TRUE
  /\ matched' = FALSE
  /\ UNCHANGED <<policy, acceptor, clcw, pending, keys, bounds, ghosts>>

(* If it wins its election the board sends one OTAR, on a quiet link.      *)
SendOtar ==
  /\ elected /\ pending = NoOtar /\ wire = <<>> /\ otars < MaxOtars
  /\ otars' = otars + 1
  /\ pending' = [otar |-> otars + 1, arsn |-> tx_arsn]
  /\ Submit("OTAR", otars + 1, tx_arsn) /\ Protect
  /\ UNCHANGED <<policy, acceptor, clcw, elected, matched, keys, faults, ghosts>>

Commit ==
  /\ pending # NoOtar /\ matched
  /\ keys' = pending.otar
  /\ pending' = NoOtar
  /\ matched' = FALSE
  /\ elected' = FALSE
  /\ UNCHANGED <<policy, acceptor, clcw, tx_arsn, wire, bounds, ghosts>>

(* Status under the new keys; an operational SA numbers its own frames.    *)
SendStatus ==
  /\ pending = NoOtar /\ keys # 0 /\ wire = <<>>
  /\ Submit("STATUS", keys, 0)
  /\ UNCHANGED <<policy, acceptor, clcw, tx_arsn, elected, pending, matched, keys,
                 bounds, ghosts>>

(* The link fails and drops what was on its way; the OTAR stays pending.   *)
LinkFails ==
  /\ "lost" \in Faults /\ faults < MaxFaults
  /\ wire # <<>>
  /\ faults' = faults + 1
  /\ wire' = <<>>
  /\ UNCHANGED <<policy, acceptor, clcw, tx_arsn, elected, pending, matched, keys,
                 otars, ghosts>>

(* All the sender knows is volatile; its ARSN restarts at zero.            *)
Reboot ==
  /\ "reboot" \in Faults /\ faults < MaxFaults
  /\ faults' = faults + 1
  /\ tx_arsn' = 0 /\ elected' = FALSE
  /\ pending' = NoOtar
  /\ matched' = FALSE
  /\ keys' = 0
  /\ wire' = <<>>
  /\ UNCHANGED <<policy, acceptor, clcw, otars, ghosts>>

-----------------------------------------------------------------------------
Transmit == SendAcceptance \/ SendLive \/ SendClcw

Next == \/ Transmit \/ ClcwChanges
        \/ CandidateArrives \/ AcceptorElects \/ OtarArrives \/ StatusArrives \/ Sync
        \/ SendCandidate \/ SendOtar \/ Commit \/ SendStatus
        \/ LinkFails \/ Reboot

Spec == Init /\ [][Next]_vars

(* Frames are sent every feedback interval, and not all of those that      *)
(* carry the acceptance are lost.  COP-1 delivers.                         *)
Fairness ==
  /\ WF_vars(Transmit)
  /\ SF_vars(SendAcceptance /\ Received(policy.acceptance))
  /\ WF_vars(OtarArrives) /\ WF_vars(CandidateArrives) /\ WF_vars(StatusArrives)

FairSpec == Spec /\ Fairness

-----------------------------------------------------------------------------
(* Properties.                                                             *)

(* COP-1 is not starved: whatever else competes for the field, a CLCW goes *)
(* out with at most one frame of delay.                                    *)
ClcwPrompt == untold <= 1

(* Nor is the acceptance: of two frames in a row one carries it, however   *)
(* urgent the CLCW, until new-key traffic has confirmed it.                *)
AcceptanceInsistent == policy.acceptance # NoFsr => unsaid <= 1

(* The sender commits on an FSR only if the acceptor has installed the     *)
(* very OTAR that is pending.                                              *)
MatchMeansAccepted ==
  matched /\ pending # NoOtar => installed = pending.otar

(* A latched acceptance is given up only for a newer one or for traffic    *)
(* under the keys it accepted (demo_sdls_feedback.h: "Retain an            *)
(* OTAR-acceptance FSR until new-key traffic confirms the cutover").       *)
AcceptanceRetained ==
  [][policy.acceptance # NoFsr /\ policy'.acceptance = NoFsr
       => confirmed' /\ ~confirmed]_vars

(* An OTAR that was accepted is committed by its sender's tick: its        *)
(* acceptance gets through.                                                *)
AcceptanceArrives ==
  (pending # NoOtar /\ installed = pending.otar) ~> (matched \/ pending = NoOtar)
=============================================================================
