--------------------------- MODULE SdlsFeedbackProofs ---------------------------
(***************************************************************************)
(* The shared feedback field for any number of reports, frames and OTARs:  *)
(* neither CLCWs nor the acceptance starve, and, while the sender does not *)
(* reboot, it commits on the acceptance of its own OTAR only.              *)
(***************************************************************************)
EXTENDS SdlsFeedback, TLAPS

-----------------------------------------------------------------------------
(* Types.                                                                  *)

(* An ARSN is carried by its low bits.                                     *)
LEMMA LsbType ==
  ASSUME NEW a \in Arsn
  PROVE  a % LsbValues \in Lsb
BY LsbAssumption, BoundsAssumption DEF Arsn, Lsb

(* The numbers of maintenance frames do not wrap below LsbValues.          *)
LEMMA LsbExact ==
  ASSUME NEW a \in Nat, a < LsbValues
  PROVE  a % LsbValues = a
BY LsbAssumption

(* Zero, for no OTAR and for the first number, is typed.                   *)
LEMMA ZeroType == 0 \in Otars /\ 0 \in Arsn
BY BoundsAssumption DEF Otars, Arsn

(* No OTAR pending is typed.                                               *)
LEMMA NoOtarType == NoOtar \in [otar : Otars, arsn : Arsn]
BY ZeroType DEF NoOtar

(* An arriving packet is a packet, and the rest of the wire is typed.      *)
LEMMA ArrivesType ==
  ASSUME TypeOK, NEW kind, Arrives(kind)
  PROVE  /\ Head(wire) \in Packet
         /\ Head(wire).arsn % LsbValues \in Lsb
         /\ wire' \in Seq(Packet)
<1>1. wire \in Seq(Packet) /\ wire # <<>>
  BY DEF TypeOK, Arrives
<1>2. Head(wire) \in Packet /\ Tail(wire) \in Seq(Packet)
  BY <1>1
<1>3. Head(wire).arsn \in Arsn
  BY <1>2 DEF Packet
<1> QED
  BY <1>2, <1>3, LsbType DEF Arrives

(* Submitting a packet keeps the wire's type.                              *)
LEMMA SubmitType ==
  ASSUME TypeOK, NEW kind \in {"CANDIDATE", "OTAR", "STATUS"},
         NEW otar \in Otars, NEW arsn \in Arsn, Submit(kind, otar, arsn)
  PROVE  wire' \in Seq(Packet)
<1>1. [kind |-> kind, arsn |-> arsn, otar |-> otar] \in Packet
  BY DEF Packet
<1> QED
  BY <1>1 DEF TypeOK, Submit

(* A frame that arrives or is lost keeps the types of what it concerns.    *)
LEMMA CarryType ==
  ASSUME TypeOK, NEW fsr, Carry(fsr)
  PROVE  matched' \in BOOLEAN /\ untold' \in Nat
<1>1. untold' \in Nat
  BY DEF TypeOK, Carry
<1>2. matched' \in BOOLEAN
  BY DEF TypeOK, Carry, Received
<1> QED
  BY <1>1, <1>2

(* Every step keeps the types: in particular the streak of CLCWs stays     *)
(* within ClcwsPerFsr.                                                     *)
LEMMA TypeStep == TypeOK /\ [Next]_vars => TypeOK'
<1> SUFFICES ASSUME TypeOK, [Next]_vars PROVE TypeOK'
  OBVIOUS
<1> USE DEF TypeOK
<1> USE ClcwsAssumption, ReportsAssumption, BoundsAssumption
<1>1. CASE SendAcceptance
  <2>1. policy' \in Policy
    BY <1>1 DEF SendAcceptance, Policy
  <2>2. Carry(policy.acceptance)
    BY <1>1 DEF SendAcceptance
  <2>3. matched' \in BOOLEAN /\ untold' \in Nat
    BY <2>2, CarryType
  <2> QED
    BY <1>1, <2>1, <2>2, <2>3 DEF SendAcceptance, Carry, acceptor, bounds
<1>2. CASE SendLive
  <2>1. policy' \in Policy
    <3>1. 0 \in 0..ClcwsPerFsr
      OBVIOUS
    <3> QED
      BY <1>2, <3>1 DEF SendLive, Policy
  <2>2. Carry(live)
    BY <1>2 DEF SendLive
  <2>3. matched' \in BOOLEAN /\ untold' \in Nat
    BY <2>2, CarryType
  <2> QED
    BY <1>2, <2>1, <2>2, <2>3 DEF SendLive, Carry, acceptor, bounds
<1>3. CASE SendClcw
  <2>1. policy' \in Policy
    <3>1. policy.streak < ClcwsPerFsr => policy.streak + 1 \in 0..ClcwsPerFsr
      BY DEF Policy
    <3> QED
      BY <1>3, <3>1 DEF SendClcw, Policy
  <2> QED
    BY <1>3, <2>1 DEF SendClcw, acceptor, sender, bounds
<1>4. CASE ClcwChanges
  BY <1>4 DEF ClcwChanges, acceptor, sender, bounds
<1>5. CASE CandidateArrives
  <2>1. Arrives("CANDIDATE")
    BY <1>5 DEF CandidateArrives
  <2>2. live' \in Fsr
    BY <1>5, <2>1, ArrivesType DEF CandidateArrives, NextFsr, Fsr
  <2> QED
    BY <1>5, <2>1, <2>2, ArrivesType DEF CandidateArrives, Arrives, bounds
<1>6. CASE AcceptorElects
  BY <1>6 DEF AcceptorElects, sender, bounds, ghosts
<1>7. CASE OtarArrives
  <2>1. Arrives("OTAR")
    BY <1>7 DEF OtarArrives
  <2>2. NextFsr("maintenance") \in Fsr
    BY <2>1, ArrivesType DEF NextFsr, Fsr
  <2>3. policy' \in Policy
    BY <1>7, <2>2 DEF OtarArrives, Policy
  <2>4. installed' \in Otars
    BY <1>7, <2>1, ArrivesType DEF OtarArrives, Packet
  <2> QED
    BY <1>7, <2>1, <2>2, <2>3, <2>4, ArrivesType DEF OtarArrives, Arrives, bounds
<1>8. CASE StatusArrives
  <2>1. Arrives("STATUS")
    BY <1>8 DEF StatusArrives
  <2>2. live' \in Fsr
    BY <1>8, <2>1, ArrivesType DEF StatusArrives, NextFsr, Fsr
  <2>3. policy' \in Policy
    BY <1>8 DEF StatusArrives, Policy
  <2> QED
    BY <1>8, <2>1, <2>2, <2>3, ArrivesType DEF StatusArrives, Arrives, bounds
<1>9. CASE Sync
  <2>1. policy' \in Policy
    BY <1>9 DEF Sync, Policy, FreshPolicy
  <2>2. clcw' \in [report : Reports, urgent : BOOLEAN]
    BY <1>9 DEF Sync
  <2>3. untold' \in Nat
    BY <1>9 DEF Sync
  <2>4. faults' \in 0..MaxFaults
    BY <1>9 DEF Sync
  <2> QED
    BY <1>9, <2>1, <2>2, <2>3, <2>4 DEF Sync, acceptor, sender
<1>10. CASE SendCandidate
  <2>1. tx_arsn' \in Arsn
    BY <1>10 DEF SendCandidate, Protect, Arsn
  <2>2. wire' \in Seq(Packet)
    BY <1>10, SubmitType DEF SendCandidate, Otars
  <2> QED
    BY <1>10, <2>1, <2>2 DEF SendCandidate, acceptor, bounds, ghosts
<1>11. CASE SendOtar
  <2>1. tx_arsn' \in Arsn
    BY <1>11 DEF SendOtar, Protect, Arsn
  <2>2. otars + 1 \in Otars
    BY <1>11 DEF SendOtar, Otars
  <2>3. wire' \in Seq(Packet)
    BY <1>11, <2>2, SubmitType DEF SendOtar
  <2> QED
    BY <1>11, <2>1, <2>2, <2>3 DEF SendOtar, acceptor, ghosts
<1>12. CASE Commit
  BY <1>12, NoOtarType DEF Commit, acceptor, bounds, ghosts
<1>13. CASE SendStatus
  <2>1. wire' \in Seq(Packet)
    BY <1>13, SubmitType DEF SendStatus, Arsn
  <2> QED
    BY <1>13, <2>1 DEF SendStatus, acceptor, bounds, ghosts
<1>14. CASE LinkFails
  <2>1. wire' \in Seq(Packet)
    BY <1>14 DEF LinkFails
  <2> QED
    BY <1>14, <2>1 DEF LinkFails, acceptor, ghosts
<1>15. CASE Reboot
  <2>1. wire' \in Seq(Packet)
    BY <1>15 DEF Reboot
  <2>2. faults' \in 0..MaxFaults
    BY <1>15 DEF Reboot
  <2> QED
    BY <1>15, <2>1, <2>2, NoOtarType, ZeroType DEF Reboot, acceptor, ghosts
<1>16. CASE UNCHANGED vars
  BY <1>16 DEF vars
<1> QED
  BY <1>1, <1>2, <1>3, <1>4, <1>5, <1>6, <1>7, <1>8, <1>9, <1>10, <1>11, <1>12,
     <1>13, <1>14, <1>15, <1>16 DEF Next, Transmit

(* The initial states are typed.                                           *)
LEMMA TypeInit == Init => TypeOK
<1> SUFFICES ASSUME Init PROVE TypeOK
  OBVIOUS
<1>1. policy \in Policy
  BY ClcwsAssumption DEF Init, FreshPolicy, Policy
<1>2. wire \in Seq(Packet)
  BY DEF Init
<1>3. clcw \in [report : Reports, urgent : BOOLEAN]
  BY DEF Init
<1>4. 0 \in 0..MaxFaults /\ 0 \in Nat
  BY BoundsAssumption
<1> QED
  BY <1>1, <1>2, <1>3, <1>4, NoOtarType, ZeroType DEF Init, TypeOK

(* The feedback policy and the two boards keep their types, for every      *)
(* number of reports, frames, OTARs and faults.                            *)
THEOREM TypeCorrect == Spec => []TypeOK
BY TypeInit, TypeStep, PTL DEF Spec

-----------------------------------------------------------------------------
(* The shared field.                                                       *)

(* Why the acceptance is insistent: the frame that carried it has an FSR   *)
(* flag, and it takes a CLCW to clear the flag.                            *)
AcceptanceInvariant ==
  /\ TypeOK
  /\ policy.acceptance # NoFsr =>
       unsaid <= 1 /\ (policy.previousFsr => unsaid = 0)

(* The acceptance is carried by one of any two frames in a row, whatever   *)
(* the CLCW says, after every fault.                                       *)
THEOREM AcceptanceRepeated == Spec => []AcceptanceInsistent
<1>1. Init => AcceptanceInvariant
  BY TypeInit DEF Init, AcceptanceInvariant, FreshPolicy
<1>2. AcceptanceInvariant /\ [Next]_vars => AcceptanceInvariant'
  <2> SUFFICES ASSUME AcceptanceInvariant, [Next]_vars PROVE AcceptanceInvariant'
    OBVIOUS
  <2>t. TypeOK /\ TypeOK'
    BY TypeStep DEF AcceptanceInvariant
  <2> USE DEF AcceptanceInvariant
  <2>0. CASE SendAcceptance
    BY <2>0, <2>t DEF SendAcceptance
  <2>1. CASE SendLive
    <3>1. policy'.acceptance = NoFsr
      BY <2>1, <2>t DEF SendLive, SelectsLive, TypeOK, Policy
    <3> QED
      BY <3>1, <2>t
  <2>2. CASE SendClcw
    BY <2>2, <2>t DEF SendClcw, SelectsAcceptance, TypeOK, Policy
  <2>3. CASE OtarArrives
    BY <2>3, <2>t DEF OtarArrives, Arrives, TypeOK, Policy
  <2>4. CASE StatusArrives
    <3>1. UNCHANGED unsaid
      BY <2>4 DEF StatusArrives
    <3>2. policy' = policy \/ policy'.acceptance = NoFsr
      BY <2>4, <2>t DEF StatusArrives, TypeOK, Policy
    <3> QED
      BY <3>1, <3>2, <2>t
  <2>5. CASE Sync
    BY <2>5, <2>t DEF Sync, FreshPolicy
  <2>6. CASE UNCHANGED <<policy, unsaid>>
    BY <2>6, <2>t
  <2>7. CASE ClcwChanges \/ CandidateArrives \/ AcceptorElects \/ SendCandidate
             \/ SendOtar \/ Commit \/ SendStatus \/ LinkFails \/ Reboot
             \/ UNCHANGED vars
    <3>1. UNCHANGED <<policy, unsaid>>
      BY <2>7 DEF ClcwChanges, CandidateArrives, AcceptorElects, SendCandidate,
         SendOtar, Commit, SendStatus, LinkFails, Reboot, vars, ghosts
    <3> QED
      BY <3>1, <2>6
  <2> QED
    BY <2>0, <2>1, <2>2, <2>3, <2>4, <2>5, <2>7 DEF Next, Transmit
<1>3. AcceptanceInvariant => AcceptanceInsistent
  BY DEF AcceptanceInvariant, AcceptanceInsistent
<1> QED
  BY <1>1, <1>2, <1>3, PTL DEF Spec

(* Why CLCWs are prompt: what keeps one back sets the FSR flag.            *)
ClcwInvariant ==
  /\ TypeOK
  /\ untold <= 1
  /\ ~policy.previousFsr => untold = 0

(* A new CLCW waits for one frame at most, until an operator's SYNC clears *)
(* the flag that the policy keeps of the last frame.                       *)
THEOREM ClcwsPrompt ==
  ASSUME "sync" \notin Faults
  PROVE  Spec => []ClcwPrompt
<1>1. Init => ClcwInvariant
  BY TypeInit DEF Init, ClcwInvariant
<1>2. ClcwInvariant /\ [Next]_vars => ClcwInvariant'
  <2> SUFFICES ASSUME ClcwInvariant, [Next]_vars PROVE ClcwInvariant'
    OBVIOUS
  <2>t. TypeOK /\ TypeOK'
    BY TypeStep DEF ClcwInvariant
  <2> USE DEF ClcwInvariant
  <2>1. CASE SendAcceptance
    BY <2>1, <2>t DEF SendAcceptance, SelectsAcceptance, Carry, TypeOK, Policy
  <2>2. CASE SendLive
    BY <2>2, <2>t DEF SendLive, SelectsLive, Carry, TypeOK, Policy
  <2>3. CASE SendClcw \/ ClcwChanges
    BY <2>3, <2>t DEF SendClcw, ClcwChanges
  <2>4. CASE OtarArrives
    BY <2>4, <2>t DEF OtarArrives, Arrives, TypeOK, Policy
  <2>5. CASE StatusArrives
    BY <2>5, <2>t DEF StatusArrives, Arrives, TypeOK, Policy
  <2>6. CASE Sync
    BY <2>6 DEF Sync
  <2>7. CASE UNCHANGED <<policy, untold>>
    BY <2>7, <2>t
  <2>8. CASE CandidateArrives \/ AcceptorElects \/ SendCandidate \/ SendOtar
             \/ Commit \/ SendStatus \/ LinkFails \/ Reboot \/ UNCHANGED vars
    <3>1. UNCHANGED <<policy, untold>>
      BY <2>8 DEF CandidateArrives, Arrives, AcceptorElects, SendCandidate,
         SendOtar, Commit, SendStatus, LinkFails, Reboot, vars, ghosts
    <3> QED
      BY <3>1, <2>7
  <2> QED
    BY <2>1, <2>2, <2>3, <2>4, <2>5, <2>6, <2>8 DEF Next, Transmit
<1>3. ClcwInvariant => ClcwPrompt
  BY DEF ClcwInvariant, ClcwPrompt
<1> QED
  BY <1>1, <1>2, <1>3, PTL DEF Spec
-----------------------------------------------------------------------------
(* The acceptance and its OTAR.                                            *)

(* Without an operator's SYNC an acceptance is never dropped before        *)
(* traffic under its keys has arrived.                                     *)
THEOREM AcceptanceKept ==
  ASSUME "sync" \notin Faults
  PROVE  Spec => AcceptanceRetained
<1> DEFINE Retains == policy.acceptance # NoFsr /\ policy'.acceptance = NoFsr
                        => confirmed' /\ ~confirmed
<1>1. TypeOK /\ [Next]_vars => [Retains]_vars
  <2> SUFFICES ASSUME TypeOK, Next PROVE Retains
    BY DEF vars
  <2>1. CASE Transmit
    BY <2>1 DEF Transmit, SendAcceptance, SendLive, SendClcw, TypeOK, Policy
  <2>2. CASE OtarArrives
    BY <2>2 DEF OtarArrives, NextFsr, NoFsr, TypeOK, Policy
  <2>3. CASE StatusArrives
    BY <2>3 DEF StatusArrives, TypeOK
  <2>4. CASE Sync
    BY <2>4 DEF Sync
  <2>5. CASE ClcwChanges \/ CandidateArrives \/ AcceptorElects \/ SendCandidate
             \/ SendOtar \/ Commit \/ SendStatus \/ LinkFails \/ Reboot
    BY <2>5 DEF ClcwChanges, CandidateArrives, AcceptorElects, SendCandidate,
       SendOtar, Commit, SendStatus, LinkFails, Reboot
  <2> QED
    BY <2>1, <2>2, <2>3, <2>4, <2>5 DEF Next
<1> QED
  BY <1>1, TypeCorrect, PTL DEF Spec, AcceptanceRetained

(* Every number in use was given out before.                               *)
NumbersGiven ==
  /\ live.spi = "maintenance" => live.arsn < tx_arsn
  /\ policy.acceptance.spi = "maintenance" => policy.acceptance.arsn < tx_arsn
  /\ pending # NoOtar => pending.arsn < tx_arsn
  /\ \A i \in 1..Len(wire) :
       wire[i].kind # "STATUS" => wire[i].arsn < tx_arsn

(* While an OTAR is pending nothing else is on its way.                    *)
PendingAlone ==
  pending # NoOtar =>
    \/ wire = <<>>
    \/ wire = <<[kind |-> "OTAR", arsn |-> pending.arsn, otar |-> pending.otar]>>

(* An FSR that names the pending OTAR comes after its keys.                *)
NamedIsInstalled ==
  pending # NoOtar =>
    /\ NamesOtar(live) => installed = pending.otar
    /\ NamesOtar(policy.acceptance) => installed = pending.otar

MatchedIsInstalled == matched => pending # NoOtar /\ installed = pending.otar

MatchInvariant ==
  /\ TypeOK
  /\ NumbersGiven
  /\ PendingAlone
  /\ NamedIsInstalled
  /\ MatchedIsInstalled

(* What arrives is the first packet; the others wait as they were.         *)
LEMMA ArrivesNumbers ==
  ASSUME TypeOK, NumbersGiven, MaxFrames <= LsbValues, NEW kind, Arrives(kind)
  PROVE  /\ kind # "STATUS" => Head(wire).arsn % LsbValues < tx_arsn
         /\ kind # "STATUS" => Head(wire).arsn % LsbValues = Head(wire).arsn
         /\ \A i \in 1..Len(wire') :
              wire'[i].kind # "STATUS" => wire'[i].arsn < tx_arsn
<1>1. wire \in Seq(Packet) /\ wire # <<>> /\ wire' = Tail(wire)
  BY DEF TypeOK, Arrives
<1>2. Head(wire) = wire[1] /\ 1 \in 1..Len(wire) /\ Head(wire).kind = kind
  BY <1>1 DEF Arrives
<1>3. kind # "STATUS" => Head(wire).arsn < tx_arsn
  BY <1>2 DEF NumbersGiven
<1>4. kind # "STATUS" => Head(wire).arsn \in Nat /\ Head(wire).arsn < LsbValues
  <2>1. Head(wire).arsn \in Arsn /\ tx_arsn \in Arsn
    BY <1>1, ArrivesType DEF Packet, TypeOK
  <2> QED
    BY <2>1, <1>3, LsbAssumption, BoundsAssumption DEF Arsn
<1>5. \A i \in 1..Len(wire') : wire'[i] = wire[i + 1] /\ i + 1 \in 1..Len(wire)
  BY <1>1
<1> QED
  BY <1>3, <1>4, <1>5, LsbExact DEF NumbersGiven

(* While an OTAR is pending only that OTAR can arrive.                     *)
LEMMA ArrivesAlone ==
  ASSUME PendingAlone, pending # NoOtar, NEW kind, Arrives(kind)
  PROVE  /\ kind = "OTAR"
         /\ Head(wire).otar = pending.otar
         /\ wire' = <<>>
BY DEF PendingAlone, Arrives

(* A packet that is submitted takes a number that counts as given.         *)
LEMMA SubmitNumbers ==
  ASSUME TypeOK, NumbersGiven, NEW kind, NEW otar, NEW arsn,
         Submit(kind, otar, arsn), kind = "STATUS" \/ (arsn = tx_arsn /\ Protect),
         tx_arsn' = tx_arsn \/ Protect
  PROVE  \A i \in 1..Len(wire') :
           wire'[i].kind # "STATUS" => wire'[i].arsn < tx_arsn'
<1> DEFINE p == [kind |-> kind, arsn |-> arsn, otar |-> otar]
<1>1. tx_arsn \in Nat /\ tx_arsn' \in Nat /\ tx_arsn <= tx_arsn'
  BY DEF TypeOK, Arsn, Protect
<1>2. p.kind # "STATUS" => p.arsn < tx_arsn'
  BY <1>1 DEF Protect
<1>3. wire \in Seq(Packet) /\ wire' = Append(wire, p)
  BY DEF TypeOK, Submit
<1> HIDE DEF p
<1>4. Len(wire') = Len(wire) + 1 /\ Len(wire) \in Nat
  BY <1>3
<1>5. wire'[Len(wire) + 1] = p
  BY <1>3
<1>6. \A i \in 1..Len(wire) : wire'[i] = wire[i]
  BY <1>3
<1>7. \A i \in 1..Len(wire) : wire[i].arsn \in Nat
  <2>1. \A i \in 1..Len(wire) : wire[i] \in Packet
    BY <1>3
  <2> QED
    BY <2>1 DEF Packet, Arsn
<1>8. ASSUME NEW i \in 1..Len(wire'), wire'[i].kind # "STATUS"
      PROVE  wire'[i].arsn < tx_arsn'
  <2>1. CASE i = Len(wire) + 1
    <3>1. wire'[i] = p
      BY <2>1, <1>5
    <3> QED
      BY <3>1, <1>2, <1>8
  <2>2. CASE i \in 1..Len(wire)
    BY <2>2, <1>1, <1>6, <1>8, <1>7 DEF NumbersGiven
  <2> QED
    BY <2>1, <2>2, <1>4
<1> QED
  BY <1>8

(* The sender commits on an FSR only if the acceptor uses the very keys it *)
(* sent, whatever frames are lost: provided that it does not reboot and    *)
(* that the numbers in use do not wrap.                                    *)
THEOREM MatchIsAcceptance ==
  ASSUME "reboot" \notin Faults, MaxFrames <= LsbValues
  PROVE  Spec => []MatchMeansAccepted
<1>1. Init => MatchInvariant
  <2> SUFFICES ASSUME Init PROVE MatchInvariant
    OBVIOUS
  <2>1. NumbersGiven
    BY DEF Init, NumbersGiven, NoFsr, FreshPolicy
  <2> QED
    BY <2>1, TypeInit DEF Init, MatchInvariant, PendingAlone, NamedIsInstalled,
       MatchedIsInstalled
<1>2. MatchInvariant /\ [Next]_vars => MatchInvariant'
  <2> SUFFICES ASSUME MatchInvariant, [Next]_vars PROVE MatchInvariant'
    OBVIOUS
  <2>t. TypeOK /\ TypeOK'
    BY TypeStep DEF MatchInvariant
  <2>f. /\ live \in Fsr \cup {NoFsr}
        /\ policy.acceptance \in Fsr \cup {NoFsr}
        /\ tx_arsn \in Nat /\ matched \in BOOLEAN
        /\ pending.arsn \in Nat
    BY <2>t DEF TypeOK, Policy, Arsn
  <2>m. NumbersGiven /\ PendingAlone /\ NamedIsInstalled /\ MatchedIsInstalled
    BY DEF MatchInvariant
  <2> SUFFICES NumbersGiven' /\ PendingAlone' /\ NamedIsInstalled' /\ MatchedIsInstalled'
    BY <2>t DEF MatchInvariant
  <2>1. CASE Transmit
    <3>1. policy'.acceptance = policy.acceptance
      BY <2>1, <2>t DEF Transmit, SendAcceptance, SendLive, SendClcw, TypeOK, Policy
    <3>2. UNCHANGED <<live, installed, tx_arsn, pending, wire>>
      BY <2>1 DEF Transmit, SendAcceptance, SendLive, SendClcw, Carry, acceptor, sender
    <3>3. MatchedIsInstalled'
      <4>1. CASE SendAcceptance
        BY <4>1, <3>2, <2>m DEF SendAcceptance, Carry, Received, NamedIsInstalled,
           MatchedIsInstalled
      <4>2. CASE SendLive
        BY <4>2, <3>2, <2>m DEF SendLive, Carry, Received, NamedIsInstalled,
           MatchedIsInstalled
      <4>3. CASE SendClcw
        BY <4>3, <2>m DEF SendClcw, acceptor, sender, MatchedIsInstalled
      <4> QED
        BY <4>1, <4>2, <4>3, <2>1 DEF Transmit
    <3> QED
      BY <3>1, <3>2, <3>3, <2>m DEF NumbersGiven, PendingAlone, NamedIsInstalled,
         NamesOtar
  <2>2. CASE CandidateArrives
    <3>1. Arrives("CANDIDATE") /\ pending = NoOtar
      BY <2>2, <2>m, ArrivesAlone DEF CandidateArrives
    <3>2. NumbersGiven'
      BY <2>2, <3>1, <2>t, <2>m, ArrivesNumbers
         DEF CandidateArrives, Arrives, NextFsr, NumbersGiven
    <3> QED
      BY <2>2, <3>1, <3>2, <2>m DEF CandidateArrives, Arrives, PendingAlone,
         NamedIsInstalled, MatchedIsInstalled
  <2>3. CASE OtarArrives
    <3>1. Arrives("OTAR")
      BY <2>3 DEF OtarArrives
    <3>2. UNCHANGED <<tx_arsn, pending, matched>>
      BY <3>1 DEF Arrives
    <3>3. live' = NextFsr("maintenance") /\ policy'.acceptance = NextFsr("maintenance")
      BY <2>3, <2>t DEF OtarArrives, TypeOK, Policy
    <3>4. NumbersGiven'
      BY <3>1, <3>2, <3>3, <2>t, <2>m, ArrivesNumbers DEF NextFsr, NumbersGiven
    <3>5. pending # NoOtar => installed' = pending.otar /\ wire' = <<>>
      BY <2>3, <3>1, <2>m, ArrivesAlone DEF OtarArrives
    <3> QED
      BY <3>2, <3>4, <3>5, <2>m DEF PendingAlone, NamedIsInstalled, MatchedIsInstalled
  <2>4. CASE StatusArrives
    <3>1. Arrives("STATUS") /\ pending = NoOtar
      BY <2>4, <2>m, ArrivesAlone DEF StatusArrives
    <3>2. policy'.acceptance \in {policy.acceptance, NoFsr}
      BY <2>4, <2>t DEF StatusArrives, TypeOK, Policy
    <3>3. live'.spi # "maintenance"
      BY <2>4 DEF StatusArrives, NextFsr
    <3>4. NumbersGiven'
      BY <3>1, <3>2, <3>3, <2>t, <2>m, ArrivesNumbers DEF Arrives, NumbersGiven, NoFsr
    <3> QED
      BY <3>1, <3>4, <2>m DEF Arrives, PendingAlone, NamedIsInstalled,
         MatchedIsInstalled
  <2>5. CASE Sync
    <3>1. policy'.acceptance = NoFsr
      BY <2>5 DEF Sync, FreshPolicy
    <3>2. UNCHANGED <<live, installed, tx_arsn, pending, matched, wire>>
      BY <2>5 DEF Sync, acceptor, sender
    <3> QED
      BY <3>1, <3>2, <2>m DEF NumbersGiven, PendingAlone, NamedIsInstalled,
         MatchedIsInstalled, NamesOtar, NoFsr
  <2>6. CASE SendCandidate
    <3>1. pending = NoOtar /\ UNCHANGED <<policy, live, pending>> /\ matched' = FALSE
      BY <2>6 DEF SendCandidate, acceptor
    <3>2. \A i \in 1..Len(wire') : wire'[i].kind # "STATUS" => wire'[i].arsn < tx_arsn'
      BY <2>6, <2>t, <2>m, SubmitNumbers DEF SendCandidate
    <3>3. tx_arsn' = tx_arsn + 1
      BY <2>6 DEF SendCandidate, Protect
    <3>4. NumbersGiven'
      BY <3>1, <3>2, <3>3, <2>f, <2>m DEF NumbersGiven, Fsr, NoFsr, Lsb
    <3> QED
      BY <3>1, <3>4 DEF PendingAlone, NamedIsInstalled, MatchedIsInstalled
  <2>7. CASE SendOtar
    <3>1. /\ pending = NoOtar /\ UNCHANGED <<policy, live, installed, matched>>
          /\ pending' = [otar |-> otars + 1, arsn |-> tx_arsn]
          /\ tx_arsn' = tx_arsn + 1 /\ tx_arsn < MaxFrames
      BY <2>7 DEF SendOtar, acceptor, Protect
    <3>2. \A i \in 1..Len(wire') : wire'[i].kind # "STATUS" => wire'[i].arsn < tx_arsn'
      BY <2>7, <2>t, <2>m, SubmitNumbers DEF SendOtar
    <3>3. NumbersGiven'
      BY <3>1, <3>2, <2>f, <2>m DEF NumbersGiven, Fsr, NoFsr, Lsb
    <3>4. PendingAlone'
      BY <2>7, <3>1 DEF SendOtar, Submit, PendingAlone
    <3>5. pending'.arsn % LsbValues = tx_arsn
      BY <3>1, <2>f, LsbExact, LsbAssumption, BoundsAssumption
    <3>6. NamedIsInstalled'
      BY <3>1, <3>5, <2>f, <2>m DEF NamedIsInstalled, NamesOtar, NumbersGiven, Fsr, Lsb
    <3> QED
      BY <3>1, <3>3, <3>4, <3>6, <2>m DEF MatchedIsInstalled
  <2>8. CASE Commit
    BY <2>8, <2>m DEF Commit, acceptor, NumbersGiven, PendingAlone, NamedIsInstalled,
       MatchedIsInstalled
  <2>9. CASE SendStatus
    <3>1. pending = NoOtar /\ UNCHANGED <<policy, live, pending, matched, tx_arsn>>
      BY <2>9 DEF SendStatus, acceptor
    <3>2. \A i \in 1..Len(wire') : wire'[i].kind # "STATUS" => wire'[i].arsn < tx_arsn'
      BY <2>9, <2>t, <2>m, SubmitNumbers DEF SendStatus
    <3> QED
      BY <3>1, <3>2, <2>m DEF NumbersGiven, PendingAlone, NamedIsInstalled,
         MatchedIsInstalled
  <2>10. CASE LinkFails
    BY <2>10, <2>m DEF LinkFails, acceptor, NumbersGiven, PendingAlone,
       NamedIsInstalled, MatchedIsInstalled, NamesOtar
  <2>11. CASE Reboot
    BY <2>11 DEF Reboot
  <2>12. CASE ClcwChanges \/ AcceptorElects \/ UNCHANGED vars
    <3>1. UNCHANGED <<policy, live, installed, tx_arsn, pending, matched, wire>>
      BY <2>12 DEF ClcwChanges, AcceptorElects, acceptor, sender, vars
    <3> QED
      BY <3>1, <2>m DEF NumbersGiven, PendingAlone, NamedIsInstalled,
         MatchedIsInstalled, NamesOtar
  <2> QED
    BY <2>1, <2>2, <2>3, <2>4, <2>5, <2>6, <2>7, <2>8, <2>9, <2>10, <2>11, <2>12
       DEF Next
<1>3. MatchInvariant => MatchMeansAccepted
  BY DEF MatchInvariant, MatchedIsInstalled, MatchMeansAccepted
<1> QED
  BY <1>1, <1>2, <1>3, PTL DEF Spec
=============================================================================
