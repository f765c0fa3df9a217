--------------------------- MODULE LinkControlProofs ---------------------------
(***************************************************************************)
(* Supervision of the link for any sequence space, any confirmation time   *)
(* and any number of faults: a link that failed is never taken for ready,  *)
(* and as long as no capture holds the worker, a link in use is never      *)
(* given up because of late datagrams.                                     *)
(***************************************************************************)
EXTENDS LinkControl, TLAPS

-----------------------------------------------------------------------------
(* Types.                                                                  *)

(* What a CLCW makes of the FOP is a FOP whose numbers are in order.       *)
LEMMA FopType ==
  ASSUME TypeOK, fop.acked <= fop.vs, NEW c \in Datagram
  PROVE  /\ Recovered(c) \in Fop /\ Recovered(c).acked = Recovered(c).vs
         /\ \A f \in FopAfter(c) : f \in Fop /\ f.acked <= f.vs
<1>1. c.report \in Sequence /\ c.flag \in Flags
  BY DEF Datagram
<1>2. Recovered(c) \in Fop /\ Recovered(c).acked = Recovered(c).vs
  BY <1>1 DEF Recovered, Fop, FopStates
<1>3. ASSUME NEW f \in FopAfter(c)
      PROVE  f \in Fop /\ f.acked <= f.vs
  <2>1. CASE f = [state |-> "active", vs |-> c.report, acked |-> c.report]
    BY <1>1, <2>1 DEF Fop, FopStates, Sequence
  <2>2. CASE f = fop \/ f = [fop EXCEPT !.state = "initial"]
    BY <2>2 DEF TypeOK, Fop, FopStates
  <2>3. CASE ~OutOfRange(c) /\ fop.state = "active" /\ f = [fop EXCEPT !.acked = c.report]
    BY <1>1, <2>3, BoundsAssumption DEF TypeOK, Fop, FopStates, OutOfRange, Sequence
  <2>4. CASE f = [fop EXCEPT !.state = "active", !.acked = fop.vs]
    <3>1. f.vs = fop.vs /\ f.acked = fop.vs /\ f.state = "active" /\ fop.vs \in Sequence
      BY <2>4 DEF TypeOK, Fop
    <3>2. f \in Fop
      BY <2>4, <3>1 DEF TypeOK, Fop, FopStates
    <3> QED
      BY <3>1, <3>2 DEF Sequence
  <2> QED
    BY <1>3, <2>1, <2>2, <2>3, <2>4 DEF FopAfter
<1> QED
  BY <1>2, <1>3

(* The CLCW a tick recovers from is typed.                                 *)
LEMMA RecoveredType ==
  ASSUME TypeOK
  PROVE  Recovered(new) \in Fop /\ Recovered(new).acked = Recovered(new).vs
BY DEF TypeOK, Recovered, Fop, FopStates

(* Types, and acknowledgements that do not run ahead of V(S).              *)
Typed == TypeOK /\ fop.acked <= fop.vs

LEMMA NoClcwType == NoClcw \in [valid : BOOLEAN, report : Sequence, flag : Flags]
BY BoundsAssumption DEF NoClcw, Sequence, Flags

LEMMA UndivergedType ==
  Undiverged \in [observed : BOOLEAN, report : Sequence, age : 0..Confirm, real : BOOLEAN,
                  held : BOOLEAN]
BY BoundsAssumption, TimeAssumption DEF Undiverged, Sequence

LEMMA InitTyped == Init => Typed
<1> SUFFICES ASSUME Init PROVE Typed
  OBVIOUS
<1>1. fop \in Fop /\ fop.acked <= fop.vs
  BY BoundsAssumption DEF Init, Fop, FopStates, Sequence
<1> QED
  <2>1. farm \in Farm /\ clcws \subseteq Datagram /\ faults \in 0..MaxFaults
    BY BoundsAssumption, FarmsAssumption DEF Init
  <2>2. divergence = Undiverged /\ new = NoClcw
    BY DEF Init
  <2>3. /\ phase \in Phases /\ peer_ready \in BOOLEAN /\ initial \in BOOLEAN
        /\ status \in BOOLEAN /\ capturing \in BOOLEAN
    BY DEF Init, Phases
  <2>4. rx_queue \in Seq(Datagram) /\ Len(rx_queue) <= RxDepth
    <3>1. rx_queue = <<>>
      BY DEF Init
    <3> QED
      BY <3>1, BoundsAssumption
  <2> QED
    BY <1>1, <2>1, <2>2, <2>3, <2>4, NoClcwType, UndivergedType DEF Typed, TypeOK

(* What the worker takes next is a datagram, and so is what it leaves.     *)
LEMMA WaitingType ==
  ASSUME Typed, NEW c \in Waiting, Arrives(c)
  PROVE  /\ c \in Datagram /\ clcws' \subseteq clcws
         /\ rx_queue' \in Seq(Datagram) /\ Len(rx_queue') <= Len(rx_queue)
         /\ \A i \in DOMAIN rx_queue' : \E j \in DOMAIN rx_queue : rx_queue'[i] = rx_queue[j]
<1>1. CASE rx_queue = <<>>
  <2>1. c \in clcws /\ clcws' = clcws \ {c} /\ rx_queue' = rx_queue
    BY <1>1 DEF Waiting, Arrives
  <2> QED
    BY <1>1, <2>1 DEF Typed, TypeOK
<1>2. CASE rx_queue # <<>>
  <2>1. c = Head(rx_queue) /\ clcws' = clcws /\ rx_queue' = Tail(rx_queue)
    BY <1>2 DEF Waiting, Arrives
  <2>2. rx_queue \in Seq(Datagram)
    BY DEF Typed, TypeOK
  <2>3. Head(rx_queue) \in Datagram /\ Tail(rx_queue) \in Seq(Datagram)
    BY <1>2, <2>2
  <2>4. Len(Tail(rx_queue)) = Len(rx_queue) - 1 /\ Len(rx_queue) \in Nat
    BY <1>2, <2>2
  <2>5. ASSUME NEW i \in DOMAIN Tail(rx_queue)
        PROVE  \E j \in DOMAIN rx_queue : Tail(rx_queue)[i] = rx_queue[j]
    <3>1. i + 1 \in DOMAIN rx_queue /\ Tail(rx_queue)[i] = rx_queue[i + 1]
      BY <1>2, <2>2, <2>5
    <3> QED
      BY <3>1
  <2> QED
    BY <2>1, <2>3, <2>4, <2>5
<1> QED
  BY <1>1, <1>2

LEMMA ArrivesTyped ==
  ASSUME Typed, NEW c \in Waiting, Arrives(c)
  PROVE  Typed'
<1> USE DEF Handled
<1>0. /\ clcws' \subseteq Datagram /\ rx_queue' \in Seq(Datagram)
      /\ Len(rx_queue') <= RxDepth
  BY WaitingType, BoundsAssumption DEF Typed, TypeOK
<1>1. c \in Datagram /\ c.report \in Sequence /\ c.flag \in Flags /\ c.status \in BOOLEAN
  BY WaitingType DEF Datagram
<1>2. fop' \in Fop /\ fop'.acked <= fop'.vs
  <2>1. Recovered(c).vs \in Nat
    BY <1>1 DEF Recovered, Sequence
  <2> QED
    BY <1>1, <2>1, FopType DEF Typed, Arrives, RecoverFromRestart
<1>3. divergence' \in [observed : BOOLEAN, report : Sequence, age : 0..Confirm,
                       real : BOOLEAN, held : BOOLEAN]
  <2>1. Undiverged \in [observed : BOOLEAN, report : Sequence, age : 0..Confirm,
                        real : BOOLEAN, held : BOOLEAN]
    BY UndivergedType
  <2>2. [observed |-> TRUE, report |-> c.report, age |-> 0, real |-> ~InStep,
         held |-> FALSE]
          \in [observed : BOOLEAN, report : Sequence, age : 0..Confirm, real : BOOLEAN,
               held : BOOLEAN]
    <3>1. 0 \in 0..Confirm
      BY TimeAssumption
    <3>2. (~InStep) \in BOOLEAN
      BY DEF InStep
    <3> QED
      BY <1>1, <3>1, <3>2, Zenon
  <2> QED
    BY <2>1, <2>2 DEF Arrives, RecoverFromRestart, Observed, Typed, TypeOK
<1>4. new' \in [valid : BOOLEAN, report : Sequence, flag : Flags]
  BY <1>1 DEF Arrives
<1>5. /\ phase' \in Phases /\ peer_ready' \in BOOLEAN /\ initial' \in BOOLEAN
      /\ status' \in BOOLEAN /\ farm' \in Farm /\ capturing' \in BOOLEAN
      /\ faults' \in 0..MaxFaults
  BY DEF Arrives, RecoverFromRestart, control, Phases, Typed, TypeOK
<1> QED
  BY <1>0, <1>2, <1>3, <1>4, <1>5 DEF Typed, TypeOK

(* The steps of the library, the network and time.                         *)
External == \/ SendFrame \/ (\E n \in Sequence : FrameArrives(n)) \/ ControlArrives
            \/ Feedback(TRUE) \/ Feedback(FALSE) \/ TimePasses \/ PeerRestarts
            \/ (\E c \in clcws : Received(c))

LEMMA ExternalTyped ==
  ASSUME Typed, External
  PROVE  Typed'
<1> USE BoundsAssumption DEF Typed, TypeOK, ingress
<1>1. CASE SendFrame
  BY <1>1, WindowAssumption DEF SendFrame, control, Fop, Sequence
<1>2. ASSUME NEW n \in Sequence, FrameArrives(n)
      PROVE  Typed'
  <2>1. n + 1 \in Sequence
    BY <1>2 DEF FrameArrives, Fop, Sequence
  <2>2. farm' \in Farm
    BY <1>2, <2>1 DEF FrameArrives, Farm
  <2> QED
    BY <1>2, <2>2 DEF FrameArrives, control
<1>3. CASE ControlArrives
  <2>1. farm' \in Farm
    BY <1>3 DEF ControlArrives, Farm, Fop
  <2> QED
    BY <1>3, <2>1 DEF ControlArrives, control
<1>4. ASSUME NEW s \in BOOLEAN, Feedback(s)
      PROVE  Typed'
  <2>1. [report |-> farm.vr, flag |-> Flag, status |-> s, age |-> 0] \in Datagram
    BY <1>4, TimeAssumption DEF Datagram, Flag, Flags, Farm
  <2> QED
    BY <1>4, <2>1 DEF Feedback, control
<1>5. CASE TimePasses
  <2>1. clcws' \subseteq Datagram
    <3>1. PICK lost \in SUBSET clcws :
            clcws' = {[c EXCEPT !.age = @ + 1] : c \in {d \in clcws \ lost : d.age < MaxDelay}}
      BY <1>5 DEF TimePasses
    <3>2. ASSUME NEW c \in Datagram, c.age < MaxDelay
          PROVE  [c EXCEPT !.age = @ + 1] \in Datagram
      BY <3>2, TimeAssumption DEF Datagram
    <3> QED
      BY <3>1, <3>2
  <2>2. divergence' \in [observed : BOOLEAN, report : Sequence, age : 0..Confirm,
                         real : BOOLEAN, held : BOOLEAN]
    BY <1>5, TimeAssumption DEF TimePasses
  <2> QED
    BY <1>5, <2>1, <2>2 DEF TimePasses, control
<1>6. CASE PeerRestarts
  <2>1. farm' \in Farm
    BY <1>6 DEF PeerRestarts, Farm, Sequence
  <2>2. divergence' \in [observed : BOOLEAN, report : Sequence, age : 0..Confirm,
                         real : BOOLEAN, held : BOOLEAN]
    BY <1>6 DEF PeerRestarts
  <2> QED
    BY <1>6, <2>1, <2>2 DEF PeerRestarts, control, Fault
<1>7. ASSUME NEW c \in clcws, Received(c)
      PROVE  Typed'
  <2>1. rx_queue' \in Seq(Datagram) /\ Len(rx_queue') <= RxDepth
    <3>1. CASE Len(rx_queue) < RxDepth
      <4>1. rx_queue' = Append(rx_queue, c) /\ c \in Datagram
        BY <1>7, <3>1 DEF Received
      <4>2. Len(Append(rx_queue, c)) = Len(rx_queue) + 1 /\ Len(rx_queue) \in Nat
        OBVIOUS
      <4> QED
        BY <3>1, <4>1, <4>2
    <3>2. CASE ~(Len(rx_queue) < RxDepth)
      BY <1>7, <3>2 DEF Received
    <3> QED
      BY <3>1, <3>2
  <2> QED
    BY <1>7, <2>1 DEF Received, control
<1> QED
  BY <1>1, <1>2, <1>3, <1>4, <1>5, <1>6, <1>7 DEF External

(* The steps of the worker other than the arrival of a datagram.           *)
Supervision == \/ HandleStatus \/ Tick \/ Exhausts \/ ExhaustsInSubmission \/ PeerSilent
               \/ Capture \/ Captured
               \/ SyncTx \/ Unlock("unlocking") \/ Unlock("setting")

(* A fault is counted.                                                     *)
LEMMA FaultType ==
  ASSUME faults \in 0..MaxFaults, NEW kind, Fault(kind)
  PROVE  faults' \in 0..MaxFaults
BY BoundsAssumption DEF Fault

LEMMA SupervisionTyped ==
  ASSUME Typed, Supervision
  PROVE  Typed'
<1> USE BoundsAssumption, NoClcwType DEF Typed, TypeOK, Phases, ingress
<1>1. CASE HandleStatus
  BY <1>1 DEF HandleStatus
<1>2. CASE LinkReturns \/ DirtyStart
  <2>1. fop' \in Fop /\ fop'.acked = fop'.vs /\ fop'.vs \in Nat
    BY <1>2, RecoveredType DEF LinkReturns, DirtyStart, Fop, Sequence
  <2> QED
    BY <1>2, <2>1 DEF LinkReturns, DirtyStart, Advance
<1>3. CASE LockedOut
  <2>1. fop' \in Fop /\ fop'.acked <= fop'.vs
    <3>1. CASE ~initial
      BY <1>3, <3>1 DEF LockedOut
    <3>2. CASE initial
      <4>1. fop' = [fop EXCEPT !.state = "unlocking", !.acked = fop.vs]
        BY <1>3, <3>2 DEF LockedOut
      <4>2. fop'.vs = fop.vs /\ fop'.acked = fop.vs /\ fop.vs \in Sequence
        BY <4>1 DEF Fop
      <4>3. fop' \in Fop
        BY <4>1, <4>2 DEF Fop, FopStates
      <4> QED
        BY <4>2, <4>3 DEF Sequence
    <3> QED
      BY <3>1, <3>2
  <2> QED
    BY <1>3, <2>1 DEF LockedOut, Advance
<1>4. CASE Synchronized
  BY <1>4 DEF Synchronized, Advance
<1>5. CASE Looks
  BY <1>5 DEF Looks, Advance, control
<1>6. CASE Exhausts
  <2>1. fop' \in Fop /\ fop'.acked <= fop'.vs
    BY <1>6 DEF Exhausts, Fop, FopStates
  <2> QED
    BY <1>6, <2>1, FaultType DEF Exhausts, Advance
<1>7. CASE ExhaustsInSubmission
  <2>1. fop' \in Fop /\ fop'.acked <= fop'.vs
    BY <1>7 DEF ExhaustsInSubmission, Fop, FopStates
  <2> QED
    BY <1>7, <2>1, FaultType DEF ExhaustsInSubmission, control
<1>8. CASE PeerSilent
  BY <1>8, FaultType DEF PeerSilent
<1>9. CASE SyncTx
  <2>1. fop' \in Fop /\ fop'.acked <= fop'.vs
    BY <1>9 DEF SyncTx, Fop, FopStates, Sequence
  <2> QED
    BY <1>9, <2>1, FaultType DEF SyncTx
<1>10. ASSUME NEW command \in {"unlocking", "setting"}, Unlock(command)
       PROVE  Typed'
  <2>1. fop' \in Fop /\ fop'.acked <= fop'.vs
    BY <1>10 DEF Unlock, Fop, FopStates, Sequence
  <2> QED
    BY <1>10, <2>1, FaultType DEF Unlock
<1>11. CASE Capture
  <2>1. divergence' \in [observed : BOOLEAN, report : Sequence, age : 0..Confirm,
                         real : BOOLEAN, held : BOOLEAN]
    BY <1>11 DEF Capture
  <2> QED
    BY <1>11, <2>1, FaultType DEF Capture, control
<1>12. CASE Captured
  BY <1>12 DEF Captured, control
<1> QED
  BY <1>1, <1>2, <1>3, <1>4, <1>5, <1>6, <1>7, <1>8, <1>9, <1>10, <1>11, <1>12
     DEF Supervision, Tick

(* Every step is one of the three kinds.                                   *)
LEMMA StepKinds ==
  Next <=> External \/ (\E c \in Waiting : Arrives(c)) \/ Supervision
BY DEF Next, External, Supervision

LEMMA NextTyped == Typed /\ [Next]_vars => Typed'
<1>1. ASSUME Typed, UNCHANGED vars
      PROVE  Typed'
  BY <1>1 DEF Typed, TypeOK, vars
<1> QED
  BY <1>1, ArrivesTyped, ExternalTyped, SupervisionTyped, StepKinds

(* Phases, counters and flags have their types.                            *)
THEOREM TypeCorrect == Spec => []TypeOK
<1>1. Typed => TypeOK
  BY DEF Typed
<1> QED
  BY <1>1, InitTyped, NextTyped, PTL DEF Spec

(* The sequence numbers stay typed and in order.                           *)
LEMMA AlwaysTyped == Spec => []Typed
BY InitTyped, NextTyped, PTL DEF Spec

-----------------------------------------------------------------------------
(* A peer is never taken for ready over a link that has failed: every step *)
(* that declares the failure withdraws the peer, and a status is refused   *)
(* until the link returns.                                                 *)
THEOREM FailedLinksNotReady == Spec => []FailedNotReady
<1>1. Init => FailedNotReady
  BY DEF Init, FailedNotReady
<1>2. ASSUME FailedNotReady, [Next]_vars
      PROVE  FailedNotReady'
  <2> USE <1>2 DEF FailedNotReady
  <2>1. CASE UNCHANGED vars
    BY <2>1 DEF vars
  <2>2. CASE External
    BY <2>2 DEF External, SendFrame, FrameArrives, ControlArrives, Feedback, TimePasses,
                PeerRestarts, Received, control
  <2>3. CASE \E c \in Waiting : Arrives(c)
    BY <2>3 DEF Arrives, Handled, RecoverFromRestart, control
  <2>4. CASE HandleStatus
    BY <2>4 DEF HandleStatus
  <2>5. CASE Tick
    BY <2>5 DEF Tick, LinkReturns, DirtyStart, LockedOut, Synchronized, Looks, control
  <2>6. CASE Exhausts \/ ExhaustsInSubmission \/ PeerSilent \/ Capture \/ Captured
    BY <2>6 DEF Exhausts, ExhaustsInSubmission, PeerSilent, Capture, Captured, control
  <2>7. CASE SyncTx \/ Unlock("unlocking") \/ Unlock("setting")
    BY <2>7 DEF SyncTx, Unlock
  <2> QED
    BY <2>1, <2>2, <2>3, <2>4, <2>5, <2>6, <2>7, StepKinds DEF Supervision
<1> QED
  BY <1>1, <1>2, PTL DEF Spec

-----------------------------------------------------------------------------
(* A divergence names the CLCW that came last, unless the operator has     *)
(* cleared it.                                                             *)
NamesLast == divergence.observed /\ new.valid => divergence.report = new.report

(* An open divergence outlives the start of a capture only as held.        *)
HeldKnown == capturing /\ divergence.observed => divergence.held

(* While a divergence from a link in step is open and no capture has held  *)
(* the worker, the FARM does not send its report, and every datagram that  *)
(* carries it was sent before.                                             *)
SentBefore(c) == c.report = divergence.report => c.age >= divergence.age

OnlyLate ==
  divergence.observed /\ ~divergence.real /\ ~divergence.held /\ fop.state = "active"
    /\ divergence.report \notin fop.acked..fop.vs
  => /\ farm.vr # divergence.report
     /\ \A c \in clcws : SentBefore(c)
     /\ \A i \in DOMAIN rx_queue : SentBefore(rx_queue[i])

Follows == NamesLast /\ HeldKnown /\ OnlyLate

LEMMA ArrivesFollows ==
  ASSUME Typed, Follows, NEW c \in Waiting, Arrives(c)
  PROVE  Follows'
<1> USE DEF Handled
<1>0. ~capturing' /\ HeldKnown'
  BY DEF Arrives, Awake, HeldKnown
<1>1. new'.valid /\ new'.report = c.report /\ clcws' \subseteq clcws /\ farm' = farm
  BY WaitingType DEF Arrives
<1>2. CASE divergence' = Undiverged
  BY <1>0, <1>2 DEF Undiverged, Follows, NamesLast, OnlyLate
<1>3. CASE divergence' # Undiverged
  <2>1. fop' \in FopAfter(c) /\ divergence' = Observed(c) /\ OutOfRange(c)
    BY <1>3 DEF Arrives, RecoverFromRestart, Observed
  <2>2. divergence'.observed /\ divergence'.report = c.report
    BY <2>1 DEF Observed
  <2>3. fop'.state = "active" => fop' = fop
    <3>1. fop.state # "waiting" /\ c.report \notin fop.acked..fop.vs
      BY <2>1 DEF OutOfRange
    <3>2. c.report = fop.vs => c.report \in fop.acked..fop.vs
      BY DEF Typed, TypeOK, Fop, Sequence
    <3>3. [fop EXCEPT !.state = "initial"].state = "initial"
      BY DEF Typed, TypeOK, Fop
    <3> QED
      BY <2>1, <3>1, <3>2, <3>3 DEF FopAfter
  <2>4. NamesLast'
    BY <1>1, <2>2 DEF NamesLast
  <2>5. CASE divergence' = divergence
    <3>1. \A i \in DOMAIN rx_queue' : \E j \in DOMAIN rx_queue : rx_queue'[i] = rx_queue[j]
      BY WaitingType
    <3> QED
      BY <1>0, <1>1, <2>3, <2>4, <2>5, <3>1 DEF Follows, OnlyLate, SentBefore
  <2>6. CASE divergence' # divergence
    <3>1. divergence' = [observed |-> TRUE, report |-> c.report, age |-> 0,
                         real |-> ~InStep, held |-> FALSE]
      BY <2>1, <2>6 DEF Observed
    <3>2. ~divergence'.real => farm.vr \in fop.acked..fop.vs
      BY <3>1 DEF InStep
    <3>3. \A d \in Datagram : d.age >= divergence'.age
      BY <3>1, TimeAssumption DEF Datagram
    <3>4. /\ \A d \in clcws' : d \in Datagram
          /\ \A i \in DOMAIN rx_queue' : rx_queue'[i] \in Datagram
      BY WaitingType DEF Typed, TypeOK
    <3>5. OnlyLate'
      BY <1>1, <2>3, <3>1, <3>2, <3>3, <3>4 DEF OnlyLate, SentBefore
    <3> QED
      BY <1>0, <2>4, <3>5 DEF Follows
  <2> QED
    BY <2>5, <2>6
<1> QED
  BY <1>2, <1>3

LEMMA ExternalFollows ==
  ASSUME Typed, Follows, External
  PROVE  Follows'
<1> USE DEF Follows, NamesLast, HeldKnown, ingress, SentBefore
<1>1. CASE SendFrame
  <2>1. \A n \in Sequence : n \in fop.acked..fop.vs => n \in fop'.acked..fop'.vs
    BY <1>1, BoundsAssumption DEF SendFrame, Typed, TypeOK, Fop, Sequence
  <2>2. divergence.report \in Sequence
    BY DEF Typed, TypeOK
  <2>3. fop'.state = fop.state
    BY <1>1 DEF SendFrame, Typed, TypeOK, Fop
  <2> QED
    BY <1>1, <2>1, <2>2, <2>3 DEF SendFrame, OnlyLate
<1>2. ASSUME NEW n \in Sequence, FrameArrives(n)
      PROVE  Follows'
  <2>1. farm'.vr = farm.vr \/ farm'.vr = n + 1
    BY <1>2 DEF FrameArrives, Typed, TypeOK, Farm
  <2>2. n + 1 \in fop.acked..fop.vs
    BY <1>2, BoundsAssumption DEF FrameArrives, Typed, TypeOK, Fop, Sequence
  <2> QED
    BY <1>2, <2>1, <2>2 DEF FrameArrives, OnlyLate
<1>3. CASE ControlArrives
  BY <1>3 DEF ControlArrives, OnlyLate
<1>4. ASSUME NEW s \in BOOLEAN, Feedback(s)
      PROVE  Follows'
  BY <1>4 DEF Feedback, OnlyLate
<1>5. CASE TimePasses
  <2>1. /\ divergence'.observed = divergence.observed
        /\ divergence'.report = divergence.report
        /\ divergence'.real = divergence.real /\ divergence'.held = divergence.held
        /\ divergence'.age <= divergence.age + 1
    BY <1>5 DEF TimePasses, Typed, TypeOK
  <2>2. \A d \in clcws' : \E c \in clcws : d.report = c.report /\ d.age = c.age + 1
    BY <1>5 DEF TimePasses, Typed, TypeOK, Datagram
  <2>3. \A c \in clcws : c.age \in Nat
    BY TimeAssumption DEF Typed, TypeOK, Datagram
  <2>4. divergence.age \in Nat /\ divergence'.age \in Nat
    BY <1>5, TimeAssumption DEF TimePasses, Typed, TypeOK
  <2>5. UNCHANGED <<new, fop, farm, rx_queue, capturing>>
    BY <1>5 DEF TimePasses
  <2>6. CASE capturing
    BY <2>1, <2>5, <2>6 DEF OnlyLate
  <2>7. CASE ~capturing
    <3>1. rx_queue' = <<>>
      BY <1>5, <2>7 DEF TimePasses, Awake
    <3>2. \A d \in clcws' : OnlyLate /\ divergence.observed /\ ~divergence.real
             /\ ~divergence.held /\ fop.state = "active"
             /\ divergence.report \notin fop.acked..fop.vs
             => (d.report = divergence'.report => d.age >= divergence'.age)
      BY <2>1, <2>2, <2>3, <2>4 DEF OnlyLate
    <3>3. OnlyLate'
      BY <2>1, <2>5, <3>1, <3>2 DEF OnlyLate
    <3> QED
      BY <2>1, <2>5, <3>3
  <2> QED
    BY <2>6, <2>7
<1>6. CASE PeerRestarts
  <2>1. /\ divergence'.observed = divergence.observed
        /\ divergence'.report = divergence.report
        /\ divergence'.held = divergence.held
        /\ divergence.observed => divergence'.real
    BY <1>6 DEF PeerRestarts, Typed, TypeOK
  <2> QED
    BY <1>6, <2>1 DEF PeerRestarts, OnlyLate
<1>7. ASSUME NEW c \in clcws, Received(c)
      PROVE  Follows'
  BY <1>7 DEF Received, OnlyLate
<1> QED
  BY <1>1, <1>2, <1>3, <1>4, <1>5, <1>6, <1>7 DEF External

LEMMA SupervisionFollows ==
  ASSUME Typed, Follows, Supervision
  PROVE  Follows'
<1> USE DEF HeldKnown, ingress, SentBefore
<1>1. CASE HandleStatus
  BY <1>1 DEF HandleStatus, Follows, NamesLast, OnlyLate
<1>2. CASE LinkReturns \/ DirtyStart
  <2>1. new.valid
    BY <1>2 DEF LinkReturns, DirtyStart, DirtyStartup
  <2>2. /\ fop' = Recovered(new) /\ divergence' = divergence /\ new' = NoClcw
        /\ UNCHANGED <<farm, clcws, rx_queue, capturing>>
    BY <1>2 DEF LinkReturns, DirtyStart, Advance
  <2>3. divergence.observed => divergence.report \in fop'.acked..fop'.vs
    BY <2>1, <2>2 DEF Recovered, Follows, NamesLast, Typed, TypeOK, Sequence
  <2> QED
    BY <2>2, <2>3 DEF Follows, NamesLast, OnlyLate, NoClcw
<1>3. CASE LockedOut
  <2>1. fop'.state # "active"
    BY <1>3 DEF LockedOut, Typed, TypeOK, Fop
  <2> QED
    BY <1>3, <2>1 DEF LockedOut, Advance, Follows, NamesLast, OnlyLate, NoClcw
<1>4. CASE Synchronized \/ Looks
  BY <1>4 DEF Synchronized, Looks, Advance, Follows, NamesLast, OnlyLate, NoClcw
<1>5. CASE Exhausts \/ ExhaustsInSubmission
  <2>1. fop'.state # "active"
    BY <1>5 DEF Exhausts, ExhaustsInSubmission, Typed, TypeOK, Fop
  <2> QED
    BY <1>5, <2>1 DEF Exhausts, ExhaustsInSubmission, Advance, Follows, NamesLast,
                      OnlyLate, NoClcw
<1>6. CASE PeerSilent
  BY <1>6 DEF PeerSilent, Follows, NamesLast, OnlyLate
<1>7. CASE SyncTx \/ Unlock("unlocking") \/ Unlock("setting")
  <2>1. fop'.state # "active" /\ (new' = NoClcw \/ new' = new)
        /\ UNCHANGED <<divergence, capturing>>
    BY <1>7 DEF SyncTx, Unlock
  <2> QED
    BY <2>1 DEF Follows, NamesLast, OnlyLate, NoClcw
<1>8. CASE Capture
  <2>1. /\ divergence'.observed = divergence.observed
        /\ divergence'.report = divergence.report
        /\ divergence.observed => divergence'.held
    BY <1>8 DEF Capture, Typed, TypeOK
  <2> QED
    BY <1>8, <2>1 DEF Capture, Follows, NamesLast, OnlyLate
<1>9. CASE Captured
  BY <1>9 DEF Captured, Follows, NamesLast, OnlyLate
<1> QED
  BY <1>1, <1>2, <1>3, <1>4, <1>5, <1>6, <1>7, <1>8, <1>9 DEF Supervision, Tick

LEMMA AlwaysFollows == Spec => []Follows
<1>1. Init => Follows
  BY DEF Init, Follows, NamesLast, HeldKnown, OnlyLate, NoClcw, Undiverged
<1>2. ASSUME Typed, Follows, UNCHANGED vars
      PROVE  Follows'
  BY <1>2 DEF vars, Follows, NamesLast, HeldKnown, OnlyLate, SentBefore
<1>3. Typed /\ Follows /\ [Next]_vars => Follows'
  BY <1>2, ArrivesFollows, ExternalFollows, SupervisionFollows, StepKinds
<1> QED
  BY <1>1, <1>3, AlwaysTyped, PTL DEF Spec

(* A link in use is given up for a restart of the peer only if the peer    *)
(* was out of step when the divergence was first seen, has restarted       *)
(* since, or a capture has held the worker since: a report that confirms   *)
(* the divergence would otherwise have been on its way for longer than the *)
(* network keeps a datagram.                                               *)
THEOREM NoFalseRestarts == Spec => NoFalseRestart
<1>1. ASSUME Typed, Follows, NEW c \in Waiting, Arrives(c),
             peer_ready, fop.state = "active", ~peer_ready'
      PROVE  divergence.real \/ divergence.held
  <2>1. Confirmed(c)
    BY <1>1 DEF Arrives, Handled, DirtyReturn, KnownPeerReturn, control
  <2>2. /\ divergence.observed /\ divergence.report = c.report
        /\ c.report \notin fop.acked..fop.vs /\ divergence.age >= Confirm
    BY <2>1 DEF Confirmed, OutOfRange
  <2>3. SUFFICES ASSUME ~divergence.real, ~divergence.held
                 PROVE  FALSE
    OBVIOUS
  <2>4. c \in clcws \/ \E i \in DOMAIN rx_queue : c = rx_queue[i]
    <3>1. CASE rx_queue = <<>>
      BY <3>1 DEF Waiting
    <3>2. CASE rx_queue # <<>>
      <4>1. 1 \in DOMAIN rx_queue /\ Head(rx_queue) = rx_queue[1]
        BY <1>1, <3>2 DEF Typed, TypeOK
      <4> QED
        BY <3>2, <4>1 DEF Waiting
    <3> QED
      BY <3>1, <3>2
  <2>5. c.age >= divergence.age
    BY <1>1, <2>2, <2>3, <2>4 DEF Follows, OnlyLate, SentBefore
  <2>6. c.age \in 0..MaxDelay /\ divergence.age \in 0..Confirm
    BY <1>1, WaitingType DEF Typed, TypeOK, Datagram
  <2> QED
    BY <2>2, <2>5, <2>6, TimeAssumption
<1>2. Typed /\ Follows /\ [Next]_vars
      => [GivenUp => divergence.real \/ divergence.held]_vars
  BY <1>1 DEF GivenUp
<1> QED
  BY <1>2, AlwaysTyped, AlwaysFollows, PTL DEF Spec, NoFalseRestart
=============================================================================
