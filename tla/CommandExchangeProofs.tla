------------------------- MODULE CommandExchangeProofs -------------------------
(***************************************************************************)
(* Requests and their answers, for a ring of any size and any number of    *)
(* requests: copies are never executed, new requests are never taken for   *)
(* old ones, refusals are final, no request is swallowed, and the protocol *)
(* implements RequestService.                                              *)
(***************************************************************************)
EXTENDS CommandExchange, TLAPS

-----------------------------------------------------------------------------
(* Sequences.                                                              *)

(* What is appended comes last, and the rest stays.                        *)
LEMMA AppendFacts ==
  ASSUME NEW S, NEW q \in Seq(S), NEW e \in S
  PROVE  /\ Append(q, e) \in Seq(S)
         /\ \A i \in DOMAIN q : i \in DOMAIN Append(q, e) /\ Append(q, e)[i] = q[i]
         /\ Len(q) + 1 \in DOMAIN Append(q, e) /\ Append(q, e)[Len(q) + 1] = e
         /\ \A i \in DOMAIN Append(q, e) :
              \/ i \in DOMAIN q /\ Append(q, e)[i] = q[i]
              \/ i = Len(q) + 1 /\ Append(q, e)[i] = e
         /\ \A i \in DOMAIN q : i \in Nat /\ i < Len(q) + 1
OBVIOUS

(* What is left behind the head moves up by one.                           *)
LEMMA TailFacts ==
  ASSUME NEW S, NEW q \in Seq(S), q # <<>>
  PROVE  /\ Head(q) \in S /\ Tail(q) \in Seq(S)
         /\ 1 \in DOMAIN q /\ q[1] = Head(q)
         /\ \A i \in DOMAIN Tail(q) :
              /\ i \in Nat \ {0} /\ i + 1 \in DOMAIN q /\ Tail(q)[i] = q[i + 1]
         /\ \A i \in DOMAIN q :
              i # 1 => i \in Nat /\ i - 1 \in DOMAIN Tail(q) /\ Tail(q)[i - 1] = q[i]
OBVIOUS

-----------------------------------------------------------------------------
(* Types.                                                                  *)

(* No identifier and no copy are typed.                                    *)
LEMMA NoneType ==
  /\ None \in Ids \cup {None} /\ None \notin Ids
  /\ NoLate \in Late
  /\ Idle \in Operation /\ Pdu \in Reply /\ Empty \in [Slots -> Ids \cup {None}]
BY CapacityAssumption, BoundsAssumption
   DEF None, NoLate, Late, Ids, Slots, Idle, Operation, Pdu, Reply, Results, Empty

(* The index stays within the ring.                                        *)
LEMMA FollowingType ==
  ASSUME NEW i \in Slots
  PROVE  Following(i) \in Slots
BY CapacityAssumption DEF Following, Slots

(* A status is submitted or refused; it names the request it is given.     *)
LEMMA SendStatusType ==
  ASSUME TypeOK, NEW id \in Ids, NEW result \in Results, SendStatus(id, result)
  PROVE  replies' \in Seq(Reply) /\ lost' \in BOOLEAN
<1>1. [result |-> result, id |-> id] \in Reply
  BY DEF Reply
<1>2. Append(replies, [result |-> result, id |-> id]) \in Seq(Reply)
  BY <1>1, AppendFacts DEF TypeOK
<1> QED
  BY <1>2 DEF SendStatus, TypeOK

(* A request that is processed leaves the responder typed.                 *)
LEMMA ProcessType ==
  ASSUME TypeOK, NEW id \in Ids, Process(id)
  PROVE  /\ replies' \in Seq(Reply) /\ lost' \in BOOLEAN
         /\ entries' \in [Slots -> Ids \cup {None}] /\ next' \in Slots
         /\ operation' \in Operation
<1>1. replies' \in Seq(Reply) /\ lost' \in BOOLEAN
  BY SendStatusType DEF Process, Duplicate, Refuse, Accept, Results
<1>2. entries' \in [Slots -> Ids \cup {None}] /\ next' \in Slots
  BY FollowingType DEF TypeOK, Process, Duplicate, Refuse, Accept, Record, cache
<1>3. operation' \in Operation
  BY DEF TypeOK, Process, Duplicate, Refuse, Accept, Operation
<1> QED
  BY <1>1, <1>2, <1>3

LEMMA TypeInit == Init => TypeOK
<1> SUFFICES ASSUME Init PROVE TypeOK
  OBVIOUS
<1>1. next_request_id \in 1..(MaxRequests + 1) /\ next \in Slots
  BY CapacityAssumption, BoundsAssumption DEF Init, Slots
<1>2. requests \in Seq(Ids) /\ replies \in Seq(Reply)
  BY DEF Init
<1>3. link \in [Boards -> {"ready", "absent", "held"}]
  BY DEF Init
<1> QED
  BY <1>1, <1>2, <1>3, NoneType DEF Init, TypeOK

(* Every step keeps the types.                                             *)
LEMMA TypeStep == TypeOK /\ [Next]_vars => TypeOK'
<1> SUFFICES ASSUME TypeOK, [Next]_vars PROVE TypeOK'
  OBVIOUS
<1> USE DEF TypeOK
<1>e. <<>> \in Seq(Ids) /\ <<>> \in Seq(Reply)
  OBVIOUS
<1>1. CASE Request
  <2>1. next_request_id' \in 1..(MaxRequests + 1)
    BY <1>1, BoundsAssumption DEF Request, Ids
  <2>2. requests' \in Seq(Ids)
    <3>1. Append(requests, next_request_id) \in Seq(Ids)
      BY <1>1, AppendFacts DEF Request
    <3> QED
      BY <1>1, <3>1 DEF Request
  <2> QED
    BY <1>1, <2>1, <2>2 DEF Request, cache
<1>2. CASE StatusArrives
  <2>1. replies' \in Seq(Reply)
    BY <1>2, TailFacts DEF StatusArrives
  <2>2. deadline' \in BOOLEAN /\ answered' \in BOOLEAN
    BY <1>2 DEF StatusArrives
  <2> QED
    BY <1>2, <2>1, <2>2 DEF StatusArrives, cache
<1>3. CASE PduArrives
  <2>1. replies' \in Seq(Reply)
    BY <1>3, TailFacts DEF PduArrives
  <2> QED
    BY <1>3, <2>1 DEF PduArrives, cache, ghosts
<1>4. CASE TimesOut
  BY <1>4 DEF TimesOut, cache, wires
<1>5. CASE RequestArrives
  <2>1. Head(requests) \in Ids /\ requests' \in Seq(Ids)
    BY <1>5, TailFacts DEF RequestArrives
  <2>2. late' \in Late
    <3>1. [id |-> Head(requests), behind |-> 0] \in Late
      BY <2>1, CapacityAssumption DEF Slots, Late
    <3>2. late # NoLate /\ late.behind + 1 \in Slots =>
            [late EXCEPT !.behind = @ + 1] \in Late
      BY DEF Late
    <3> QED
      BY <1>5, <3>1, <3>2, NoneType DEF RequestArrives
  <2> QED
    BY <1>5, <2>1, <2>2, ProcessType DEF RequestArrives, requester
<1>6. CASE CopyArrives
  <2>1. Process(late.id) /\ late # NoLate
    BY <1>6 DEF CopyArrives
  <2>2. late' \in Late
    BY <1>6, NoneType DEF CopyArrives
  <2>3. /\ replies' \in Seq(Reply) /\ lost' \in BOOLEAN
        /\ entries' \in [Slots -> Ids \cup {None}] /\ next' \in Slots
        /\ operation' \in Operation
    <3>1. late.id \in Ids
      BY <2>1 DEF Late
    <3> QED
      BY <2>1, <3>1, ProcessType
  <2> QED
    BY <1>6, <2>2, <2>3 DEF CopyArrives, requester
<1>7. CASE CopyVanishes
  BY <1>7, NoneType DEF CopyVanishes, requester, cache, wires, ghosts
<1>8. ASSUME NEW i \in Slots, RetentionEnds(i) PROVE TypeOK'
  <2>1. entries' \in [Slots -> Ids \cup {None}] /\ restarted' \in BOOLEAN
    BY <1>8, NoneType DEF RetentionEnds
  <2> QED
    BY <1>8, <2>1 DEF RetentionEnds, requester, wires
<1>9. CASE LocalSend \/ Captured \/ CaptureFails \/ OperationEnds
  <2>1. operation' \in Operation
    BY <1>9, NoneType
       DEF LocalSend, Captured, CaptureFails, OperationEnds, Operation, None
  <2> QED
    BY <1>9, <2>1
       DEF LocalSend, Captured, CaptureFails, OperationEnds, requester, cache, wires, ghosts
<1>10. CASE SendPdu
  <2>1. replies' \in Seq(Reply)
    BY <1>10, AppendFacts, NoneType DEF SendPdu
  <2> QED
    BY <1>10, <2>1 DEF SendPdu, requester, cache, ghosts
<1>11. CASE OperationInactive
  <2>1. operation.id \in Ids
    BY <1>11 DEF OperationInactive, Operation
  <2>2. replies' \in Seq(Reply) /\ lost' \in BOOLEAN
    BY <1>11, <2>1, SendStatusType DEF OperationInactive, Results
  <2> QED
    BY <1>11, <2>2, NoneType DEF OperationInactive, requester, cache
<1>12. ASSUME NEW b \in Boards, LinkReady(b) \/ PeerAbsent(b) PROVE TypeOK'
  <2>1. link' \in [Boards -> {"ready", "absent", "held"}]
    BY <1>12 DEF LinkReady, PeerAbsent
  <2> QED
    BY <1>12, <2>1 DEF LinkReady, PeerAbsent, requester, cache, wires, ghosts
<1>13. ASSUME NEW b \in Boards, LinkFails(b) PROVE TypeOK'
  <2>1. link' \in [Boards -> {"ready", "absent", "held"}]
    BY <1>13 DEF LinkFails
  <2>2. requests' \in Seq(Ids) /\ replies' \in Seq(Reply)
    BY <1>13, <1>e DEF LinkFails
  <2> QED
    BY <1>13, <2>1, <2>2 DEF LinkFails, requester, cache
<1>14. CASE RequesterRestarts
  <2>1. next_request_id' \in 1..(MaxRequests + 1)
    BY <1>14, BoundsAssumption DEF RequesterRestarts
  <2>2. link' \in [Boards -> {"ready", "absent", "held"}]
    BY <1>14 DEF RequesterRestarts
  <2> QED
    BY <1>14, <1>e, <2>1, <2>2, NoneType DEF RequesterRestarts, cache
<1>15. CASE ResponderRestarts
  <2>1. next' \in Slots
    BY <1>15, CapacityAssumption DEF ResponderRestarts, Slots
  <2>2. link' \in [Boards -> {"ready", "absent", "held"}]
    BY <1>15 DEF ResponderRestarts
  <2> QED
    BY <1>15, <1>e, <2>1, <2>2, NoneType DEF ResponderRestarts, requester
<1>16. CASE UNCHANGED vars
  BY <1>16 DEF vars
<1> QED
  BY <1>1, <1>2, <1>3, <1>4, <1>5, <1>6, <1>7, <1>8, <1>9, <1>10, <1>11, <1>12,
     <1>13, <1>14, <1>15, <1>16 DEF Next

(* Every variable keeps its type and the ring its size.                    *)
THEOREM TypeCorrect == Spec => []TypeOK
BY TypeInit, TypeStep, PTL DEF Spec

-----------------------------------------------------------------------------
(* Copies.                                                                 *)

(* Why a copy is recognized: its request was recorded as many places       *)
(* behind the next free one as new requests have come since, and these are *)
(* fewer than the ring holds.                                              *)
Within(p, steps, end) == p + steps + 1 = end \/ p + steps + 1 = end + Capacity

CopyInvariant ==
  /\ TypeOK
  /\ late # NoLate => \E p \in Slots : entries[p] = late.id /\ Within(p, late.behind, next)

(* Recording a request moves the others one place further behind.          *)
LEMMA RecordMoves ==
  ASSUME TypeOK, NEW id \in Ids, Record(id), NEW p \in Slots, NEW steps \in Slots,
         Within(p, steps, next), steps + 1 \in Slots
  PROVE  entries'[p] = entries[p] /\ Within(p, steps + 1, next')
<1>1. p \in Nat /\ steps \in Nat /\ next \in Nat /\ Capacity \in Nat \ {0}
      /\ p < Capacity /\ next < Capacity /\ steps + 1 < Capacity
  BY CapacityAssumption DEF TypeOK, Slots
<1>2. p # next
  BY <1>1 DEF Within
<1>3. entries'[p] = entries[p]
  BY <1>2 DEF Record, TypeOK
<1>4. Within(p, steps + 1, next')
  <2>1. CASE next = Capacity - 1
    <3>1. next' = 0
      BY <2>1 DEF Record, Following
    <3> QED
      BY <1>1, <2>1, <3>1 DEF Within
  <2>2. CASE next # Capacity - 1
    <3>1. next' = next + 1
      BY <2>2 DEF Record, Following
    <3> QED
      BY <1>1, <3>1 DEF Within
  <2> QED
    BY <2>1, <2>2
<1> QED
  BY <1>3, <1>4

(* The request that was recorded last is right behind the next free place. *)
LEMMA RecordLast ==
  ASSUME TypeOK, NEW id \in Ids, Record(id)
  PROVE  next \in Slots /\ entries'[next] = id /\ Within(next, 0, next')
<1>1. next \in 0..(Capacity - 1) /\ Capacity \in Nat \ {0}
  BY CapacityAssumption DEF TypeOK, Slots
<1>2. next' = IF next = Capacity - 1 THEN 0 ELSE next + 1
  BY DEF Record, Following
<1>3. entries'[next] = id
  BY DEF Record, TypeOK
<1> QED
  BY <1>1, <1>2, <1>3 DEF Within, Slots

(* A request that is not remembered is recorded, one that is changes       *)
(* nothing but the answers.                                                *)
LEMMA ProcessRecords ==
  ASSUME NEW id, Process(id)
  PROVE  /\ Remembered(id) => UNCHANGED <<entries, next, operation>>
         /\ ~Remembered(id) => Record(id)
BY DEF Process, Duplicate, Refuse, Accept, cache

LEMMA CopyStep == CopyInvariant /\ [Next]_vars => CopyInvariant'
<1> SUFFICES ASSUME CopyInvariant, [Next]_vars PROVE CopyInvariant'
  OBVIOUS
<1>t. TypeOK /\ TypeOK'
  BY TypeStep DEF CopyInvariant
<1>1. ASSUME late' = NoLate PROVE CopyInvariant'
  BY <1>1, <1>t DEF CopyInvariant
<1>2. ASSUME UNCHANGED <<late, entries, next>> PROVE CopyInvariant'
  BY <1>2, <1>t DEF CopyInvariant, Within
<1>3. CASE RequestArrives
  <2>h. Head(requests) \in Ids /\ Process(Head(requests))
    BY <1>3, <1>t, TailFacts DEF RequestArrives, TypeOK
  <2>1. CASE Remembered(Head(requests))
    <3>1. UNCHANGED <<late, entries, next>>
      BY <1>3, <2>h, <2>1, ProcessRecords DEF RequestArrives
    <3> QED
      BY <3>1, <1>2
  <2>2. CASE ~Remembered(Head(requests))
    <3>1. Record(Head(requests))
      BY <2>h, <2>2, ProcessRecords
    <3>2. CASE late = NoLate
      <4>1. late' = NoLate \/ late' = [id |-> Head(requests), behind |-> 0]
        BY <1>3, <2>2, <3>2 DEF RequestArrives
      <4>2. CASE late' = [id |-> Head(requests), behind |-> 0]
        BY <4>2, <3>1, <2>h, <1>t, RecordLast DEF CopyInvariant
      <4> QED
        BY <4>1, <4>2, <1>1
    <3>3. CASE late # NoLate
      <4>1. late.id \in Ids /\ late.behind \in Slots
        BY <3>3, <1>t DEF TypeOK, Late
      <4>2. CASE late.behind + 1 \in Slots
        <5>1. late' = [late EXCEPT !.behind = late.behind + 1]
          BY <1>3, <2>2, <3>3, <4>2 DEF RequestArrives
        <5>2. late'.id = late.id /\ late'.behind = late.behind + 1
          BY <5>1, <3>3, <1>t DEF TypeOK, Late
        <5>3. PICK p \in Slots : entries[p] = late.id /\ Within(p, late.behind, next)
          BY <3>3 DEF CopyInvariant
        <5>4. entries'[p] = entries[p] /\ Within(p, late.behind + 1, next')
          BY <5>3, <4>1, <4>2, <3>1, <2>h, <1>t, RecordMoves
        <5> QED
          BY <5>2, <5>3, <5>4, <1>t DEF CopyInvariant, Within
      <4>3. CASE late.behind + 1 \notin Slots
        BY <1>3, <2>2, <3>3, <4>3, <1>1 DEF RequestArrives
      <4> QED
        BY <4>2, <4>3
    <3> QED
      BY <3>2, <3>3
  <2> QED
    BY <2>1, <2>2
<1>4. CASE CopyArrives \/ CopyVanishes \/ RequesterRestarts \/ ResponderRestarts
  BY <1>4, <1>1 DEF CopyArrives, CopyVanishes, RequesterRestarts, ResponderRestarts
<1>5. ASSUME NEW i \in Slots, RetentionEnds(i) PROVE CopyInvariant'
  <2>1. UNCHANGED <<late, next>>
    BY <1>5 DEF RetentionEnds
  <2>2. CASE late # NoLate
    <3>1. PICK p \in Slots : entries[p] = late.id /\ Within(p, late.behind, next)
      BY <2>2 DEF CopyInvariant
    <3>2. entries'[p] = entries[p]
      BY <1>5, <3>1, <1>t DEF RetentionEnds, TypeOK
    <3> QED
      BY <2>1, <3>1, <3>2, <1>t DEF CopyInvariant, Within
  <2> QED
    BY <2>1, <2>2, <1>1
<1>6. CASE Request \/ StatusArrives \/ PduArrives \/ TimesOut \/ LocalSend \/ Captured
           \/ CaptureFails \/ SendPdu \/ OperationEnds \/ OperationInactive
           \/ (\E b \in Boards : LinkReady(b) \/ PeerAbsent(b) \/ LinkFails(b))
           \/ UNCHANGED vars
  BY <1>6, <1>2
     DEF Request, StatusArrives, PduArrives, TimesOut, LocalSend, Captured, CaptureFails,
         SendPdu, OperationEnds, OperationInactive, LinkReady, PeerAbsent, LinkFails,
         cache, vars
<1> QED
  BY <1>3, <1>4, <1>5, <1>6 DEF Next

LEMMA CopyInit == Init => CopyInvariant
BY TypeInit DEF Init, CopyInvariant

(* A copy is answered DUPLICATE and changes nothing else.                  *)
LEMMA CopyIsDuplicate ==
  ASSUME CopyInvariant, CopyArrives
  PROVE  Remembered(late.id) /\ UNCHANGED <<entries, next, operation>>
<1>1. late # NoLate /\ Process(late.id)
  BY DEF CopyArrives
<1>2. Remembered(late.id)
  BY <1>1 DEF CopyInvariant, Remembered
<1> QED
  BY <1>1, <1>2, ProcessRecords

(* A request that is delivered again within the retention, and before as   *)
(* many new ones as the ring holds, starts no operation, whether the first *)
(* delivery was executed or refused, for every size of the ring.           *)
THEOREM CopiesNotExecuted == Spec => CopyNotExecuted
<1>1. CopyInvariant /\ [Next]_vars => [CopyArrives => operation' = operation]_vars
  BY CopyIsDuplicate
<1> QED
  BY <1>1, CopyInit, CopyStep, PTL DEF Spec, CopyNotExecuted

-----------------------------------------------------------------------------
(* Identifiers.                                                            *)

(* Why a new request is not taken for an old one, and no verdict names a   *)
(* request that is being served: identifiers grow along the link, and      *)
(* whatever the responder knows or has said is about smaller ones.         *)
KnownBelow(id) ==
  /\ \A p \in Slots : entries[p] < id
  /\ operation.id < id
  /\ \A i \in DOMAIN replies : replies[i].id < id

Growing ==
  /\ \A i, j \in DOMAIN requests : i < j => requests[i] < requests[j]
  /\ \A i \in DOMAIN requests : requests[i] < next_request_id

SeenInvariant ==
  /\ CopyInvariant
  /\ Growing
  /\ ~restarted =>
       /\ KnownBelow(next_request_id)
       /\ \A i \in DOMAIN requests : KnownBelow(requests[i])

(* Nothing of another start is known where nothing is known at all.        *)
LEMMA NothingKnown ==
  ASSUME NEW id \in Nat \ {0}, entries = Empty, operation.id = None, replies = <<>>
  PROVE  KnownBelow(id)
BY DEF KnownBelow, Empty, None

(* A status names one request more.                                        *)
LEMMA SendStatusNames ==
  ASSUME TypeOK, NEW id \in Ids, NEW result \in Results, SendStatus(id, result)
  PROVE  \A i \in DOMAIN replies' :
           \/ i \in DOMAIN replies /\ replies'[i] = replies[i]
           \/ replies'[i] = [result |-> result, id |-> id]
<1>1. [result |-> result, id |-> id] \in Reply
  BY DEF Reply
<1> DEFINE q == Append(replies, [result |-> result, id |-> id])
<1>2. \A i \in DOMAIN q :
        \/ i \in DOMAIN replies /\ q[i] = replies[i]
        \/ q[i] = [result |-> result, id |-> id]
  BY <1>1, AppendFacts DEF TypeOK
<1>3. replies' = replies \/ replies' = q
  BY DEF SendStatus
<1> QED
  BY <1>2, <1>3

(* Processing a request makes its own identifier known, and no other.      *)
LEMMA ProcessKnows ==
  ASSUME TypeOK, NEW id \in Ids, Process(id)
  PROVE  /\ \A p \in Slots : entries'[p] \in {entries[p], id}
         /\ operation'.id \in {operation.id, id}
         /\ \A i \in DOMAIN replies' :
              \/ i \in DOMAIN replies /\ replies'[i] = replies[i]
              \/ /\ replies'[i].id = id
                 /\ replies'[i].result \in {"BUSY", "TIMED_OUT"} =>
                      ~Remembered(id) /\ UNCHANGED operation
         /\ ~Remembered(id) \/ UNCHANGED operation
<1>1. \A p \in Slots : entries'[p] \in {entries[p], id}
  BY DEF Process, Duplicate, Refuse, Accept, Record, TypeOK, cache
<1>2. operation'.id \in {operation.id, id}
  BY DEF Process, Duplicate, Refuse, Accept
<1>3. \A i \in DOMAIN replies' :
        \/ i \in DOMAIN replies /\ replies'[i] = replies[i]
        \/ /\ replies'[i].id = id
           /\ replies'[i].result \in {"BUSY", "TIMED_OUT"} =>
                ~Remembered(id) /\ UNCHANGED operation
  <2>1. CASE Duplicate(id)
    <3>1. SendStatus(id, "DUPLICATE")
      BY <2>1 DEF Duplicate
    <3> QED
      BY <3>1, SendStatusNames DEF Results
  <2>2. CASE Refuse(id)
    <3>1. SendStatus(id, "BUSY") /\ ~Remembered(id) /\ UNCHANGED operation
      BY <2>2 DEF Refuse
    <3> QED
      BY <3>1, SendStatusNames DEF Results
  <2>3. CASE Accept(id)
    <3>1. SendStatus(id, "ACCEPTED")
      BY <2>3 DEF Accept
    <3> QED
      BY <3>1, SendStatusNames DEF Results
  <2> QED
    BY <2>1, <2>2, <2>3 DEF Process
<1>4. ~Remembered(id) \/ UNCHANGED operation
  BY DEF Process, Duplicate, Refuse, Accept
<1> QED
  BY <1>1, <1>2, <1>3, <1>4

(* What is below an identifier stays below it when a smaller one becomes   *)
(* known.                                                                  *)
LEMMA ProcessBelow ==
  ASSUME TypeOK, NEW id \in Ids, Process(id), NEW bound \in Nat, id < bound,
         KnownBelow(bound)
  PROVE  KnownBelow(bound)'
<1>1. \A p \in Slots : entries'[p] < bound
  BY ProcessKnows DEF KnownBelow
<1>2. operation'.id < bound
  BY ProcessKnows DEF KnownBelow
<1>3. \A i \in DOMAIN replies' : replies'[i].id < bound
  BY ProcessKnows DEF KnownBelow
<1> QED
  BY <1>1, <1>2, <1>3 DEF KnownBelow

(* Less is known when answers arrive, entries expire, operations end.      *)
LEMMA KnowsLess ==
  ASSUME NEW bound \in Nat \ {0}, KnownBelow(bound),
         \A p \in Slots : entries'[p] \in {entries[p], None},
         operation'.id \in {operation.id, None},
         \A i \in DOMAIN replies' :
           \/ replies'[i].id = None
           \/ \E j \in DOMAIN replies : replies'[i].id = replies[j].id
           \/ replies'[i].id = operation.id
  PROVE  KnownBelow(bound)'
BY DEF KnownBelow, None

LEMMA SeenInit == Init => SeenInvariant
<1> SUFFICES ASSUME Init PROVE SeenInvariant
  OBVIOUS
<1>1. CopyInvariant
  BY CopyInit
<1>2. Growing
  BY DEF Init, Growing
<1>3. KnownBelow(next_request_id)
  BY NothingKnown DEF Init, Idle
<1> QED
  BY <1>1, <1>2, <1>3 DEF Init, SeenInvariant

(* Identifiers are numbers above zero.                                     *)
LEMMA IdsAreNumbers ==
  ASSUME TypeOK
  PROVE  /\ next_request_id \in Nat \ {0}
         /\ \A i \in DOMAIN requests : requests[i] \in Ids /\ requests[i] \in Nat \ {0}
         /\ \A i \in DOMAIN requests : i \in Nat
BY BoundsAssumption DEF TypeOK, Ids

(* The part of the invariant about what the responder knows, when it       *)
(* learns nothing and no request is sent.                                  *)
LEMMA SeenLess ==
  ASSUME SeenInvariant, CopyInvariant',
         UNCHANGED <<next_request_id, requests>>, ~restarted' => ~restarted,
         \A p \in Slots : entries'[p] \in {entries[p], None},
         operation'.id \in {operation.id, None},
         \A i \in DOMAIN replies' :
           \/ replies'[i].id = None
           \/ \E j \in DOMAIN replies : replies'[i].id = replies[j].id
           \/ replies'[i].id = operation.id
  PROVE  SeenInvariant'
<1>t. TypeOK
  BY DEF SeenInvariant, CopyInvariant
<1>1. Growing'
  BY DEF SeenInvariant, Growing
<1>2. ASSUME ~restarted'
      PROVE  /\ KnownBelow(next_request_id)'
             /\ \A i \in DOMAIN requests : KnownBelow(requests[i])'
  <2>1. /\ KnownBelow(next_request_id)
        /\ \A i \in DOMAIN requests : KnownBelow(requests[i])
    BY <1>2 DEF SeenInvariant
  <2>2. KnownBelow(next_request_id)'
    BY <2>1, <1>t, IdsAreNumbers, KnowsLess DEF KnownBelow, None
  <2>3. ASSUME NEW i \in DOMAIN requests PROVE KnownBelow(requests[i])'
    BY <2>1, <2>3, <1>t, IdsAreNumbers, KnowsLess DEF KnownBelow, None
  <2> QED
    BY <2>2, <2>3
<1> QED
  BY <1>1, <1>2 DEF SeenInvariant

LEMMA SeenStep == SeenInvariant /\ [Next]_vars => SeenInvariant'
<1> SUFFICES ASSUME SeenInvariant, [Next]_vars PROVE SeenInvariant'
  OBVIOUS
<1>t. TypeOK /\ TypeOK' /\ CopyInvariant /\ CopyInvariant' /\ Growing
  BY TypeStep, CopyStep DEF SeenInvariant, CopyInvariant
<1>n. /\ next_request_id \in Nat \ {0}
      /\ \A i \in DOMAIN requests : requests[i] \in Ids /\ requests[i] \in Nat \ {0}
      /\ \A i \in DOMAIN requests : i \in Nat
  BY <1>t, IdsAreNumbers
<1>s. ~restarted => /\ KnownBelow(next_request_id)
                    /\ \A i \in DOMAIN requests : KnownBelow(requests[i])
  BY DEF SeenInvariant
<1>1. CASE Request
  <2>1. next_request_id' = next_request_id + 1
        /\ UNCHANGED <<entries, operation, replies, restarted>>
    BY <1>1 DEF Request, cache
  <2>2. ASSUME KnownBelow(next_request_id) PROVE KnownBelow(next_request_id)'
    <3>1. \A p \in Slots : entries[p] \in Nat
      BY <1>t DEF TypeOK, Ids, None
    <3>2. operation.id \in Nat /\ \A i \in DOMAIN replies : replies[i].id \in Nat
      <4>1. Ids \cup {None} \subseteq Nat
        BY DEF Ids, None
      <4>2. operation.id \in Ids \cup {None}
        BY <1>t DEF TypeOK, Operation
      <4>3. \A i \in DOMAIN replies : replies[i] \in Reply
        BY <1>t DEF TypeOK
      <4> QED
        BY <4>1, <4>2, <4>3 DEF Reply
    <3> QED
      BY <2>1, <2>2, <3>1, <3>2, <1>n DEF KnownBelow
  <2>3. CASE UNCHANGED requests
    BY <2>1, <2>2, <2>3, <1>t, <1>s, <1>n DEF SeenInvariant, Growing, KnownBelow
  <2>4. CASE requests' = Append(requests, next_request_id)
    <3>1. requests \in Seq(Ids) /\ next_request_id \in Ids
      BY <1>1, <1>t DEF Request, TypeOK
    <3>2. /\ \A i \in DOMAIN requests' :
               \/ i \in DOMAIN requests /\ requests'[i] = requests[i]
               \/ i = Len(requests) + 1 /\ requests'[i] = next_request_id
          /\ \A i \in DOMAIN requests : i \in Nat /\ i < Len(requests) + 1
          /\ Len(requests) \in Nat
      BY <2>4, <3>1, AppendFacts
    <3>3. Growing'
      BY <3>2, <2>1, <1>t, <1>n DEF Growing
    <3>4. ASSUME ~restarted', NEW i \in DOMAIN requests' PROVE KnownBelow(requests'[i])
      BY <3>2, <3>4, <2>1, <1>s
    <3> QED
      BY <3>3, <3>4, <2>1, <2>2, <1>s, <1>t DEF SeenInvariant, KnownBelow
  <2> QED
    BY <1>1, <2>3, <2>4 DEF Request
<1>2. CASE StatusArrives \/ PduArrives
  <2>1. replies # <<>> /\ replies' = Tail(replies) /\ replies \in Seq(Reply)
        /\ UNCHANGED <<next_request_id, requests, entries, operation, restarted>>
    BY <1>2, <1>t DEF StatusArrives, PduArrives, cache, ghosts, TypeOK
  <2>2. \A i \in DOMAIN replies' : i + 1 \in DOMAIN replies /\ replies'[i] = replies[i + 1]
    BY <2>1, TailFacts
  <2> QED
    BY <2>1, <2>2, <1>t, SeenLess
<1>3. CASE RequestArrives
  <2>1. /\ requests \in Seq(Ids) /\ requests # <<>> /\ requests' = Tail(requests)
        /\ Process(Head(requests))
        /\ UNCHANGED <<next_request_id, restarted>>
    BY <1>3, <1>t DEF RequestArrives, requester, TypeOK
  <2>2. /\ Head(requests) \in Ids /\ 1 \in DOMAIN requests /\ requests[1] = Head(requests)
        /\ \A i \in DOMAIN requests' :
             i \in Nat \ {0} /\ i + 1 \in DOMAIN requests /\ requests'[i] = requests[i + 1]
    BY <2>1, TailFacts
  <2>3. Growing'
    BY <2>1, <2>2, <1>t DEF Growing
  <2>4. Head(requests) < next_request_id
        /\ \A i \in DOMAIN requests' : Head(requests) < requests[i + 1]
    BY <2>2, <1>t DEF Growing
  <2>5. ASSUME ~restarted PROVE KnownBelow(next_request_id)'
    <3>1. KnownBelow(next_request_id)
      BY <2>5, <1>s
    <3>2. PICK bound \in Nat : bound = next_request_id
      BY <1>n
    <3>3. KnownBelow(bound)'
      BY <2>1, <2>2, <2>4, <3>1, <3>2, <1>t, ProcessBelow
    <3> QED
      BY <2>1, <3>2, <3>3 DEF KnownBelow
  <2>6. ASSUME ~restarted, NEW i \in DOMAIN requests' PROVE KnownBelow(requests[i])'
    <3>1. KnownBelow(requests[i + 1]) /\ i + 1 \in DOMAIN requests
      BY <2>2, <2>6, <1>s
    <3>2. PICK bound \in Nat : bound = requests[i + 1]
      BY <3>1, <1>n
    <3>3. KnownBelow(bound)'
      BY <2>1, <2>2, <2>4, <3>1, <3>2, <1>t, ProcessBelow
    <3> QED
      BY <2>2, <3>2, <3>3 DEF KnownBelow
  <2> QED
    BY <2>1, <2>3, <2>5, <2>6, <1>t DEF SeenInvariant
<1>4. CASE CopyArrives
  <2>1. Remembered(late.id) /\ UNCHANGED <<entries, next, operation>>
    BY <1>4, CopyIsDuplicate, <1>t
  <2>2. late.id \in Ids /\ Process(late.id)
        /\ UNCHANGED <<next_request_id, requests, restarted>>
    BY <1>4, <1>t DEF CopyArrives, requester, TypeOK, Late
  <2>3. PICK p \in Slots : entries[p] = late.id
    BY <2>1 DEF Remembered
  <2>4. \A i \in DOMAIN replies' :
          \/ i \in DOMAIN replies /\ replies'[i] = replies[i]
          \/ replies'[i].id = late.id
    BY <2>2, <1>t, ProcessKnows
  <2>5. ASSUME KnownBelow(next_request_id) PROVE KnownBelow(next_request_id)'
    BY <2>1, <2>2, <2>3, <2>4, <2>5 DEF KnownBelow
  <2>6. ASSUME NEW i \in DOMAIN requests, KnownBelow(requests[i])
        PROVE  KnownBelow(requests[i])'
    BY <2>1, <2>2, <2>3, <2>4, <2>6 DEF KnownBelow
  <2>7. Growing'
    BY <2>2, <1>t DEF Growing
  <2> QED
    BY <2>2, <2>5, <2>6, <2>7, <1>s, <1>t DEF SeenInvariant
<1>5. ASSUME NEW i \in Slots, RetentionEnds(i) PROVE SeenInvariant'
  <2>1. UNCHANGED <<next_request_id, requests, replies, operation>>
        /\ \A p \in Slots : entries'[p] \in {entries[p], None}
    BY <1>5, <1>t DEF RetentionEnds, requester, wires, TypeOK
  <2>2. CASE ~restarted' => ~restarted
    BY <2>1, <2>2, <1>t, SeenLess
  <2>3. CASE restarted /\ ~restarted'
    <3>1. entries' = Empty /\ operation.id = None /\ replies = <<>>
      BY <1>5, <2>3 DEF RetentionEnds
    <3>2. KnownBelow(next_request_id)'
      BY <3>1, <2>1, <1>n DEF KnownBelow, Empty, None
    <3>3. ASSUME NEW j \in DOMAIN requests PROVE KnownBelow(requests[j])'
      BY <3>1, <3>3, <2>1, <1>n DEF KnownBelow, Empty, None
    <3>4. Growing'
      BY <2>1, <1>t DEF Growing
    <3> QED
      BY <2>1, <3>2, <3>3, <3>4, <1>t DEF SeenInvariant
  <2> QED
    BY <2>2, <2>3
<1>6. CASE LocalSend \/ Captured \/ CaptureFails \/ OperationEnds
  <2>1. operation'.id \in {operation.id, None}
    BY <1>6, <1>t
       DEF LocalSend, Captured, CaptureFails, OperationEnds, Idle, TypeOK, Operation
  <2>2. UNCHANGED <<next_request_id, requests, replies, entries, restarted>>
    BY <1>6 DEF LocalSend, Captured, CaptureFails, OperationEnds, requester, cache,
       wires, ghosts
  <2> QED
    BY <2>1, <2>2, <1>t, SeenLess
<1>7. CASE SendPdu
  <2>1. /\ replies \in Seq(Reply) /\ replies' = Append(replies, Pdu)
        /\ UNCHANGED <<next_request_id, requests, operation, entries, restarted>>
    BY <1>7, <1>t DEF SendPdu, requester, cache, ghosts, TypeOK
  <2>2. \A i \in DOMAIN replies' :
          (i \in DOMAIN replies /\ replies'[i] = replies[i]) \/ replies'[i] = Pdu
    BY <2>1, AppendFacts, NoneType
  <2> QED
    BY <2>1, <2>2, <1>t, SeenLess DEF Pdu
<1>8. CASE OperationInactive
  <2>1. /\ operation.id \in Ids /\ SendStatus(operation.id, "TIMED_OUT")
        /\ operation'.id = None
        /\ UNCHANGED <<next_request_id, requests, entries, restarted>>
    BY <1>8, <1>t DEF OperationInactive, requester, cache, Idle, TypeOK, Operation
  <2>2. \A i \in DOMAIN replies' :
          \/ i \in DOMAIN replies /\ replies'[i] = replies[i]
          \/ replies'[i].id = operation.id
    BY <2>1, <1>t, SendStatusNames DEF Results
  <2> QED
    BY <2>1, <2>2, <1>t, SeenLess
<1>9. ASSUME NEW b \in Boards, LinkFails(b) PROVE SeenInvariant'
  <2>1. UNCHANGED <<next_request_id, operation, entries, restarted>>
    BY <1>9 DEF LinkFails, requester, cache
  <2>2. CASE requests' = <<>> /\ UNCHANGED replies
    BY <2>1, <2>2, <1>s, <1>t DEF SeenInvariant, Growing, KnownBelow
  <2>3. CASE replies' = <<>> /\ UNCHANGED requests
    BY <2>1, <2>3, <1>t, SeenLess
  <2> QED
    BY <1>9, <2>2, <2>3 DEF LinkFails
<1>10. CASE RequesterRestarts
  <2>1. /\ requests' = <<>> /\ replies' = <<>> /\ next_request_id' = 1
        /\ UNCHANGED <<entries, operation>>
        /\ ~restarted' => entries = Empty /\ operation.id = None
    BY <1>10 DEF RequesterRestarts, cache
  <2>2. ~restarted' => KnownBelow(next_request_id)'
    BY <2>1 DEF KnownBelow, Empty, None
  <2> QED
    BY <2>1, <2>2, <1>t DEF SeenInvariant, Growing
<1>11. CASE ResponderRestarts
  <2>1. /\ requests' = <<>> /\ replies' = <<>> /\ entries' = Empty
        /\ operation'.id = None /\ UNCHANGED next_request_id
    BY <1>11 DEF ResponderRestarts, requester, Idle
  <2>2. KnownBelow(next_request_id)'
    BY <2>1, <1>n DEF KnownBelow, Empty, None
  <2> QED
    BY <2>1, <2>2, <1>t DEF SeenInvariant, Growing
<1>12. CASE TimesOut \/ CopyVanishes \/ (\E b \in Boards : LinkReady(b) \/ PeerAbsent(b))
            \/ UNCHANGED vars
  <2>1. UNCHANGED <<next_request_id, requests, replies, operation, entries, restarted>>
    BY <1>12 DEF TimesOut, CopyVanishes, LinkReady, PeerAbsent, requester, cache, wires,
       ghosts, vars
  <2> QED
    BY <2>1, <1>t, SeenLess
<1> QED
  BY <1>1, <1>2, <1>3, <1>4, <1>5, <1>6, <1>7, <1>8, <1>9, <1>10, <1>11, <1>12 DEF Next

(* A request on its way is in nobody's ring, until its sender restarts     *)
(* while the ring still holds requests of its earlier life.                *)
THEOREM NewNotDuplicate == Spec => []NewIsNotDuplicate
<1>1. SeenInvariant => NewIsNotDuplicate
  <2> SUFFICES ASSUME SeenInvariant, ~restarted, NEW i \in DOMAIN requests
               PROVE  ~Remembered(requests[i])
    BY DEF NewIsNotDuplicate
  <2>1. KnownBelow(requests[i]) /\ requests[i] \in Nat
    BY IdsAreNumbers DEF SeenInvariant, CopyInvariant
  <2> QED
    BY <2>1 DEF KnownBelow, Remembered
<1> QED
  BY <1>1, SeenInit, SeenStep, PTL DEF Spec

(* Why a verdict is final: it names a request that is not in service, and  *)
(* only a request that is not known to the responder gets into service.    *)
VerdictInvariant == SeenInvariant /\ VerdictFinal

(* Verdicts stay true when no request is accepted and none is added that   *)
(* names the operation.                                                    *)
LEMMA VerdictsStay ==
  ASSUME VerdictFinal, ~restarted' => ~restarted,
         operation'.id \in {operation.id, None},
         \A i \in DOMAIN replies' :
           \/ \E j \in DOMAIN replies : replies'[i] = replies[j]
           \/ replies'[i].result \in {"BUSY", "TIMED_OUT"} => replies'[i].id # operation'.id
  PROVE  VerdictFinal'
BY DEF VerdictFinal

LEMMA VerdictStep == VerdictInvariant /\ [Next]_vars => VerdictInvariant'
<1> SUFFICES ASSUME VerdictInvariant, [Next]_vars PROVE VerdictFinal'
  BY SeenStep DEF VerdictInvariant
<1>t. TypeOK /\ CopyInvariant /\ SeenInvariant /\ SeenInvariant' /\ VerdictFinal
  BY SeenStep DEF VerdictInvariant, SeenInvariant, CopyInvariant
<1>1. CASE RequestArrives
  <2>1. /\ requests \in Seq(Ids) /\ requests # <<>> /\ Process(Head(requests))
        /\ UNCHANGED restarted
    BY <1>1, <1>t DEF RequestArrives, TypeOK
  <2>2. 1 \in DOMAIN requests /\ requests[1] = Head(requests) /\ Head(requests) \in Ids
    BY <2>1, TailFacts
  <2> SUFFICES ASSUME ~restarted PROVE VerdictFinal'
    BY <2>1 DEF VerdictFinal
  <2>3. KnownBelow(Head(requests)) /\ Head(requests) \in Nat
    BY <2>2, <1>t DEF SeenInvariant, Ids
  <2>4. /\ operation.id # Head(requests)
        /\ \A i \in DOMAIN replies : replies[i].id # Head(requests)
    BY <2>3 DEF KnownBelow
  <2>5. /\ operation'.id \in {operation.id, Head(requests)}
        /\ \A i \in DOMAIN replies' :
             \/ i \in DOMAIN replies /\ replies'[i] = replies[i]
             \/ /\ replies'[i].id = Head(requests)
                /\ replies'[i].result \in {"BUSY", "TIMED_OUT"} => UNCHANGED operation
    BY <2>1, <2>2, <1>t, ProcessKnows
  <2> QED
    BY <2>4, <2>5, <1>t DEF VerdictFinal
<1>2. CASE CopyArrives
  <2>1. late.id \in Ids /\ Process(late.id) /\ UNCHANGED restarted
    BY <1>2, <1>t DEF CopyArrives, TypeOK, Late
  <2>2. Remembered(late.id) /\ UNCHANGED operation
    BY <1>2, <1>t, CopyIsDuplicate
  <2>3. \A i \in DOMAIN replies' :
          \/ i \in DOMAIN replies /\ replies'[i] = replies[i]
          \/ replies'[i].result \notin {"BUSY", "TIMED_OUT"}
    BY <2>1, <2>2, <1>t, ProcessKnows
  <2> QED
    BY <2>1, <2>2, <2>3, <1>t, VerdictsStay
<1>3. CASE StatusArrives \/ PduArrives
  <2>1. replies # <<>> /\ replies' = Tail(replies) /\ replies \in Seq(Reply)
        /\ UNCHANGED <<operation, restarted>>
    BY <1>3, <1>t DEF StatusArrives, PduArrives, ghosts, TypeOK
  <2>2. \A i \in DOMAIN replies' : i + 1 \in DOMAIN replies /\ replies'[i] = replies[i + 1]
    BY <2>1, TailFacts
  <2> QED
    BY <2>1, <2>2, <1>t, VerdictsStay
<1>4. CASE SendPdu
  <2>1. /\ replies \in Seq(Reply) /\ replies' = Append(replies, Pdu)
        /\ UNCHANGED <<operation, restarted>>
    BY <1>4, <1>t DEF SendPdu, ghosts, TypeOK
  <2>2. \A i \in DOMAIN replies' :
          (i \in DOMAIN replies /\ replies'[i] = replies[i]) \/ replies'[i] = Pdu
    BY <2>1, AppendFacts, NoneType
  <2> QED
    BY <2>1, <2>2, <1>t, VerdictsStay DEF Pdu
<1>5. CASE OperationInactive
  <2>1. operation.id \in Ids /\ SendStatus(operation.id, "TIMED_OUT")
        /\ operation'.id = None /\ UNCHANGED restarted
    BY <1>5, <1>t DEF OperationInactive, Idle, TypeOK, Operation
  <2> QED
    BY <2>1 DEF VerdictFinal
<1>6. ASSUME NEW i \in Slots, RetentionEnds(i) PROVE VerdictFinal'
  <2>1. UNCHANGED <<replies, operation>>
        /\ restarted' = (restarted /\ ~(entries' = Empty /\ operation.id = None /\ replies = <<>>))
    BY <1>6 DEF RetentionEnds, wires
  <2> QED
    BY <2>1, <1>t DEF VerdictFinal
<1>7. CASE RequesterRestarts \/ ResponderRestarts
  <2>1. replies' = <<>>
    BY <1>7 DEF RequesterRestarts, ResponderRestarts
  <2> QED
    BY <2>1 DEF VerdictFinal
<1>8. ASSUME NEW b \in Boards, LinkFails(b) PROVE VerdictFinal'
  <2>1. UNCHANGED <<operation, restarted>> /\ (UNCHANGED replies \/ replies' = <<>>)
    BY <1>8 DEF LinkFails
  <2> QED
    BY <2>1, <1>t, VerdictsStay
<1>9. CASE LocalSend \/ Captured \/ CaptureFails \/ OperationEnds
  <2>1. operation'.id \in {operation.id, None}
    BY <1>9, <1>t
       DEF LocalSend, Captured, CaptureFails, OperationEnds, Idle, TypeOK, Operation
  <2>2. UNCHANGED <<replies, restarted>>
    BY <1>9 DEF LocalSend, Captured, CaptureFails, OperationEnds, wires, ghosts
  <2> QED
    BY <2>1, <2>2, <1>t, VerdictsStay
<1>10. CASE Request \/ TimesOut \/ CopyVanishes
            \/ (\E b \in Boards : LinkReady(b) \/ PeerAbsent(b)) \/ UNCHANGED vars
  <2>1. UNCHANGED <<replies, operation, restarted>>
    BY <1>10 DEF Request, TimesOut, CopyVanishes, LinkReady, PeerAbsent, wires, ghosts, vars
  <2> QED
    BY <2>1, <1>t, VerdictsStay
<1> QED
  BY <1>1, <1>2, <1>3, <1>4, <1>5, <1>6, <1>7, <1>8, <1>9, <1>10 DEF Next

(* A request that was refused, or whose transfer was reported inactive, is *)
(* not served later by a copy of it.                                       *)
THEOREM VerdictsFinal == Spec => []VerdictFinal
<1>1. Init => VerdictInvariant
  BY SeenInit DEF VerdictInvariant, VerdictFinal, Init
<1>2. VerdictInvariant => VerdictFinal
  BY DEF VerdictInvariant
<1> QED
  BY <1>1, <1>2, VerdictStep, PTL DEF Spec

-----------------------------------------------------------------------------
(* Answers.                                                                *)

(* A status that is submitted is on its way, one that is not is lost.      *)
LEMMA SendStatusKeeps ==
  ASSUME TypeOK, NEW id \in Ids, NEW result \in Results, SendStatus(id, result), ~lost'
  PROVE  /\ ~lost
         /\ \E i \in DOMAIN replies' : replies'[i].id = id
         /\ \A i \in DOMAIN replies : i \in DOMAIN replies' /\ replies'[i] = replies[i]
<1>1. [result |-> result, id |-> id] \in Reply
  BY DEF Reply
<1>2. replies' = Append(replies, [result |-> result, id |-> id]) /\ ~lost
  BY DEF SendStatus
<1> QED
  BY <1>1, <1>2, AppendFacts DEF TypeOK

LEMMA ProcessAnswers ==
  ASSUME TypeOK, NEW id \in Ids, Process(id), ~lost'
  PROVE  /\ ~lost
         /\ \E i \in DOMAIN replies' : replies'[i].id = id
         /\ \A i \in DOMAIN replies : i \in DOMAIN replies' /\ replies'[i] = replies[i]
BY SendStatusKeeps DEF Process, Duplicate, Refuse, Accept, Results

LEMMA AnswerStep == TypeOK /\ AnswerOnItsWay /\ [Next]_vars => AnswerOnItsWay'
<1> SUFFICES ASSUME TypeOK, AnswerOnItsWay, [Next]_vars,
                    pending' # None, ~answered', ~lost'
             PROVE  \/ \E i \in DOMAIN requests' : requests'[i] = pending'
                    \/ \E i \in DOMAIN replies' : replies'[i].id = pending'
  BY DEF AnswerOnItsWay
<1>a. ASSUME UNCHANGED pending, ~answered, ~lost,
             \A i \in DOMAIN requests : \/ \E j \in DOMAIN requests' : requests'[j] = requests[i]
                                        \/ \E j \in DOMAIN replies' : replies'[j].id = requests[i],
             \A i \in DOMAIN replies : \/ \E j \in DOMAIN replies' : replies'[j] = replies[i]
                                       \/ replies[i].id # pending
      PROVE  \/ \E i \in DOMAIN requests' : requests'[i] = pending'
             \/ \E i \in DOMAIN replies' : replies'[i].id = pending'
  BY <1>a DEF AnswerOnItsWay
<1>1. CASE Request
  <2>1. CASE requests' = Append(requests, next_request_id) /\ pending' = next_request_id
    <3>1. next_request_id \in Ids /\ requests \in Seq(Ids)
      BY <1>1 DEF Request, TypeOK
    <3> QED
      BY <2>1, <3>1, AppendFacts
  <2>2. CASE UNCHANGED <<requests, pending, answered, lost>>
    BY <1>1, <2>2, <1>a DEF Request
  <2> QED
    BY <1>1, <2>1, <2>2 DEF Request
<1>2. CASE StatusArrives \/ PduArrives
  <2>1. replies # <<>> /\ replies' = Tail(replies) /\ replies \in Seq(Reply)
        /\ UNCHANGED <<requests, pending, lost>>
    BY <1>2 DEF StatusArrives, PduArrives, ghosts, TypeOK
  <2>2. replies[1] = Head(replies)
        /\ \A i \in DOMAIN replies : i # 1 => i - 1 \in DOMAIN replies' /\ replies'[i - 1] = replies[i]
    BY <2>1, TailFacts
  <2>3. ~answered /\ Head(replies).id # pending
    <3>1. CASE StatusArrives
      <4>1. answered' = (answered \/ Head(replies).id = pending)
        BY <3>1 DEF StatusArrives
      <4> QED
        BY <4>1
    <3>2. CASE PduArrives
      <4>1. Head(replies).id = None /\ UNCHANGED answered
        BY <3>2 DEF PduArrives, Pdu, ghosts
      <4> QED
        BY <4>1, <2>1
    <3> QED
      BY <1>2, <3>1, <3>2
  <2> QED
    BY <2>1, <2>2, <2>3, <1>a
<1>3. CASE RequestArrives
  <2>1. /\ requests \in Seq(Ids) /\ requests # <<>> /\ requests' = Tail(requests)
        /\ Process(Head(requests)) /\ UNCHANGED <<pending, answered>>
    BY <1>3 DEF RequestArrives, requester, TypeOK
  <2>2. /\ Head(requests) \in Ids /\ requests[1] = Head(requests)
        /\ \A i \in DOMAIN requests :
             i # 1 => i - 1 \in DOMAIN requests' /\ requests'[i - 1] = requests[i]
    BY <2>1, TailFacts
  <2>3. /\ ~lost /\ \E i \in DOMAIN replies' : replies'[i].id = Head(requests)
        /\ \A i \in DOMAIN replies : i \in DOMAIN replies' /\ replies'[i] = replies[i]
    BY <2>1, <2>2, ProcessAnswers
  <2> QED
    BY <2>1, <2>2, <2>3, <1>a
<1>4. CASE CopyArrives
  <2>1. late.id \in Ids /\ Process(late.id) /\ UNCHANGED <<requests, pending, answered>>
    BY <1>4 DEF CopyArrives, requester, TypeOK, Late
  <2>2. ~lost /\ \A i \in DOMAIN replies : i \in DOMAIN replies' /\ replies'[i] = replies[i]
    BY <2>1, ProcessAnswers
  <2> QED
    BY <2>1, <2>2, <1>a
<1>5. CASE SendPdu
  <2>1. /\ replies \in Seq(Reply) /\ replies' = Append(replies, Pdu)
        /\ UNCHANGED <<requests, pending, answered, lost>>
    BY <1>5 DEF SendPdu, ghosts, requester, TypeOK
  <2>2. \A i \in DOMAIN replies : i \in DOMAIN replies' /\ replies'[i] = replies[i]
    BY <2>1, AppendFacts, NoneType
  <2> QED
    BY <2>1, <2>2, <1>a
<1>6. CASE OperationInactive
  <2>1. operation.id \in Ids /\ SendStatus(operation.id, "TIMED_OUT")
        /\ UNCHANGED <<requests, pending, answered>>
    BY <1>6 DEF OperationInactive, requester, TypeOK, Operation
  <2>2. ~lost /\ \A i \in DOMAIN replies : i \in DOMAIN replies' /\ replies'[i] = replies[i]
    BY <2>1, SendStatusKeeps DEF Results
  <2> QED
    BY <2>1, <2>2, <1>a
<1>7. CASE TimesOut \/ RequesterRestarts \/ ResponderRestarts
           \/ (\E b \in Boards : LinkFails(b))
  BY <1>7 DEF TimesOut, RequesterRestarts, ResponderRestarts, LinkFails
<1>8. CASE CopyVanishes \/ LocalSend \/ Captured \/ CaptureFails \/ OperationEnds
           \/ (\E i \in Slots : RetentionEnds(i))
           \/ (\E b \in Boards : LinkReady(b) \/ PeerAbsent(b)) \/ UNCHANGED vars
  <2>1. UNCHANGED <<requests, replies, pending, answered, lost>>
    BY <1>8 DEF CopyVanishes, LocalSend, Captured, CaptureFails, OperationEnds, RetentionEnds,
       LinkReady, PeerAbsent, requester, wires, ghosts, vars
  <2> QED
    BY <2>1, <1>a
<1> QED
  BY <1>1, <1>2, <1>3, <1>4, <1>5, <1>6, <1>7, <1>8 DEF Next

(* Until the operator has been told, the latest request or its answer is   *)
(* on its way, unless a link or a board failed since.                      *)
THEOREM AnswersOnTheirWay == Spec => []AnswerOnItsWay
<1>1. Init => AnswerOnItsWay
  BY DEF Init, AnswerOnItsWay
<1> QED
  BY <1>1, TypeInit, TypeStep, AnswerStep, PTL DEF Spec

-----------------------------------------------------------------------------
(* The service.                                                            *)

(* An operation that is over carries no request.                           *)
IdleUnnamed == operation.stage = "idle" => operation.id = None

LEMMA IdleStep ==
  ASSUME TypeOK, IdleUnnamed, [Next]_vars
  PROVE  IdleUnnamed'
<1>1. ASSUME NEW id, Process(id) PROVE IdleUnnamed'
  BY <1>1 DEF Process, Duplicate, Refuse, Accept, IdleUnnamed
<1>2. CASE RequestArrives \/ CopyArrives
  BY <1>1, <1>2 DEF RequestArrives, CopyArrives
<1>3. CASE LocalSend \/ Captured \/ CaptureFails \/ OperationEnds \/ OperationInactive
           \/ ResponderRestarts
  BY <1>3 DEF LocalSend, Captured, CaptureFails, OperationEnds, OperationInactive,
     ResponderRestarts, Idle, IdleUnnamed, TypeOK, Operation
<1>4. CASE \/ Request \/ StatusArrives \/ PduArrives \/ TimesOut \/ CopyVanishes
           \/ (\E i \in Slots : RetentionEnds(i)) \/ SendPdu
           \/ (\E b \in Boards : LinkReady(b) \/ PeerAbsent(b) \/ LinkFails(b))
           \/ RequesterRestarts \/ UNCHANGED vars
  BY <1>4 DEF Request, StatusArrives, PduArrives, TimesOut, CopyVanishes, RetentionEnds,
     SendPdu, LinkReady, PeerAbsent, LinkFails, RequesterRestarts, vars, IdleUnnamed
<1> QED
  BY <1>2, <1>3, <1>4 DEF Next

(* What is settled was issued.                                             *)
LEMMA SettledIssued ==
  ASSUME TypeOK, Growing
  PROVE  /\ next_request_id \in Nat \ {0}
         /\ Settled \in 0..(next_request_id - 1)
         /\ requests = <<>> => Settled = next_request_id - 1
<1>1. next_request_id \in Nat \ {0}
  BY IdsAreNumbers
<1>2. CASE requests # <<>>
  <2>1. 1 \in DOMAIN requests /\ requests[1] = Head(requests)
    BY <1>2, TailFacts DEF TypeOK
  <2>2. Head(requests) \in Nat \ {0} /\ Head(requests) < next_request_id
    BY <2>1, IdsAreNumbers DEF Growing
  <2> QED
    BY <1>1, <1>2, <2>2 DEF Settled
<1> QED
  BY <1>1, <1>2 DEF Settled

(* The first request on its way is settled by its arrival, and not before. *)
LEMMA ArrivalSettles ==
  ASSUME TypeOK, Growing, requests # <<>>, requests' = Tail(requests),
         UNCHANGED next_request_id
  PROVE  /\ Head(requests) \in (Settled + 1)..(next_request_id - 1)
         /\ Settled' \in Head(requests)..(next_request_id - 1)
<1>1. /\ requests \in Seq(Ids) /\ 1 \in DOMAIN requests /\ requests[1] = Head(requests)
      /\ \A i \in DOMAIN Tail(requests) :
           /\ i \in Nat \ {0} /\ i + 1 \in DOMAIN requests
           /\ Tail(requests)[i] = requests[i + 1]
  BY TailFacts DEF TypeOK
<1>2. /\ next_request_id \in Nat \ {0} /\ Head(requests) \in Nat \ {0}
      /\ Head(requests) < next_request_id
  BY <1>1, IdsAreNumbers DEF Growing
<1>3. Settled = Head(requests) - 1
  BY DEF Settled
<1>4. CASE requests' = <<>>
  BY <1>2, <1>3, <1>4 DEF Settled
<1>5. CASE requests' # <<>>
  <2>1. Tail(requests) \in Seq(Ids)
    BY <1>1, TailFacts
  <2>2. 1 \in DOMAIN Tail(requests) /\ Head(Tail(requests)) = Tail(requests)[1]
    BY <1>5, <2>1, TailFacts
  <2>3. 2 \in DOMAIN requests /\ Head(requests') = requests[2]
    BY <1>1, <2>2
  <2>4. /\ requests[2] \in Nat /\ requests[1] < requests[2]
        /\ requests[2] < next_request_id
    BY <1>1, <2>3, IdsAreNumbers DEF Growing
  <2>5. Settled' = requests[2] - 1
    BY <1>5, <2>3 DEF Settled
  <2> QED
    BY <1>1, <1>2, <1>3, <2>4, <2>5
<1> QED
  BY <1>4, <1>5

(* Each step of the protocol is one of RequestService, or none.            *)
LEMMA ServiceStep ==
  ASSUME SeenInvariant, IdleUnnamed, [Next]_vars
  PROVE  [Service!Next]_Service!vars
<1> DEFINE issued == next_request_id - 1
<1>t. TypeOK /\ TypeOK' /\ Growing /\ Growing' /\ CopyInvariant
  BY SeenStep, TypeStep DEF SeenInvariant, CopyInvariant
<1>s. /\ next_request_id \in Nat \ {0} /\ Settled \in 0..issued
      /\ requests = <<>> => Settled = issued
  BY <1>t, SettledIssued
<1>0. ASSUME UNCHANGED <<next_request_id, requests>>, operation'.id = operation.id
      PROVE  UNCHANGED Service!vars
  BY <1>0 DEF Service!vars, Settled
<1>1. CASE Request
  <2>1. issued' = issued + 1 /\ operation' = operation
    BY <1>1, <1>s DEF Request
  <2>2. Settled' \in {Settled, issued'}
    <3>1. CASE requests' = requests
      BY <1>1, <1>s, <3>1 DEF Request, Settled
    <3>2. CASE requests' = Append(requests, next_request_id)
      <4>1. requests' # <<>> /\ Head(requests') = IF requests = <<>> THEN next_request_id
                                                  ELSE Head(requests)
        BY <1>t, <1>1, <3>2 DEF TypeOK, Request
      <4> QED
        BY <4>1 DEF Settled
    <3> QED
      BY <1>1, <3>1, <3>2 DEF Request
  <2>3. Service!Ask
    BY <2>1, <2>2 DEF Service!Ask
  <2> QED
    BY <2>3 DEF Service!Next
<1>2. CASE RequestArrives
  <2> DEFINE id == Head(requests)
  <2>1. /\ requests # <<>> /\ requests' = Tail(requests)
        /\ Process(id) /\ UNCHANGED next_request_id
    BY <1>2 DEF RequestArrives, requester
  <2>2. id \in (Settled + 1)..issued /\ Settled' \in id..issued
    BY <1>t, <2>1, ArrivalSettles
  <2> HIDE DEF id
  <2>3. CASE Accept(id)
    <3>1. operation.id = None /\ operation'.id = id
      BY <2>3 DEF Accept, Busy, IdleUnnamed
    <3>2. Service!Serve(id)
      BY <2>1, <2>2, <3>1 DEF Service!Serve
    <3>3. id \in 1..issued
      BY <1>s, <2>2
    <3> QED
      BY <3>2, <3>3 DEF Service!Next
  <2>4. CASE Duplicate(id) \/ Refuse(id)
    <3>1. operation' = operation
      BY <2>4 DEF Duplicate, Refuse
    <3>2. Settled' \in (Settled + 1)..issued
      BY <1>s, <2>2
    <3>3. Service!Settle
      BY <2>1, <3>1, <3>2 DEF Service!Settle
    <3> QED
      BY <3>3 DEF Service!Next
  <2> QED
    BY <2>1, <2>3, <2>4 DEF Process
<1>3. CASE CopyArrives
  <2>1. operation' = operation /\ UNCHANGED <<next_request_id, requests>>
    BY <1>t, <1>3, CopyIsDuplicate DEF CopyArrives, requester
  <2> QED
    BY <1>0, <2>1
<1>4. CASE CaptureFails \/ OperationEnds \/ OperationInactive
  <2>1. operation'.id = None /\ UNCHANGED <<next_request_id, requests>>
    BY <1>4 DEF CaptureFails, OperationEnds, OperationInactive, Idle, requester, wires
  <2>2. Service!Finish
    BY <2>1 DEF Service!Finish, Settled
  <2> QED
    BY <2>2 DEF Service!Next
<1>5. ASSUME NEW b \in Boards, LinkFails(b) PROVE [Service!Next]_Service!vars
  <2>1. UNCHANGED <<next_request_id, operation>>
    BY <1>5 DEF LinkFails, requester
  <2>2. CASE requests' = requests
    BY <1>0, <2>1, <2>2
  <2>3. CASE requests' = <<>>
    <3>1. Settled' = issued
      BY <2>1, <2>3 DEF Settled
    <3>2. CASE Settled = issued
      BY <2>1, <3>1, <3>2 DEF Service!vars
    <3>3. CASE Settled # issued
      <4>1. Settled' \in (Settled + 1)..issued
        BY <1>s, <3>1, <3>3
      <4>2. Service!Settle
        BY <2>1, <4>1 DEF Service!Settle
      <4> QED
        BY <4>2 DEF Service!Next
    <3> QED
      BY <3>2, <3>3
  <2> QED
    BY <1>5, <2>2, <2>3 DEF LinkFails
<1>6. CASE RequesterRestarts
  <2>1. issued' = 0 /\ Settled' = 0 /\ operation' = operation
    BY <1>6 DEF RequesterRestarts, Settled
  <2>2. Service!StartOver
    BY <2>1 DEF Service!StartOver
  <2> QED
    BY <2>2 DEF Service!Next
<1>7. CASE ResponderRestarts
  <2>1. /\ operation'.id = None /\ requests' = <<>>
        /\ UNCHANGED next_request_id
    BY <1>7 DEF ResponderRestarts, Idle, requester
  <2>2. Settled' = issued
    BY <2>1 DEF Settled
  <2>3. Service!Finish
    BY <2>1, <2>2 DEF Service!Finish
  <2> QED
    BY <2>3 DEF Service!Next
<1>8. CASE LocalSend \/ Captured
  <2>1. operation'.id = operation.id /\ UNCHANGED <<next_request_id, requests>>
    BY <1>t, <1>8 DEF LocalSend, Captured, Busy, IdleUnnamed, TypeOK, Operation,
       requester, wires
  <2> QED
    BY <1>0, <2>1
<1>9. CASE \/ StatusArrives \/ PduArrives \/ TimesOut \/ CopyVanishes
           \/ (\E i \in Slots : RetentionEnds(i)) \/ SendPdu
           \/ (\E b \in Boards : LinkReady(b) \/ PeerAbsent(b)) \/ UNCHANGED vars
  <2>1. UNCHANGED <<next_request_id, requests, operation>>
    BY <1>9 DEF StatusArrives, PduArrives, TimesOut, CopyVanishes, RetentionEnds, SendPdu,
       LinkReady, PeerAbsent, requester, wires, vars
  <2> QED
    BY <1>0, <2>1
<1> QED
  BY <1>1, <1>2, <1>3, <1>4, <1>5, <1>6, <1>7, <1>8, <1>9 DEF Next

(* The protocol implements RequestService: under every fault, and for      *)
(* every size of the ring, requests are served in the order in which they  *)
(* were made, at most once, one at a time, and never after a refusal.      *)
THEOREM ServicePromiseKept == Spec => KeepsServicePromise
<1>1. Init => Service!Init /\ IdleUnnamed
  BY DEF Init, Service!Init, Settled, Idle, IdleUnnamed
<1>2. SeenInvariant /\ IdleUnnamed /\ [Next]_vars => IdleUnnamed'
  BY IdleStep DEF SeenInvariant, CopyInvariant
<1>3. SeenInvariant /\ IdleUnnamed /\ [Next]_vars => [Service!Next]_Service!vars
  BY ServiceStep
<1> QED
  BY <1>1, <1>2, <1>3, SeenInit, SeenStep, PTL DEF Spec, KeepsServicePromise, Service!Spec
=============================================================================
