--------------------------- MODULE CommandExchange ---------------------------
(***************************************************************************)
(* REQUEST: one board asks the other to capture a picture and send it.     *)
(* The responder keeps a ring of the requests it has seen, so that one     *)
(* that reaches it twice is not executed twice, and answers each; the      *)
(* requester waits for the answer with a deadline that any CFDP PDU        *)
(* cancels as well.                                                        *)
(*                                                                         *)
(* One direction: a requester, a responder and the packets between them,   *)
(* in order (COP-1) unless a link fails and drops them.  Time passes       *)
(* freely: the deadline and the retention may end in any state.            *)
(***************************************************************************)
EXTENDS Naturals, Sequences

CONSTANTS Capacity,     \* DEMO_DEDUP_CAPACITY
          MaxRequests,  \* bound: requests between two starts of the requester
          MaxCommands,  \* bound: commands on their way
          MaxReplies,   \* answers on their way before a submission blocks
          Faults        \* the faults that may happen

ASSUME CapacityAssumption == Capacity \in Nat \ {0}
ASSUME BoundsAssumption == MaxRequests \in Nat \ {0} /\ MaxCommands \in Nat /\ MaxReplies \in Nat
ASSUME FaultsAssumption == Faults \subseteq {"copy", "loss", "requester", "responder"}

VARIABLES
  \* requester
  next_request_id,  \* the next identifier
  pending,          \* pending_request_id
  deadline,         \* pending_request_deadline_ms is set
  \* responder
  entries, next,    \* dedup_cache
  operation,        \* operation_active and active_operation
  \* between them
  link,             \* whether a board may send, and to whom
  requests,         \* commands on their way
  replies,          \* status and CFDP packets on their way back
  late,             \* a copy of a command that was delivered already
  \* ghosts
  answered,         \* the operator was told a result of the pending request
  lost,             \* something was dropped since that request
  restarted         \* the responder knows requests of an earlier start

requester == <<next_request_id, pending, deadline>>
cache     == <<entries, next>>
wires     == <<requests, replies>>
ghosts    == <<answered, lost, restarted>>
vars == <<next_request_id, pending, deadline, entries, next,
          operation, link, requests, replies, late, answered, lost, restarted>>

Boards  == {"requester", "responder"}
Ids     == 1..MaxRequests
None    == 0
Slots   == 0..(Capacity - 1)
Empty   == [i \in Slots |-> None]
Results == {"ACCEPTED", "BUSY", "DUPLICATE", "TIMED_OUT"}
Reply   == [result : Results \cup {"PDU"}, id : Ids \cup {None}]
Pdu     == [result |-> "PDU", id |-> None]
NoLate  == [id |-> None, behind |-> 0]
Late    == {NoLate} \cup [id : Ids, behind : Slots]

(* The stage of an operation: reserved before the capture, then sending.   *)
Operation == [stage : {"idle", "reserved", "sending"}, id : Ids \cup {None}]
Idle      == [stage |-> "idle", id |-> None]

(* Every variable has its type, the ring its size, and a local operation   *)
(* carries no request identifier (struct send_operation, demo_dedup_cache).*)
TypeOK ==
  /\ next_request_id \in 1..(MaxRequests + 1)
  /\ pending \in Ids \cup {None} /\ deadline \in BOOLEAN
  /\ entries \in [Slots -> Ids \cup {None}] /\ next \in Slots
  /\ operation \in Operation
  /\ link \in [Boards -> {"ready", "absent", "held"}]
  /\ requests \in Seq(Ids) /\ replies \in Seq(Reply)
  /\ late \in Late
  /\ answered \in BOOLEAN /\ lost \in BOOLEAN /\ restarted \in BOOLEAN

Init ==
  /\ next_request_id = 1 /\ pending = None /\ deadline = FALSE
  /\ entries = Empty /\ next = 0
  /\ operation = Idle
  /\ link = [b \in Boards |-> "absent"]
  /\ requests = <<>> /\ replies = <<>>
  /\ late = NoLate
  /\ answered = FALSE /\ lost = FALSE /\ restarted = FALSE

-----------------------------------------------------------------------------
(* The requester (process_actions, process_router_messages, worker).       *)

(* Mutant: a request that replaces an unanswered one takes its identifier. *)
RequestAgain ==
  /\ next_request_id \in Ids
  /\ LET id == IF pending # None /\ ~answered THEN pending ELSE next_request_id
     IN  /\ link["requester"] = "ready" /\ Len(requests) < MaxCommands
         /\ requests' = Append(requests, id)
         /\ pending' = id
         /\ next_request_id' = IF id = pending THEN next_request_id ELSE id + 1
  /\ deadline' = TRUE /\ answered' = FALSE /\ lost' = FALSE
  /\ UNCHANGED <<cache, operation, link, replies, late, restarted>>

(* An identifier is used up even when the request cannot be sent, and a    *)
(* new request takes the place of one that is still pending.               *)
Request ==
  /\ next_request_id \in Ids
  /\ next_request_id' = next_request_id + 1
  /\ \/ /\ link["requester"] = "ready" /\ Len(requests) < MaxCommands
        /\ requests' = Append(requests, next_request_id)
        /\ pending' = next_request_id
        /\ deadline' = TRUE
        /\ answered' = FALSE /\ lost' = FALSE
     \/ /\ link["requester"] # "ready"
        /\ UNCHANGED <<requests, pending, deadline, answered, lost>>
  /\ UNCHANGED <<cache, operation, link, replies, late, restarted>>

(* process_command_status                                                  *)
StatusArrives ==
  /\ replies # <<>> /\ Head(replies).result \in Results
  /\ replies' = Tail(replies)
  /\ deadline' = (deadline /\ Head(replies).id # pending)
  /\ answered' = (answered \/ Head(replies).id = pending)
  /\ UNCHANGED <<next_request_id, pending, cache, operation, link,
                 requests, late, lost, restarted>>

(* A CFDP PDU of whichever transfer cancels the deadline.                  *)
PduArrives ==
  /\ replies # <<>> /\ Head(replies) = Pdu
  /\ replies' = Tail(replies)
  /\ deadline' = FALSE
  /\ UNCHANGED <<next_request_id, pending, cache, operation, link,
                 requests, late, ghosts>>

TimesOut ==
  /\ deadline
  /\ deadline' = FALSE
  /\ answered' = TRUE
  /\ UNCHANGED <<next_request_id, pending, cache, operation, link,
                 wires, late, lost, restarted>>

-----------------------------------------------------------------------------
(* The responder (process_capture_command).                                *)

(* send_command_status: a submission waits for room, and one that is       *)
(* refused goes unnoticed.                                                 *)
SendStatus(id, result) ==
  IF link["responder"] = "held"
  THEN lost' = TRUE /\ UNCHANGED replies
  ELSE /\ Len(replies) < MaxReplies
       /\ replies' = Append(replies, [result |-> result, id |-> id])
       /\ UNCHANGED lost

(* Mutant: the index runs off the ring.                                    *)
FollowingUnwrapped(i) == i + 1

Following(i) == IF i = Capacity - 1 THEN 0 ELSE i + 1

Remembered(id) == \E i \in Slots : entries[i] = id

(* Mutant: the ring does not advance past an entry that is in use.         *)
RecordInPlace(id) ==
  /\ entries' = [entries EXCEPT ![next] = id]
  /\ next' = IF entries[next] # None THEN next ELSE Following(next)

(* demo_dedup_check_and_record: what it records.  The entry it takes may   *)
(* be one whose retention has not ended.                                   *)
Record(id) ==
  /\ entries' = [entries EXCEPT ![next] = id]
  /\ next' = Following(next)

(* execute_send_operation keeps the worker from everything else.           *)
Capturing == operation.stage = "reserved"

Busy == operation.stage # "idle" \/ link["responder"] # "ready"

Duplicate(id) ==
  /\ Remembered(id)
  /\ SendStatus(id, "DUPLICATE")
  /\ UNCHANGED <<cache, operation>>

(* Mutant: a request that is refused is not recorded.                      *)
RefuseUnrecorded(id) ==
  /\ ~Remembered(id) /\ Busy
  /\ SendStatus(id, "BUSY")
  /\ UNCHANGED <<cache, operation>>

(* Mutant: a refusal is not answered.                                      *)
RefuseSilently(id) ==
  /\ ~Remembered(id) /\ Busy
  /\ Record(id)
  /\ UNCHANGED <<operation, replies, lost>>

(* The request is remembered though it is refused.                         *)
Refuse(id) ==
  /\ ~Remembered(id) /\ Busy
  /\ Record(id)
  /\ SendStatus(id, "BUSY")
  /\ UNCHANGED operation

(* Mutant: only refusals are recorded.                                     *)
AcceptUnrecorded(id) ==
  /\ ~Remembered(id) /\ ~Busy
  /\ operation' = [stage |-> "reserved", id |-> id]
  /\ SendStatus(id, "ACCEPTED")
  /\ UNCHANGED cache

Accept(id) ==
  /\ ~Remembered(id) /\ ~Busy
  /\ Record(id)
  /\ operation' = [stage |-> "reserved", id |-> id]
  /\ SendStatus(id, "ACCEPTED")

Process(id) == Duplicate(id) \/ Refuse(id) \/ Accept(id)

(* After a resynchronization that sets V(R) back a delayed copy of a frame *)
(* may be delivered again, while its request is still remembered: within   *)
(* the retention and before Capacity other requests.                       *)
RequestArrives ==
  /\ requests # <<>> /\ ~Capturing
  /\ requests' = Tail(requests)
  /\ Process(Head(requests))
  /\ IF Remembered(Head(requests)) THEN UNCHANGED late
     ELSE IF late = NoLate
     THEN late' \in {NoLate} \cup IF "copy" \in Faults
                       THEN {[id |-> Head(requests), behind |-> 0]} ELSE {}
     ELSE late' = IF late.behind + 1 \in Slots
                  THEN [late EXCEPT !.behind = @ + 1] ELSE NoLate
  /\ UNCHANGED <<requester, link, answered, restarted>>

CopyArrives ==
  /\ late # NoLate /\ ~Capturing
  /\ late' = NoLate
  /\ Process(late.id)
  /\ UNCHANGED <<requester, link, requests, answered, restarted>>

CopyVanishes ==
  /\ late # NoLate
  /\ late' = NoLate
  /\ UNCHANGED <<requester, cache, operation, link, wires, ghosts>>

(* Requests are recorded in the order of the ring and kept equally long,   *)
(* so the oldest expires first.                                            *)
Older(j, i) == (j + Capacity - next) % Capacity < (i + Capacity - next) % Capacity

RetentionEnds(i) ==
  /\ entries[i] \notin {None, late.id}
  /\ \A j \in Slots : Older(j, i) => entries[j] = None
  /\ entries' = [entries EXCEPT ![i] = None]
  /\ restarted' = (restarted /\ ~(entries' = Empty /\ operation.id = None /\ replies = <<>>))
  /\ UNCHANGED <<requester, next, operation, link, wires, late, answered, lost>>

-----------------------------------------------------------------------------
(* The operation of the responder (claim_send_operation,                   *)
(* execute_send_operation, process_cfdp_events).                           *)

LocalSend ==
  /\ ~Busy
  /\ operation' = [stage |-> "reserved", id |-> None]
  /\ UNCHANGED <<requester, cache, link, wires, late, ghosts>>

Captured ==
  /\ Capturing
  /\ operation' = [operation EXCEPT !.stage = "sending"]
  /\ UNCHANGED <<requester, cache, link, wires, late, ghosts>>

(* The requester, which was told ACCEPTED, is not told of this.            *)
CaptureFails ==
  /\ Capturing
  /\ operation' = Idle
  /\ UNCHANGED <<requester, cache, link, wires, late, ghosts>>

(* A PDU of the responder's file, or about a file of the requester's.      *)
SendPdu ==
  /\ ~Capturing
  /\ link["responder"] # "held" /\ Len(replies) < MaxReplies
  /\ replies' = Append(replies, Pdu)
  /\ UNCHANGED <<requester, cache, operation, link, requests, late, ghosts>>

OperationEnds ==
  /\ operation.stage = "sending"
  /\ operation' = Idle
  /\ UNCHANGED <<requester, cache, link, wires, late, ghosts>>

(* Inactivity is reported to whoever asked for the file.                   *)
OperationInactive ==
  /\ operation.stage = "sending" /\ operation.id # None
  /\ operation' = Idle
  /\ SendStatus(operation.id, "TIMED_OUT")
  /\ UNCHANGED <<requester, cache, link, requests, late, answered, restarted>>

-----------------------------------------------------------------------------
(* Links and restarts.                                                     *)

(* process_peer_status, and the end of a recovery.                         *)
LinkReady(b) ==
  /\ link[b] # "ready" /\ (b = "responder" => ~Capturing)
  /\ link' = [link EXCEPT ![b] = "ready"]
  /\ UNCHANGED <<requester, cache, operation, wires, late, ghosts>>

(* The worker's PEER_TIMEOUT_MS, which waits for transfers.                *)
PeerAbsent(b) ==
  /\ link[b] = "ready"
  /\ b = "responder" => operation = Idle
  /\ link' = [link EXCEPT ![b] = "absent"]
  /\ UNCHANGED <<requester, cache, operation, wires, late, ghosts>>

(* A failure or a recovery holds application traffic, and what was on its  *)
(* way from this board may be lost.  The requester refuses to send with a  *)
(* held link as with an absent peer.  The transaction it aborts becomes an *)
(* OperationInactive, or an OperationEnds, of its own.                     *)
LinkFails(b) ==
  /\ "loss" \in Faults /\ link[b] # "held"
  /\ link' = [link EXCEPT ![b] = IF b = "requester" THEN "absent" ELSE "held"]
  /\ lost' = TRUE
  /\ \/ /\ b = "requester"
        /\ requests' = <<>>
        /\ UNCHANGED replies
     \/ /\ b = "responder"
        /\ replies' = <<>>
        /\ UNCHANGED requests
  /\ UNCHANGED <<requester, cache, operation, late, answered, restarted>>

(* Everything a board knows is volatile.                                   *)
RequesterRestarts ==
  /\ "requester" \in Faults
  /\ next_request_id # 1
  /\ next_request_id' = 1 /\ pending' = None /\ deadline' = FALSE
  /\ link' = [link EXCEPT !["requester"] = "absent"]
  /\ requests' = <<>> /\ replies' = <<>> /\ late' = NoLate
  /\ answered' = FALSE /\ lost' = FALSE
  /\ restarted' = (entries # Empty \/ operation.id # None)
  /\ UNCHANGED <<cache, operation>>

ResponderRestarts ==
  /\ "responder" \in Faults
  /\ entries # Empty
  /\ entries' = Empty /\ next' = 0
  /\ operation' = Idle
  /\ link' = [link EXCEPT !["responder"] = "absent"]
  /\ requests' = <<>> /\ replies' = <<>> /\ late' = NoLate
  /\ lost' = TRUE /\ restarted' = FALSE
  /\ UNCHANGED <<requester, answered>>

-----------------------------------------------------------------------------
Next == \/ Request \/ StatusArrives \/ PduArrives \/ TimesOut
        \/ RequestArrives \/ CopyArrives \/ CopyVanishes
        \/ \E i \in Slots : RetentionEnds(i)
        \/ LocalSend \/ Captured \/ CaptureFails \/ SendPdu
        \/ OperationEnds \/ OperationInactive
        \/ \E b \in Boards : LinkReady(b) \/ PeerAbsent(b) \/ LinkFails(b)
        \/ RequesterRestarts \/ ResponderRestarts

Spec == Init /\ [][Next]_vars

(* COP-1 delivers or the link fails, and the worker handles what arrived.  *)
(* A submission holds the worker until there is room, so no PDU takes the  *)
(* room of a status: strong fairness.  A capture ends, well or not.  No    *)
(* fairness on the deadline: an answer does not depend on it.              *)
Fairness ==
  /\ WF_vars(StatusArrives \/ PduArrives)
  /\ SF_vars(RequestArrives)
  /\ WF_vars(Captured \/ CaptureFails)

FairSpec == Spec /\ Fairness

-----------------------------------------------------------------------------
(* Properties.                                                             *)

(* A request that is delivered again starts no second operation, whether   *)
(* the first delivery was executed or refused: the operator who was told   *)
(* BUSY does not get a picture later (demo_dedup_check_and_record).        *)
CopyNotExecuted == [][CopyArrives => operation' = operation]_vars

(* A new request is not taken for an old one: what is on its way is not in *)
(* the ring, unless the requester has restarted, and with it its           *)
(* identifiers, while the ring still holds some of its earlier life.       *)
NewIsNotDuplicate ==
  ~restarted => \A i \in DOMAIN requests : ~Remembered(requests[i])

(* No request is swallowed: until the operator has been told, the request  *)
(* or its answer is on its way, unless a link or a board failed.           *)
AnswerOnItsWay ==
  pending # None /\ ~answered /\ ~lost
    => \/ \E i \in DOMAIN requests : requests[i] = pending
       \/ \E i \in DOMAIN replies : replies[i].id = pending

(* A refusal and an inactivity report are final: while one is on its way   *)
(* the request it names is not being served, whatever copies of it arrive  *)
(* (process_capture_command, process_cfdp_events).                         *)
VerdictFinal ==
  \A i \in DOMAIN replies :
    replies[i].result \in {"BUSY", "TIMED_OUT"} /\ operation.id # None /\ ~restarted
      => replies[i].id # operation.id

(* Every identifier below this one belongs to a request that has reached   *)
(* the responder or never will.                                            *)
Settled == (IF requests = <<>> THEN next_request_id ELSE Head(requests)) - 1

(* The protocol implements RequestService: whatever is lost, delivered     *)
(* again or forgotten in a restart, requests are served in their order and *)
(* at most once, and one that was refused is not served later              *)
(* (process_capture_command, demo_dedup_check_and_record).                 *)
Service == INSTANCE RequestService
             WITH NoRequest <- None, issued <- next_request_id - 1,
                  settled <- Settled, serving <- operation.id

KeepsServicePromise == Service!Spec

(* The operator learns the fate of the latest request even when the        *)
(* deadline was cancelled by a PDU of another transfer: it does not stay   *)
(* unanswered unless a link or a board fails (process_command_status).     *)
FateLearned == []<>(pending = None \/ answered \/ lost)
=============================================================================
