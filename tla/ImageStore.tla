------------------------------ MODULE ImageStore ------------------------------
(***************************************************************************)
(* The image slots of one board and the two CFDP file adapters on top of   *)
(* them (src/demo_image.c): what each call requires and what it leaves     *)
(* behind.  A call that refuses changes nothing.  The module has no state: *)
(* ImageExchange gives it the threads and the order of the calls.          *)
(*                                                                         *)
(* An image object is a header part followed by pixel parts.  What matters *)
(* of a part is which picture it belongs to; Zero is cleared memory.       *)
(***************************************************************************)
EXTENDS Naturals

CONSTANTS SlotCount,   \* number of image slots (DEMO_IMAGE_SLOT_COUNT = 3)
          PartCount,   \* parts of an object: part 1 is the header
          Images,      \* the pictures cameras take
          Zero         \* the value of a cleared part

ASSUME SlotCountAssumption == SlotCount \in Nat /\ SlotCount >= 3
ASSUME PartCountAssumption == PartCount \in Nat /\ PartCount >= 2
ASSUME ZeroAssumption == Zero \notin Images

Slots  == 1..SlotCount
NoSlot == 0                        \* the NULL slot pointer
Parts  == 1..PartCount
Owner  == {"STAGING", "LATEST", "DISPLAY", "TX"}
Object == [Parts -> Images \cup {Zero}]

Blank == [p \in Parts |-> Zero]

(* demo_image_validate looks at the header only: the file checksum, not    *)
(* this test, vouches for the pixels.                                      *)
HeaderValid(obj) == obj[1] # Zero

(* The objects whose parts all come from one picture.                      *)
Complete(obj) == \E i \in Images : \A p \in Parts : obj[p] = i

-----------------------------------------------------------------------------
(* Slot ownership; o is the function from slots to their set of owners.    *)

StoreValid(o) ==
  /\ \A s \in Slots : "STAGING" \in o[s] => o[s] = {"STAGING"}
  /\ \A s, t \in Slots : \/ s = t
                         \/ /\ ~("LATEST" \in o[s] /\ "LATEST" \in o[t])
                            /\ ~("STAGING" \in o[s] /\ "STAGING" \in o[t])

(* A mutant that takes a slot because it is no longer the latest, though   *)
(* the display or a transmission may still hold it.                        *)
FirstNotLatest(o, s) ==
  /\ \A t \in Slots : "STAGING" \notin o[t]
  /\ "LATEST" \notin o[s]

(* claim_staging takes the first unowned slot, unless one is staging.      *)
FirstFree(o, s) ==
  /\ StoreValid(o)
  /\ \A t \in Slots : "STAGING" \notin o[t]
  /\ o[s] = {}
  /\ \A t \in 1..(s - 1) : o[t] # {}

StagingRefused(o) == \A s \in Slots : ~FirstFree(o, s)

ClaimStaging(o, s) == [o EXCEPT ![s] = {"STAGING"}]

AbortStaging(o, s) == IF o[s] = {"STAGING"} THEN [o EXCEPT ![s] = {}] ELSE o

Promotable(o, objs, s) == o[s] = {"STAGING"} /\ HeaderValid(objs[s])

(* A mutant that does not take LATEST away from the previous picture.      *)
PromoteKeepingOld(o, s) == [o EXCEPT ![s] = {"LATEST"}]

Promote(o, s) ==
  [t \in Slots |-> IF t = s THEN {"LATEST"} ELSE o[t] \ {"LATEST"}]

DisplayAvailable(o, s) ==
  /\ StoreValid(o)
  /\ \A t \in Slots : "DISPLAY" \notin o[t]
  /\ "LATEST" \in o[s]

AcquireDisplay(o, s) == [o EXCEPT ![s] = @ \cup {"DISPLAY"}]

ReleaseDisplay(o, s) == [o EXCEPT ![s] = @ \ {"DISPLAY"}]

TxRetainable(o, s) == o[s] # {} /\ "STAGING" \notin o[s] /\ "TX" \notin o[s]

RetainTx(o, s) == [o EXCEPT ![s] = @ \cup {"TX"}]

ReleaseTx(o, s) == [o EXCEPT ![s] = @ \ {"TX"}]

-----------------------------------------------------------------------------
(* The CFDP source: the file a sending transaction reads.                  *)

Source == [slot : Slots \cup {NoSlot}, open : BOOLEAN]

UnboundSource == [slot |-> NoSlot, open |-> FALSE]

SourceBindable(src, o, objs, s) ==
  /\ src = UnboundSource
  /\ "TX" \in o[s]
  /\ HeaderValid(objs[s])

SourceBind(s) == [slot |-> s, open |-> FALSE]

SourceOpenable(src, o) ==
  src.slot # NoSlot /\ ~src.open /\ "TX" \in o[src.slot]

SourceReadable(src, o) ==
  src.open /\ src.slot # NoSlot /\ "TX" \in o[src.slot]

SourceClose(src) == [src EXCEPT !.open = FALSE]

-----------------------------------------------------------------------------
(* The CFDP receiver: the temporary file a receiving transaction writes.   *)
(* extent is the highest part written so far.                              *)

Receiver == [staging : Slots \cup {NoSlot}, open : BOOLEAN,
             extent : 0..PartCount, validated : BOOLEAN]

NoReception ==
  [staging |-> NoSlot, open |-> FALSE, extent |-> 0, validated |-> FALSE]

ReceiverOpenable(r, o, s) == ~r.open /\ r.staging = NoSlot /\ FirstFree(o, s)

ReceiverOpen(s) ==
  [staging |-> s, open |-> TRUE, extent |-> 0, validated |-> FALSE]

ReceiverHandle(r, h) == r.open /\ r.staging # NoSlot /\ r.staging = h

(* A mutant that adds up what was written instead of taking the maximum.   *)
ReceiverWriteAddsUp(r, p) == [r EXCEPT !.extent = @ + p]

ReceiverWrite(r, p) ==
  [r EXCEPT !.extent = IF p > r.extent THEN p ELSE r.extent]

ReceiverClose(r, h) ==
  IF ReceiverHandle(r, h) THEN [r EXCEPT !.open = FALSE] ELSE r

ReceiverComplete(r, objs) ==
  /\ ~r.open /\ r.staging # NoSlot /\ ~r.validated
  /\ r.extent = PartCount
  /\ HeaderValid(objs[r.staging])

(* A mutant that checks the object and forgets to record it.               *)
ReceiverValidateForgets(r) == r

ReceiverValidate(r) == [r EXCEPT !.validated = TRUE]

(* A mutant that promotes whatever arrived once its header is there.       *)
TerminalPromotesPartial(r, o, objs, success) ==
  IF r.staging = NoSlot THEN o
  ELSE IF Promotable(o, objs, r.staging) THEN Promote(o, r.staging)
       ELSE AbortStaging(o, r.staging)

(* A mutant whose failed transfer takes the previous latest image away.    *)
TerminalDropsLatest(r, o, objs, success) ==
  IF r.staging = NoSlot THEN o
  ELSE IF success /\ r.validated /\ Promotable(o, objs, r.staging)
       THEN Promote(o, r.staging)
       ELSE [s \in Slots |-> o[s] \ {"STAGING", "LATEST"}]

(* terminal(success): promote a validated object, else drop the staging    *)
(* slot; either way the reception is forgotten.                            *)
TerminalOwners(r, o, objs, success) ==
  IF r.staging = NoSlot THEN o
  ELSE IF success /\ r.validated
       THEN IF Promotable(o, objs, r.staging) THEN Promote(o, r.staging) ELSE o
       ELSE AbortStaging(o, r.staging)

TerminalReceiver(r) == IF r.staging = NoSlot THEN r ELSE NoReception
=============================================================================
