------------------------- MODULE JobDeliveryProofs -------------------------
(***************************************************************************)
(* Theorems about JobDelivery, for every number of deliveries, requests,   *)
(* attempts, retries and faults and every choice of the switches.          *)
(***************************************************************************)
EXTENDS JobDelivery, TLAPS

-----------------------------------------------------------------------------
(* Lemmas about the helpers the actions are built from.                      *)

LEMMA NewRowType == NewRow \in Row
  BY AttemptsAssumption DEF NewRow, Row, Statuses, Terminal, Retryable

LEMMA FreeType == Free \in Delivery
  BY NewRowType DEF Free, Delivery

LEMMA MessageType ==
  ASSUME NEW task \in Nat, NEW retries \in Nat, NEW token \in Nat
  PROVE  Message(task, retries, token) \in Delivery
  BY NewRowType DEF Message, Free, Delivery

LEMMA IdleType == Idle \in Request
  BY NewRowType DEF Idle, Request, RequestPoints

\* What a commit through the ORM leaves in each column: the loaded session's
\* value where it changed it, the committed one elsewhere.
LEMMA SaveColumns ==
  ASSUME NEW old \in Row, NEW new \in Row, row \in Row
  PROVE  /\ Save(old, new) \in Row
         /\ Save(old, new).status = Column(old.status, new.status, row.status)
         /\ Save(old, new).attempts = Column(old.attempts, new.attempts, row.attempts)
         /\ Save(old, new).token = Column(old.token, new.token, row.token)
         /\ Save(old, new).cancel = Column(old.cancel, new.cancel, row.cancel)
         /\ Save(old, new).result = Column(old.result, new.result, row.result)
  BY DEF Save, Column, Row

\* A step that gives one delivery a new record keeps the type.
LEMMA BecomeType ==
  ASSUME deliveries \in [Deliveries -> Delivery], NEW d \in Deliveries,
         NEW record \in Delivery, Become(d, record)
  PROVE  deliveries' \in [Deliveries -> Delivery]
  BY DEF Become

LEMMA MovesType ==
  ASSUME deliveries \in [Deliveries -> Delivery], row \in Row, NEW d \in Deliveries,
         NEW point \in {"free", "ready"} \union WorkerPoints,
         NEW e \in {"none", "cancelled", "transient", "permanent"}
  PROVE  /\ Finish(d) => deliveries' \in [Deliveries -> Delivery]
         /\ GoTo(d, point) => deliveries' \in [Deliveries -> Delivery]
         /\ GoWith(d, point) => deliveries' \in [Deliveries -> Delivery]
         /\ Raise(d, e) => deliveries' \in [Deliveries -> Delivery]
<1>1. deliveries[d] \in Delivery
  OBVIOUS
<1>2. [deliveries[d] EXCEPT !.pc = point, !.snap = NewRow] \in Delivery
  BY <1>1, NewRowType DEF Delivery
<1>3. [deliveries[d] EXCEPT !.pc = point, !.snap = row] \in Delivery
  BY <1>1 DEF Delivery
<1>4. [deliveries[d] EXCEPT !.pc = "failing", !.exc = e] \in Delivery
  BY <1>1 DEF Delivery, WorkerPoints, OwnerPoints
<1>5. QED
  BY <1>2, <1>3, <1>4, FreeType, BecomeType DEF Finish, GoTo, GoWith, Raise

LEMMA ClaimedTypes ==
  ASSUME row \in Row, claims \in Nat, Claimable(row), NEW del \in Delivery
  PROVE  /\ claims + 1 \in Nat
         /\ [row EXCEPT !.status = "running", !.attempts = @ + 1,
                        !.token = claims + 1, !.lease = "live", !.next = {}] \in Row
         /\ [del EXCEPT !.pc = "started", !.snap = NewRow, !.token = claims + 1]
              \in Delivery
<1>1. claims + 1 \in Nat
  OBVIOUS
<1>2. row.attempts + 1 \in 0..MaxAttempts
  BY AttemptsAssumption DEF Claimable, Row
<1>3. [row EXCEPT !.status = "running", !.attempts = @ + 1,
                  !.token = claims + 1, !.lease = "live", !.next = {}] \in Row
  BY <1>1, <1>2 DEF Row, Statuses
<1>4. [del EXCEPT !.pc = "started", !.snap = NewRow, !.token = claims + 1] \in Delivery
  BY <1>1, NewRowType DEF Delivery, WorkerPoints, OwnerPoints, HandlerPoints
<1>5. QED
  BY <1>1, <1>3, <1>4

LEMMA CompletedType ==
  ASSUME row \in Row, NEW token \in Nat
  PROVE  [row EXCEPT !.status = "completed", !.token = 0, !.lease = "null",
                     !.result = token] \in Row
  BY DEF Row, Statuses, Terminal

LEMMA RequestMovesType ==
  ASSUME requests \in [Requests -> Request], NEW q \in Requests,
         NEW point \in RequestPoints, NEW loaded \in Row
  PROVE  /\ Answer(q) => requests' \in [Requests -> Request]
         /\ RequestGoes(q, point, loaded) => requests' \in [Requests -> Request]
<1>1. [pc |-> point, snap |-> loaded, task |-> 0] \in Request
  BY DEF Request
<1>2. QED
  BY <1>1, IdleType DEF Answer, RequestGoes

-----------------------------------------------------------------------------
(* Type correctness.                                                         *)

LEMMA InitType == Init => TypeOK
<1> SUFFICES ASSUME Init PROVE TypeOK
  OBVIOUS
<1>1. row \in Row /\ deliveries \in [Deliveries -> Delivery]
  BY NewRowType, FreeType DEF Init
<1>2. requests \in [Requests -> Request]
  <2>1. [Idle EXCEPT !.pc = "enqueued"] \in Request
    BY IdleType DEF Request, RequestPoints, DispatchPoints
  <2>2. QED
    BY <2>1, IdleType DEF Init
<1>3. QED
  BY <1>1, <1>2 DEF Init, TypeOK

\* The steps of claim_job.
LEMMA ClaimingType ==
  ASSUME TypeOK, NEW d \in Deliveries, Claiming(d)
  PROVE  TypeOK'
<1> USE DEF TypeOK, control
<1>0. deliveries[d] \in Delivery /\ deliveries[d].snap \in Row
  BY DEF Delivery
<1>1. CASE ClaimRead(d)
  <2>1. ClaimPoint(row) \in {"free", "ready"} \union WorkerPoints
    BY DEF ClaimPoint, WorkerPoints, ClaimPoints
  <2>2. deliveries' \in [Deliveries -> Delivery]
    BY <1>1, <2>1, MovesType DEF ClaimRead
  <2>3. QED
    BY <1>1, <2>2 DEF ClaimRead
<1>2. CASE CancelAtClaim(d)
  <2>1. [deliveries[d].snap EXCEPT !.status = "cancelled"] \in Row
    BY <1>0 DEF Row, Statuses, Terminal
  <2>2. row' \in Row
    BY <1>0, <1>2, <2>1, SaveColumns DEF CancelAtClaim
  <2>3. deliveries' \in [Deliveries -> Delivery]
    BY <1>2, FreeType, BecomeType DEF CancelAtClaim, Finish
  <2>4. QED
    BY <1>2, <2>2, <2>3 DEF CancelAtClaim
<1>3. CASE ExhaustAtClaim(d)
  <2>1. [deliveries[d].snap EXCEPT !.status = "dead_letter"] \in Row
    BY <1>0 DEF Row, Statuses, Terminal
  <2>2. row' \in Row
    BY <1>0, <1>3, <2>1, SaveColumns DEF ExhaustAtClaim
  <2>3. deliveries' \in [Deliveries -> Delivery]
    BY <1>3, FreeType, BecomeType DEF ExhaustAtClaim, Finish
  <2>4. QED
    BY <1>3, <2>2, <2>3 DEF ExhaustAtClaim
<1>4. CASE ClaimUpdate(d)
  <2>1. CASE Claimable(row)
    <3>1. row' \in Row /\ claims' \in Nat
      BY <1>4, <2>1, ClaimedTypes DEF ClaimUpdate
    <3>2. [deliveries[d] EXCEPT !.pc = "started", !.snap = NewRow,
                                !.token = claims + 1] \in Delivery
      BY <1>0, <2>1, ClaimedTypes
    <3>3. deliveries' \in [Deliveries -> Delivery]
      BY <1>4, <2>1, <3>2, BecomeType DEF ClaimUpdate
    <3>4. QED
      BY <1>4, <3>1, <3>3 DEF ClaimUpdate
  <2>2. CASE ~Claimable(row)
    <3>1. deliveries' \in [Deliveries -> Delivery]
      BY <1>4, <2>2, FreeType, BecomeType DEF ClaimUpdate, Finish
    <3>2. QED
      BY <1>4, <2>2, <3>1 DEF ClaimUpdate
  <2>3. QED
    BY <2>1, <2>2
<1>5. CASE DeniedRead(d)
  <2>1. deliveries' \in [Deliveries -> Delivery]
    BY <1>5, MovesType DEF DeniedRead, WorkerPoints, ClaimPoints
  <2>2. QED
    BY <1>5, <2>1 DEF DeniedRead
<1>6. CASE DeniedWrite(d)
  <2>1. [deliveries[d].snap EXCEPT !.status = "failed"] \in Row
    BY <1>0 DEF Row, Statuses, Terminal
  <2>2. row' \in Row
    BY <1>0, <1>6, <2>1, SaveColumns DEF DeniedWrite
  <2>3. deliveries' \in [Deliveries -> Delivery]
    BY <1>6, FreeType, BecomeType DEF DeniedWrite, Finish
  <2>4. QED
    BY <1>6, <2>2, <2>3 DEF DeniedWrite
<1>7. QED
  BY <1>1, <1>2, <1>3, <1>4, <1>5, <1>6 DEF Claiming

\* The steps of the delivery that runs the handler, completes and fails.
LEMMA WorkerType ==
  ASSUME TypeOK, NEW d \in Deliveries, Running(d) \/ Failing(d) \/ Heartbeat(d)
  PROVE  TypeOK'
<1> USE DEF TypeOK, control
<1>0. deliveries[d] \in Delivery /\ deliveries[d].snap \in Row
      /\ deliveries[d].token \in Nat /\ deliveries[d].task \in Nat
      /\ deliveries[d].retries \in Nat
  BY DEF Delivery
<1>a. \A point \in {"handler", "completing"} :
        Checkpoint(d, point) => deliveries' \in [Deliveries -> Delivery]
  BY MovesType DEF Checkpoint, WorkerPoints, OwnerPoints, HandlerPoints
<1>1. CASE FirstCheckpoint(d) \/ HandlerReturns(d)
  BY <1>1, <1>a DEF FirstCheckpoint, HandlerReturns
<1>2. CASE HandlerRaises(d)
  <2>1. deliveries' \in [Deliveries -> Delivery]
    BY <1>2, MovesType DEF HandlerRaises
  <2>2. QED
    BY <1>2, <2>1 DEF HandlerRaises
<1>3. CASE Complete(d)
  <2>1. deliveries' \in [Deliveries -> Delivery]
    BY <1>3, MovesType DEF Complete
  <2>2. row' \in Row
    BY <1>0, <1>3, CompletedType DEF Complete
  <2>3. QED
    BY <1>3, <2>1, <2>2 DEF Complete
<1>4. CASE FailRead(d)
  <2>1. deliveries' \in [Deliveries -> Delivery]
    BY <1>4, MovesType DEF FailRead, WorkerPoints, OwnerPoints
  <2>2. QED
    BY <1>4, <2>1 DEF FailRead
<1>5. CASE FailWrite(d)
  <2> DEFINE old == deliveries[d].snap
             new == [old EXCEPT !.status = FailStatus(old, deliveries[d].exc),
                                !.token = 0, !.lease = "null"]
  <2>1. new \in Row /\ [new EXCEPT !.next = {deliveries[d].token}] \in Row
    BY <1>0, ZenonT(40) DEF Row, FailStatus, Statuses, Terminal, Retryable
  <2>2. row' \in Row
    BY <1>0, <1>5, <2>1, SaveColumns DEF FailWrite
  <2>3. deliveries' \in [Deliveries -> Delivery]
    BY <1>5, MovesType DEF FailWrite, WorkerPoints
  <2>4. pending' \in SUBSET Nat
    BY <1>0, <1>5 DEF FailWrite
  <2>5. QED
    BY <1>5, <2>2, <2>3, <2>4 DEF FailWrite
<1>6. CASE Republish(d)
  <2>1. Message(deliveries[d].task, deliveries[d].retries + 1, deliveries[d].token)
          \in Delivery
    BY <1>0, MessageType
  <2>2. deliveries' \in [Deliveries -> Delivery]
    BY <1>6, <2>1, FreeType, BecomeType DEF Republish, Finish
  <2>3. QED
    BY <1>6, <2>2 DEF Republish
<1>7. CASE Heartbeat(d)
  BY <1>7 DEF Heartbeat, Row
<1>8. QED
  BY <1>1, <1>2, <1>3, <1>4, <1>5, <1>6, <1>7 DEF Running, Failing

\* The steps of an API request.
LEMMA RequestType ==
  ASSUME TypeOK, NEW q \in Requests,
         Dispatching(q) \/ DispatchRaises(q) \/ Committing(q) \/ Asking(q)
           \/ Recovering(q) \/ RequestLost(q)
  PROVE  TypeOK'
<1> USE DEF TypeOK, control
<1>0. requests[q] \in Request /\ requests[q].snap \in Row /\ requests[q].task \in Nat
  BY DEF Request
<1>a. \A slot \in Deliveries :
        PublishTo(slot) => deliveries' \in [Deliveries -> Delivery] /\ published' \in Nat
  <2> SUFFICES ASSUME NEW slot \in Deliveries, PublishTo(slot)
               PROVE  deliveries' \in [Deliveries -> Delivery] /\ published' \in Nat
    OBVIOUS
  <2>1. published + 1 \in Nat /\ 0 \in Nat
    OBVIOUS
  <2>2. Message(published + 1, 0, 0) \in Delivery
    BY <2>1, MessageType
  <2>3. QED
    BY <2>1, <2>2, BecomeType DEF PublishTo
<1>1. CASE Dispatch(q)
  <2>1. deliveries' \in [Deliveries -> Delivery] /\ published' \in Nat
    BY <1>1, <1>a DEF Dispatch
  <2>2. requests' \in [Requests -> Request]
    <3>1. published + 1 \in Nat
      OBVIOUS
    <3>2. [Idle EXCEPT !.pc = "record", !.task = published + 1] \in Request
      BY <3>1, IdleType DEF Request, RequestPoints
    <3>3. QED
      BY <1>1, <3>2 DEF Dispatch
  <2>3. QED
    BY <1>1, <2>1, <2>2 DEF Dispatch
<1>2. CASE DispatchRaises(q)
  <2>1. deliveries' \in [Deliveries -> Delivery] /\ published' \in Nat
    BY <1>2, <1>a DEF DispatchRaises
  <2>2. requests' \in [Requests -> Request]
    BY <1>2, NewRowType, RequestMovesType DEF DispatchRaises, RequestPoints
  <2>3. QED
    BY <1>2, <2>1, <2>2, BoundsAssumption DEF DispatchRaises
<1>3. CASE RecordTask(q)
  <2>1. row' \in Row
    BY <1>0, <1>3 DEF RecordTask, Row
  <2>2. requests' \in [Requests -> Request]
    BY <1>3, IdleType DEF RecordTask, Answer
  <2>3. QED
    BY <1>3, <2>1, <2>2 DEF RecordTask
<1>4. CASE UndeliveredRead(q)
  <2>1. requests' \in [Requests -> Request]
    BY <1>4, RequestMovesType DEF UndeliveredRead, RequestPoints
  <2>2. QED
    BY <1>4, <2>1 DEF UndeliveredRead
<1>5. CASE UndeliveredWrite(q)
  <2>1. [requests[q].snap EXCEPT !.status = "failed"] \in Row
    BY <1>0 DEF Row, Statuses, Terminal
  <2>2. row' \in Row
    BY <1>0, <1>5, <2>1, SaveColumns DEF UndeliveredWrite
  <2>3. requests' \in [Requests -> Request]
    BY <1>5, IdleType DEF UndeliveredWrite, Answer
  <2>4. QED
    BY <1>5, <2>2, <2>3 DEF UndeliveredWrite
<1>6. CASE CancelRead(q)
  <2>1. requests' \in [Requests -> Request]
    BY <1>6, RequestMovesType DEF CancelRead, RequestPoints
  <2>2. QED
    BY <1>6, <2>1 DEF CancelRead
<1>7. CASE CancelWrite(q)
  <2> DEFINE old == requests[q].snap
             new == [old EXCEPT !.status = IF old.status = "running" THEN "cancelling"
                                           ELSE "cancelled"]
  <2>1. new \in Row
    BY <1>0 DEF Row, Statuses, Terminal
  <2>2. row' \in Row
    <3>1. Save(old, new) \in Row
      BY <1>0, <2>1, SaveColumns
    <3>2. row' = [Save(old, new) EXCEPT !.cancel = TRUE]
      BY <1>7 DEF CancelWrite
    <3> HIDE DEF old, new
    <3>3. QED
      BY <3>1, <3>2 DEF Row
  <2>3. requests' \in [Requests -> Request]
    BY <1>7, <2>2, RequestMovesType DEF CancelWrite, RequestPoints
  <2>4. QED
    BY <1>7, <2>2, <2>3 DEF CancelWrite
<1>8. CASE Revoke(q)
  <2>1. revoked' \in SUBSET Nat
    BY <1>0, <1>8 DEF Revoke, Row
  <2>2. requests' \in [Requests -> Request]
    BY <1>8, IdleType DEF Revoke, Answer
  <2>3. QED
    BY <1>8, <2>1, <2>2 DEF Revoke
<1>9. CASE ResetRead(q)
  <2>1. requests' \in [Requests -> Request]
    BY <1>9, RequestMovesType DEF ResetRead, RequestPoints
  <2>2. QED
    BY <1>9, <2>1 DEF ResetRead
<1>10. CASE ResetWrite(q)
  <2>1. Fresh(requests[q].snap) \in Row
    BY <1>0, NewRowType DEF Fresh, Row
  <2>2. row' \in Row
    BY <1>0, <1>10, <2>1, SaveColumns DEF ResetWrite
  <2>3. requests' \in [Requests -> Request]
    BY <1>10, NewRowType, RequestMovesType DEF ResetWrite, RequestPoints, DispatchPoints
  <2>4. QED
    BY <1>10, <2>2, <2>3 DEF ResetWrite
<1>11. CASE RecoverRead(q)
  <2>1. requests' \in [Requests -> Request]
    BY <1>11, RequestMovesType DEF RecoverRead, RequestPoints
  <2>2. QED
    BY <1>11, <2>1 DEF RecoverRead
<1>12. CASE RecoverWrite(q)
  <2> DEFINE old == requests[q].snap
             clear == [old EXCEPT !.token = 0, !.lease = "null"]
  <2>1. /\ [clear EXCEPT !.status = "cancelled"] \in Row
        /\ [clear EXCEPT !.status = "dead_letter"] \in Row
        /\ [clear EXCEPT !.status = "retry_scheduled", !.next = {0}] \in Row
    <3>1. clear \in Row
      BY <1>0 DEF Row
    <3>2. {"cancelled", "dead_letter", "retry_scheduled"} \subseteq Statuses
      BY DEF Statuses, Terminal, Retryable
    <3>3. QED
      BY <3>1, <3>2 DEF Row
  <2>2. row' \in Row
    BY <1>0, <1>12, <2>1, SaveColumns DEF RecoverWrite
  <2>3. requests' \in [Requests -> Request]
    BY <1>12, NewRowType, IdleType, RequestMovesType
    DEF RecoverWrite, RequestPoints, DispatchPoints, Answer
  <2>4. QED
    BY <1>12, <2>2, <2>3 DEF RecoverWrite
<1>13. CASE OrphanRead(q)
  <2>1. requests' \in [Requests -> Request]
    BY <1>13, NewRowType, RequestMovesType DEF OrphanRead, RequestPoints, DispatchPoints
  <2>2. QED
    BY <1>13, <2>1 DEF OrphanRead
<1>14. CASE RequestLost(q)
  BY <1>14, IdleType DEF RequestLost, Answer
<1>15. QED
  BY <1>1, <1>2, <1>3, <1>4, <1>5, <1>6, <1>7, <1>8, <1>9, <1>10, <1>11, <1>12,
     <1>13, <1>14 DEF Dispatching, Committing, Asking, Recovering

\* The steps of time, access and the broker.
LEMMA WorldType ==
  ASSUME TypeOK,
         \/ LeaseExpires \/ BackoffElapses \/ RevokeAccess
         \/ \E d \in Deliveries : Discard(d) \/ WorkerLost(d)
         \/ \E d, slot \in Deliveries : Redeliver(d, slot)
  PROVE  TypeOK'
<1> USE DEF TypeOK, control
<1>1. CASE LeaseExpires
  BY <1>1 DEF LeaseExpires, Row
<1>2. CASE BackoffElapses \/ RevokeAccess
  BY <1>2 DEF BackoffElapses, RevokeAccess
<1>3. ASSUME NEW d \in Deliveries, Discard(d)
      PROVE  TypeOK'
  BY <1>3, FreeType, BecomeType DEF Discard, Finish
<1>4. ASSUME NEW d \in Deliveries, WorkerLost(d)
      PROVE  TypeOK'
  <2>1. deliveries[d].task \in Nat /\ deliveries[d].retries \in Nat /\ 0 \in Nat
    BY DEF Delivery
  <2>2. Message(deliveries[d].task, deliveries[d].retries, 0) \in Delivery
    BY <2>1, MessageType
  <2>3. QED
    BY <1>4, <2>2, BecomeType DEF WorkerLost
<1>5. ASSUME NEW d \in Deliveries, NEW slot \in Deliveries, Redeliver(d, slot)
      PROVE  TypeOK'
  <2> DEFINE eta == IF deliveries[d].pc = "ready" THEN deliveries[d].token ELSE 0
  <2>1. deliveries[d].task \in Nat /\ deliveries[d].retries \in Nat /\ eta \in Nat
    BY DEF Delivery
  <2>2. Message(deliveries[d].task, deliveries[d].retries, eta) \in Delivery
    BY <2>1, MessageType
  <2>3. QED
    BY <1>5, <2>2, BecomeType DEF Redeliver
<1>6. QED
  BY <1>1, <1>2, <1>3, <1>4, <1>5

LEMMA StepType == TypeOK /\ [Next]_vars => TypeOK'
<1> SUFFICES ASSUME TypeOK, [Next]_vars PROVE TypeOK'
  OBVIOUS
<1>1. CASE Next
  BY <1>1, ClaimingType, WorkerType, RequestType, WorldType DEF Next, Working
<1>2. CASE UNCHANGED vars
  BY <1>2 DEF vars, TypeOK
<1>3. QED
  BY <1>1, <1>2

\* Every reachable state is well typed; in particular the attempts recorded in
\* the row never exceed max_attempts, although stale sessions write to it.
THEOREM TypeCorrect == Spec => []TypeOK
  BY InitType, StepType, PTL DEF Spec

-----------------------------------------------------------------------------
(* The fence.  Only a successful claim makes a delivery act for an attempt.  *)

OwnersKept ==
    \A d \in Deliveries : deliveries'[d].pc \in OwnerPoints =>
        /\ deliveries[d].pc \in OwnerPoints
        /\ deliveries'[d].token = deliveries[d].token

LEMMA OwnersKeptByMove ==
  ASSUME deliveries \in [Deliveries -> Delivery], NEW d \in Deliveries, NEW record,
         Become(d, record),
         record.pc \in OwnerPoints =>
           deliveries[d].pc \in OwnerPoints /\ record.token = deliveries[d].token
  PROVE  OwnersKept
  BY DEF Become, OwnersKept

\* A move to a point outside OwnerPoints, or from one owner point to another.
LEMMA OwnersKeptByPoint ==
  ASSUME deliveries \in [Deliveries -> Delivery], NEW d \in Deliveries,
         NEW point, NEW loaded, NEW e,
         point \in OwnerPoints => deliveries[d].pc \in OwnerPoints
  PROVE  /\ Finish(d) => OwnersKept
         /\ GoTo(d, point) => OwnersKept
         /\ GoWith(d, point) => OwnersKept
         /\ deliveries[d].pc \in OwnerPoints /\ Raise(d, e) => OwnersKept
<1>0. deliveries[d] \in Delivery
  OBVIOUS
<1>1. Free.pc \notin OwnerPoints
  BY DEF Free, OwnerPoints, HandlerPoints
<1>2. ASSUME NEW s
      PROVE  LET record == [deliveries[d] EXCEPT !.pc = point, !.snap = s]
             IN  record.pc = point /\ record.token = deliveries[d].token
  BY <1>0 DEF Delivery
<1>3. LET record == [deliveries[d] EXCEPT !.pc = "failing", !.exc = e]
      IN  record.pc = "failing" /\ record.token = deliveries[d].token
  BY <1>0 DEF Delivery
<1>4. Finish(d) => OwnersKept
  BY <1>1, OwnersKeptByMove DEF Finish
<1>5. GoTo(d, point) => OwnersKept
  BY <1>2, OwnersKeptByMove DEF GoTo
<1>6. GoWith(d, point) => OwnersKept
  BY <1>2, OwnersKeptByMove DEF GoWith
<1>7. deliveries[d].pc \in OwnerPoints /\ Raise(d, e) => OwnersKept
  BY <1>3, OwnersKeptByMove DEF Raise
<1>8. QED
  BY <1>4, <1>5, <1>6, <1>7

LEMMA OwnersKeptByMessage ==
  ASSUME deliveries \in [Deliveries -> Delivery], NEW d \in Deliveries,
         NEW task, NEW retries, NEW token, Become(d, Message(task, retries, token))
  PROVE  OwnersKept
<1>1. Message(task, retries, token).pc \notin OwnerPoints
  BY DEF Message, Free, OwnerPoints, HandlerPoints
<1>2. QED
  BY <1>1, OwnersKeptByMove

LEMMA OwnersUntouched ==
  ASSUME UNCHANGED deliveries
  PROVE  OwnersKept
  BY DEF OwnersKept

\* Every step that is not a successful claim keeps the owners.
LEMMA OwnersStep ==
  ASSUME TypeOK, Next, UNCHANGED claims
  PROVE  OwnersKept
<1> USE DEF TypeOK
<1>d. ASSUME NEW d \in Deliveries, Working(d) \/ Heartbeat(d) \/ Discard(d) \/ WorkerLost(d)
      PROVE  OwnersKept
  <2>0. \A point \in {"cancelWrite", "exhaustWrite", "claimWrite", "denied",
                      "denyWrite", "retrying"} : point \notin OwnerPoints
    BY DEF OwnerPoints, HandlerPoints
  <2>1. CASE ClaimRead(d)
    <3>1. ClaimPoint(row) \notin OwnerPoints
      BY <2>0 DEF ClaimPoint
    <3>2. QED
      BY <2>1, <3>1, OwnersKeptByPoint DEF ClaimRead
  <2>2. CASE CancelAtClaim(d) \/ ExhaustAtClaim(d) \/ DeniedWrite(d) \/ Discard(d)
    BY <2>2, <2>0, OwnersKeptByPoint
    DEF CancelAtClaim, ExhaustAtClaim, DeniedWrite, Discard
  <2>3. CASE ClaimUpdate(d)
    <3>1. ~Claimable(row)
      BY <2>3 DEF ClaimUpdate
    <3>2. QED
      BY <2>3, <3>1, <2>0, OwnersKeptByPoint DEF ClaimUpdate
  <2>4. CASE DeniedRead(d)
    BY <2>4, <2>0, OwnersKeptByPoint DEF DeniedRead
  <2>5. CASE FirstCheckpoint(d) \/ HandlerReturns(d)
    <3>1. deliveries[d].pc \in OwnerPoints
      BY <2>5 DEF FirstCheckpoint, HandlerReturns, OwnerPoints, HandlerPoints
    <3>2. QED
      BY <2>5, <3>1, OwnersKeptByPoint DEF FirstCheckpoint, HandlerReturns, Checkpoint
  <2>6. CASE HandlerRaises(d)
    <3>1. deliveries[d].pc \in OwnerPoints
      BY <2>6 DEF HandlerRaises, OwnerPoints, HandlerPoints
    <3>2. QED
      BY <2>6, <3>1, OwnersKeptByPoint DEF HandlerRaises
  <2>7. CASE Complete(d)
    <3>1. deliveries[d].pc \in OwnerPoints
      BY <2>7 DEF Complete, OwnerPoints
    <3>2. QED
      BY <2>7, <3>1, OwnersKeptByPoint DEF Complete
  <2>8. CASE FailRead(d)
    <3>1. deliveries[d].pc \in OwnerPoints
      BY <2>8 DEF FailRead, OwnerPoints
    <3>2. QED
      BY <2>8, <3>1, OwnersKeptByPoint DEF FailRead
  <2>9. CASE FailWrite(d)
    BY <2>9, <2>0, OwnersKeptByPoint DEF FailWrite
  <2>10. CASE Republish(d)
    BY <2>10, <2>0, OwnersKeptByPoint, OwnersKeptByMessage DEF Republish
  <2>11. CASE Heartbeat(d)
    BY <2>11, OwnersUntouched DEF Heartbeat
  <2>12. CASE WorkerLost(d)
    BY <2>12, OwnersKeptByMessage DEF WorkerLost
  <2>13. QED
    BY <1>d, <2>1, <2>2, <2>3, <2>4, <2>5, <2>6, <2>7, <2>8, <2>9, <2>10, <2>11, <2>12
    DEF Working, Claiming, Running, Failing
<1>r. ASSUME NEW d \in Deliveries, NEW slot \in Deliveries, Redeliver(d, slot)
      PROVE  OwnersKept
  BY <1>r, OwnersKeptByMessage DEF Redeliver
<1>q. ASSUME NEW q \in Requests,
             Dispatching(q) \/ DispatchRaises(q) \/ Committing(q) \/ Asking(q)
               \/ Recovering(q) \/ RequestLost(q)
      PROVE  OwnersKept
  <2>1. CASE Dispatch(q) \/ DispatchRaises(q)
    BY <2>1, OwnersKeptByMessage, OwnersUntouched DEF Dispatch, DispatchRaises, PublishTo
  <2>2. CASE UNCHANGED deliveries
    BY <2>2, OwnersUntouched
  <2>3. QED
    BY <1>q, <2>1, <2>2 DEF Dispatching, Committing, Asking, Recovering, RecordTask,
       UndeliveredRead, UndeliveredWrite, CancelRead, CancelWrite, Revoke, ResetRead,
       ResetWrite, RecoverRead, RecoverWrite, OrphanRead, RequestLost
<1>w. CASE LeaseExpires \/ BackoffElapses \/ RevokeAccess
  BY <1>w, OwnersUntouched DEF LeaseExpires, BackoffElapses, RevokeAccess
<1>z. QED
  BY <1>d, <1>r, <1>q, <1>w DEF Next

-----------------------------------------------------------------------------
(* The inductive invariant.  A request that is about to cancel saw the job   *)
(* before it was terminal, so its commit always changes the status: that is  *)
(* what keeps a cancellation from being recorded on a running row.  In the   *)
(* same way recovery and a retry always write the status.                    *)

WritesStatus(request) ==
    /\ request.pc = "cancelWrite" => request.snap.status \notin Terminal
    /\ request.pc = "recoverWrite" => request.snap.status = "running"
    /\ request.pc = "resetWrite" => request.snap.status \in Terminal

LoadedInTime == \A q \in Requests : WritesStatus(requests[q])

Core == TypeOK /\ TokenFence /\ LoadedInTime /\ CancellationSticks

\* A commit that changed only the status leaves everything the lease is made of.
LEMMA StatusSaved ==
  ASSUME NEW old \in Row, NEW status \in Statuses, row \in Row,
         row' = Save(old, [old EXCEPT !.status = status])
  PROVE  /\ row'.token = row.token /\ row'.attempts = row.attempts
         /\ row'.cancel = row.cancel /\ row'.result = row.result
         /\ row'.status \in {status, row.status}
<1>1. [old EXCEPT !.status = status] \in Row
  BY DEF Row
<1>2. QED
  BY <1>1, SaveColumns DEF Column, Row

\* So does one that clears the lease, but for the token.
LEMMA LeaseCleared ==
  ASSUME NEW old \in Row, NEW status \in Statuses, NEW next \in SUBSET Nat, row \in Row,
         row' = Save(old, [old EXCEPT !.token = 0, !.lease = "null",
                                      !.status = status, !.next = next])
  PROVE  /\ row'.token \in {0, row.token} /\ row'.attempts = row.attempts
         /\ row'.cancel = row.cancel /\ row'.result = row.result
         /\ row'.status \in {status, row.status}
<1> DEFINE new == [old EXCEPT !.token = 0, !.lease = "null",
                              !.status = status, !.next = next]
<1>1. new \in Row
  BY DEF Row
<1>2. /\ new.token = 0 /\ new.status = status /\ new.attempts = old.attempts
      /\ new.cancel = old.cancel /\ new.result = old.result
  BY DEF Row
<1> HIDE DEF new
<1>3. row' = Save(old, new)
  BY DEF new
<1>4. QED
  BY <1>1, <1>2, <1>3, SaveColumns DEF Column

\* fail_job and recover_stale_jobs in that form.
LEMMA FailWriteClears ==
  ASSUME TypeOK, NEW d \in Deliveries, FailWrite(d)
  PROVE  \E old \in Row, next \in SUBSET Nat,
            status \in {"cancelled", "failed", "retry_scheduled", "dead_letter"} :
           row' = Save(old, [old EXCEPT !.token = 0, !.lease = "null",
                                        !.status = status, !.next = next])
<1> DEFINE old == deliveries[d].snap
           status == FailStatus(old, deliveries[d].exc)
           next == IF status = "retry_scheduled" THEN {deliveries[d].token} ELSE old.next
<1>1. old \in Row /\ next \in SUBSET Nat
  BY DEF TypeOK, Delivery, Row
<1>2. status \in {"cancelled", "failed", "retry_scheduled", "dead_letter"}
  BY DEF FailStatus
<1>3. [old EXCEPT !.status = status, !.token = 0, !.lease = "null"]
        = [old EXCEPT !.token = 0, !.lease = "null", !.status = status, !.next = old.next]
  BY <1>1 DEF Row
<1>4. [[old EXCEPT !.status = status, !.token = 0, !.lease = "null"]
         EXCEPT !.next = {deliveries[d].token}]
        = [old EXCEPT !.token = 0, !.lease = "null", !.status = status,
                      !.next = {deliveries[d].token}]
  BY <1>1 DEF Row
<1>5. row' = Save(old, [old EXCEPT !.token = 0, !.lease = "null",
                                   !.status = status, !.next = next])
  BY <1>3, <1>4 DEF FailWrite
<1>6. QED
  BY <1>1, <1>2, <1>5

LEMMA RecoverWriteClears ==
  ASSUME TypeOK, NEW q \in Requests, RecoverWrite(q)
  PROVE  \E old \in Row, next \in SUBSET Nat,
            status \in {"cancelled", "failed", "retry_scheduled", "dead_letter"} :
           row' = Save(old, [old EXCEPT !.token = 0, !.lease = "null",
                                        !.status = status, !.next = next])
<1> DEFINE old == requests[q].snap
           clear == [old EXCEPT !.token = 0, !.lease = "null"]
<1>1. old \in Row /\ old.next \in SUBSET Nat /\ {0} \in SUBSET Nat
  BY DEF TypeOK, Request, Row
<1>2. \A status \in {"cancelled", "dead_letter"} :
        [clear EXCEPT !.status = status]
          = [old EXCEPT !.token = 0, !.lease = "null", !.status = status, !.next = old.next]
  BY <1>1 DEF Row
<1>3. [clear EXCEPT !.status = "retry_scheduled", !.next = {0}]
        = [old EXCEPT !.token = 0, !.lease = "null", !.status = "retry_scheduled",
                      !.next = {0}]
  BY <1>1 DEF Row
<1>4. \/ \E status \in {"cancelled", "dead_letter"} :
           row' = Save(old, [old EXCEPT !.token = 0, !.lease = "null",
                                        !.status = status, !.next = old.next])
      \/ row' = Save(old, [old EXCEPT !.token = 0, !.lease = "null",
                                      !.status = "retry_scheduled", !.next = {0}])
  BY <1>2, <1>3 DEF RecoverWrite
<1>5. QED
  BY <1>1, <1>4

\* A cancellation sets the flag and a status, and leaves the lease alone.
LEMMA CancelClears ==
  ASSUME TypeOK, NEW q \in Requests, CancelWrite(q)
  PROVE  /\ row'.token = row.token /\ row'.attempts = row.attempts
         /\ row'.cancel = TRUE /\ row'.result = row.result
         /\ LET old == requests[q].snap IN
              row'.status = Column(old.status, IF old.status = "running" THEN "cancelling"
                                               ELSE "cancelled", row.status)
<1> DEFINE old == requests[q].snap
           new == [old EXCEPT !.status = IF old.status = "running" THEN "cancelling"
                                         ELSE "cancelled"]
<1>1. old \in Row /\ row \in Row
  BY DEF TypeOK, Request
<1>2. new \in Row
  BY <1>1 DEF Row, Statuses, Terminal
<1>3. /\ new.token = old.token /\ new.attempts = old.attempts /\ new.result = old.result
      /\ new.status = IF old.status = "running" THEN "cancelling" ELSE "cancelled"
  BY <1>1 DEF Row
<1>4. row' = [Save(old, new) EXCEPT !.cancel = TRUE]
  BY DEF CancelWrite
<1>5. Save(old, new) \in Row
  BY <1>1, <1>2, SaveColumns
<1> HIDE DEF old, new
<1>6. /\ row'.token = Save(old, new).token /\ row'.attempts = Save(old, new).attempts
      /\ row'.result = Save(old, new).result /\ row'.status = Save(old, new).status
      /\ row'.cancel = TRUE
  BY <1>4, <1>5 DEF Row
<1>7. /\ row'.token = row.token /\ row'.attempts = row.attempts
      /\ row'.result = row.result
  BY <1>1, <1>2, <1>3, <1>6, SaveColumns DEF Column
<1>8. row'.status = Column(old.status, new.status, row.status)
  BY <1>1, <1>2, <1>6, SaveColumns
<1>9. QED
  BY <1>3, <1>6, <1>7, <1>8 DEF old

\* A retry resets every column it changed; the result survives.
LEMMA ResetClears ==
  ASSUME TypeOK, NEW q \in Requests, ResetWrite(q)
  PROVE  /\ row'.token \in {row.token, 0} /\ row'.attempts \in {row.attempts, 0}
         /\ row'.cancel \in {row.cancel, FALSE} /\ row'.result = row.result
         /\ row'.status \in {row.status, "queued"}
<1> DEFINE old == requests[q].snap
<1>1. old \in Row /\ row \in Row
  BY DEF TypeOK, Request
<1>2. Fresh(old) \in Row
  BY <1>1, NewRowType DEF Fresh, Row
<1>3. /\ Fresh(old).token = 0 /\ Fresh(old).attempts = 0
      /\ Fresh(old).cancel = FALSE /\ Fresh(old).result = old.result
      /\ Fresh(old).status = "queued"
  BY DEF Fresh, NewRow
<1>4. row' = Save(old, Fresh(old))
  BY DEF ResetWrite
<1> HIDE DEF old
<1>5. /\ row'.token \in {row.token, 0} /\ row'.attempts \in {row.attempts, 0}
      /\ row'.result = row.result /\ row'.status \in {row.status, "queued"}
  BY <1>1, <1>2, <1>3, <1>4, SaveColumns DEF Column
<1>6. row'.cancel = Column(old.cancel, Fresh(old).cancel, row.cancel)
  BY <1>1, <1>2, <1>4, SaveColumns
<1>7. row'.cancel \in {row.cancel, FALSE}
  BY <1>3, <1>6, Zenon DEF Column
<1>8. QED
  BY <1>5, <1>7

-----------------------------------------------------------------------------
(* Every step is a step of the lease contract, or none of its business.      *)

Untouched == /\ UNCHANGED <<claims, resets>>
             /\ row'.token = row.token /\ row'.attempts = row.attempts
             /\ row'.cancel = row.cancel /\ row'.result = row.result

LEMMA UntouchedStutters == Untouched => UNCHANGED Lease!vars
  BY DEF Untouched, Lease!vars

LEMMA DeliveryRefines ==
  ASSUME Core, NEW d \in Deliveries, Working(d) \/ Heartbeat(d)
  PROVE  Lease!Next \/ Untouched
<1> USE DEF Core, TypeOK, control
<1>0. deliveries[d].snap \in Row
  BY DEF Delivery
<1>s. {"cancelled", "failed", "retry_scheduled", "dead_letter"} \subseteq Statuses
  BY DEF Statuses, Terminal, Retryable
<1>1. CASE UNCHANGED <<row, claims, resets>>
  BY <1>1 DEF Untouched
<1>2. CASE CancelAtClaim(d) \/ ExhaustAtClaim(d) \/ DeniedWrite(d)
  BY <1>0, <1>2, <1>s, StatusSaved
  DEF CancelAtClaim, ExhaustAtClaim, DeniedWrite, Untouched
<1>3. CASE ClaimUpdate(d) /\ Claimable(row)
  <2>1. /\ claims' = claims + 1 /\ row'.token = claims + 1 /\ resets' = resets
        /\ row'.attempts = row.attempts + 1
        /\ row'.cancel = row.cancel /\ row'.result = row.result
    BY <1>3 DEF ClaimUpdate, Row
  <2>2. row.attempts < MaxAttempts /\ row.attempts \in Nat /\ ~row.cancel
    BY <1>3 DEF Claimable, Row
  <2>3. Lease!Claim
    BY <2>1, <2>2, AttemptsAssumption DEF Lease!Claim
  <2>4. QED
    BY <2>3 DEF Lease!Next
<1>4. CASE Complete(d) /\ row.status = "running" /\ Owns(d)
  <2>1. deliveries[d].token \in 1..claims /\ row.token = deliveries[d].token
    BY <1>4 DEF Complete, Owns, TokenFence, OwnerPoints
  <2>2. row.token = claims /\ row.token # 0 /\ ~row.cancel
    BY <1>4, <2>1 DEF TokenFence, CancellationSticks
  <2>3. /\ row'.result = row.token /\ row'.token = 0
        /\ row'.attempts = row.attempts /\ row'.cancel = row.cancel
        /\ UNCHANGED <<claims, resets>>
    BY <1>4, <2>1 DEF Complete, Row
  <2>4. Lease!Complete
    BY <2>2, <2>3 DEF Lease!Complete
  <2>5. QED
    BY <2>4 DEF Lease!Next
<1>5. CASE FailWrite(d)
  <2>1. /\ row'.token \in {0, row.token} /\ row'.attempts = row.attempts
        /\ row'.cancel = row.cancel /\ row'.result = row.result
    BY <1>5, <1>s, FailWriteClears, LeaseCleared
  <2>2. UNCHANGED <<claims, resets>>
    BY <1>5 DEF FailWrite
  <2>3. QED
    BY <2>1, <2>2 DEF Untouched, Lease!Next, Lease!Release
<1>6. CASE Heartbeat(d)
  BY <1>6 DEF Heartbeat, Untouched, Row
<1>7. QED
  BY <1>1, <1>2, <1>3, <1>4, <1>5, <1>6
  DEF Working, Claiming, Running, Failing, ClaimRead, ClaimUpdate, DeniedRead,
      FirstCheckpoint, HandlerRaises, HandlerReturns, Complete, FailRead, Republish

LEMMA RequestRefines ==
  ASSUME Core, NEW q \in Requests,
         Dispatching(q) \/ DispatchRaises(q) \/ Committing(q) \/ Asking(q)
           \/ Recovering(q) \/ RequestLost(q)
  PROVE  Lease!Next \/ Untouched
<1> USE DEF Core, TypeOK, control
<1>0. requests[q].snap \in Row
  BY DEF Request
<1>s. {"cancelled", "failed", "retry_scheduled", "dead_letter", "cancelling"} \subseteq Statuses
  BY DEF Statuses, Terminal, Retryable
<1>1. CASE UNCHANGED <<row, claims, resets>>
  BY <1>1 DEF Untouched
<1>2. CASE RecordTask(q)
  BY <1>2 DEF RecordTask, Untouched, Row
<1>3. CASE UndeliveredWrite(q)
  BY <1>0, <1>3, <1>s, StatusSaved DEF UndeliveredWrite, Untouched
<1>4. CASE RecoverWrite(q)
  <2>1. /\ row'.token \in {0, row.token} /\ row'.attempts = row.attempts
        /\ row'.cancel = row.cancel /\ row'.result = row.result
    BY <1>4, <1>s, RecoverWriteClears, LeaseCleared
  <2>2. UNCHANGED <<claims, resets>>
    BY <1>4 DEF RecoverWrite
  <2>3. QED
    BY <2>1, <2>2 DEF Untouched, Lease!Next, Lease!Release
<1>5. CASE CancelWrite(q)
  <2>1. /\ row'.token = row.token /\ row'.attempts = row.attempts
        /\ row'.cancel = TRUE /\ row'.result = row.result
    BY <1>5, CancelClears
  <2>2. UNCHANGED <<claims, resets>>
    BY <1>5 DEF CancelWrite
  <2>3. QED
    BY <2>1, <2>2 DEF Untouched, Lease!Next, Lease!Withdraw
<1>6. CASE ResetWrite(q)
  <2>1. /\ row'.token \in {row.token, 0} /\ row'.attempts \in {row.attempts, 0}
        /\ row'.cancel \in {row.cancel, FALSE} /\ row'.result = row.result
    BY <1>6, ResetClears
  <2>2. claims' = claims /\ resets' = resets + 1
    BY <1>6 DEF ResetWrite
  <2>3. MaxAttempts - row'.attempts \in {MaxAttempts - row.attempts, MaxAttempts}
    BY <2>1, AttemptsAssumption
  <2>4. QED
    BY <2>1, <2>2, <2>3 DEF Lease!Next, Lease!Reset
<1>7. QED
  BY <1>1, <1>2, <1>3, <1>4, <1>5, <1>6
  DEF Dispatching, Committing, Asking, Recovering, Dispatch, DispatchRaises,
      UndeliveredRead, CancelRead, Revoke, ResetRead, RecoverRead, OrphanRead, RequestLost,
      PublishTo

LEMMA WorldRefines ==
  ASSUME Core,
         \/ LeaseExpires \/ BackoffElapses \/ RevokeAccess
         \/ \E d \in Deliveries : Discard(d) \/ WorkerLost(d)
         \/ \E d, slot \in Deliveries : Redeliver(d, slot)
  PROVE  Untouched
  BY DEF Core, TypeOK, control, LeaseExpires, BackoffElapses, RevokeAccess, Discard,
         WorkerLost, Redeliver, Untouched, Row

LEMMA StepRefines == Core /\ [Next]_vars => [Lease!Next]_Lease!vars
<1> SUFFICES ASSUME Core, [Next]_vars PROVE Lease!Next \/ Untouched
  BY UntouchedStutters
<1>1. CASE Next
  BY <1>1, DeliveryRefines, RequestRefines, WorldRefines DEF Next
<1>2. CASE UNCHANGED vars
  BY <1>2 DEF vars, Untouched
<1>3. QED
  BY <1>1, <1>2

-----------------------------------------------------------------------------
(* The invariant is inductive.                                               *)

LEMMA InitCore == Init => Core
<1> SUFFICES ASSUME Init PROVE Core
  OBVIOUS
<1>1. TypeOK
  BY InitType
<1>2. TokenFence
  <2>1. \A d \in Deliveries : deliveries[d].pc \notin OwnerPoints
    BY DEF Init, Free, OwnerPoints, HandlerPoints
  <2>2. QED
    BY <2>1 DEF Init, NewRow, TokenFence
<1>3. LoadedInTime
  BY DEF Init, LoadedInTime, WritesStatus, Idle
<1>4. CancellationSticks
  BY DEF Init, NewRow, CancellationSticks
<1>5. QED
  BY <1>1, <1>2, <1>3, <1>4 DEF Core

LEMMA ClaimsOnlyByClaim ==
  ASSUME Next, claims' # claims
  PROVE  \E d \in Deliveries : ClaimUpdate(d) /\ Claimable(row)
  BY DEF Next, Working, Claiming, Running, Failing, Dispatching, Committing, Asking,
         Recovering, control, ClaimRead, CancelAtClaim, ExhaustAtClaim, ClaimUpdate,
         DeniedRead, DeniedWrite, FirstCheckpoint, HandlerRaises, HandlerReturns, Complete,
         FailRead, FailWrite, Republish, Heartbeat, Discard, WorkerLost, Redeliver,
         Dispatch, DispatchRaises, RecordTask, UndeliveredRead, UndeliveredWrite,
         CancelRead, CancelWrite, Revoke, ResetRead, ResetWrite, RecoverRead,
         RecoverWrite, OrphanRead, RequestLost, LeaseExpires, BackoffElapses, RevokeAccess

LEMMA FenceStep ==
  ASSUME Core, Next
  PROVE  TokenFence'
<1> USE DEF Core, TypeOK
<1>1. row'.token \in {0, claims'}
  <2>1. Lease!Next \/ Untouched
    BY DeliveryRefines, RequestRefines, WorldRefines DEF Next
  <2>2. QED
    BY <2>1 DEF TokenFence, Untouched, Lease!Next, Lease!Claim, Lease!Complete,
       Lease!Release, Lease!Withdraw, Lease!Reset
<1>2. CASE UNCHANGED claims
  <2>1. OwnersKept
    BY <1>2, OwnersStep
  <2>2. QED
    BY <1>1, <1>2, <2>1 DEF TokenFence, OwnersKept
<1>3. CASE claims' # claims
  <2>1. PICK d \in Deliveries : ClaimUpdate(d) /\ Claimable(row)
    BY <1>3, ClaimsOnlyByClaim
  <2>2. claims' = claims + 1
    BY <2>1 DEF ClaimUpdate
  <2>3. deliveries' = [deliveries EXCEPT ![d] =
                         [deliveries[d] EXCEPT !.pc = "started", !.snap = NewRow,
                                               !.token = claims + 1]]
    BY <2>1 DEF ClaimUpdate, Become
  <2>4. deliveries'[d].token = claims + 1
    BY <2>3 DEF Delivery
  <2>5. \A e \in Deliveries \ {d} : deliveries'[e] = deliveries[e]
    BY <2>3
  <2>6. \A e \in Deliveries \ {d} : deliveries[e].pc \in OwnerPoints =>
           deliveries[e].token \in 1..claims
    BY DEF TokenFence
  <2>7. \A e \in Deliveries : deliveries'[e].pc \in OwnerPoints =>
           deliveries'[e].token \in 1..claims'
    BY <2>2, <2>4, <2>5, <2>6
  <2>8. ASSUME NEW e \in Deliveries, NEW f \in Deliveries,
               {deliveries'[e].pc, deliveries'[f].pc} \subseteq OwnerPoints,
               deliveries'[e].token = deliveries'[f].token
        PROVE  e = f
    <3>1. CASE e # d /\ f # d
      BY <2>5, <2>8, <3>1 DEF TokenFence
    <3>2. CASE e = d \/ f = d
      BY <2>4, <2>5, <2>6, <2>8, <3>2
    <3>3. QED
      BY <3>1, <3>2
  <2>9. QED
    BY <1>1, <2>7, <2>8 DEF TokenFence
<1>4. QED
  BY <1>2, <1>3

LEMMA LoadedInTimeStep ==
  ASSUME TypeOK, LoadedInTime, Next
  PROVE  LoadedInTime'
<1> USE DEF TypeOK, LoadedInTime
<1>1. CASE UNCHANGED requests
  BY <1>1
<1>2. ASSUME NEW q \in Requests, NEW new,
             requests' = [requests EXCEPT ![q] = new],
             WritesStatus(new)
      PROVE  LoadedInTime'
  BY <1>2
<1>3. ASSUME NEW q \in Requests,
             Dispatching(q) \/ DispatchRaises(q) \/ Committing(q) \/ Asking(q)
               \/ Recovering(q) \/ RequestLost(q)
      PROVE  LoadedInTime'
  <2>1. WritesStatus(Idle) /\ WritesStatus([Idle EXCEPT !.pc = "record", !.task = published + 1])
    BY DEF Idle, WritesStatus
  <2>2. CASE Dispatch(q)
    BY <1>2, <2>1, <2>2 DEF Dispatch
  <2>3. CASE RecordTask(q) \/ UndeliveredWrite(q) \/ Revoke(q) \/ RequestLost(q)
    BY <1>2, <2>1, <2>3 DEF RecordTask, UndeliveredWrite, Revoke, RequestLost, Answer
  <2>4. CASE DispatchRaises(q)
    BY <1>2, <2>4 DEF DispatchRaises, RequestGoes, WritesStatus
  <2>5. CASE UndeliveredRead(q)
    BY <1>2, <2>1, <2>5 DEF UndeliveredRead, RequestGoes, Answer, WritesStatus
  <2>6. CASE CancelRead(q)
    BY <1>2, <2>6 DEF CancelRead, RequestGoes, WritesStatus
  <2>7. CASE CancelWrite(q)
    BY <1>2, <2>7 DEF CancelWrite, RequestGoes, WritesStatus
  <2>8. CASE ResetRead(q) \/ ResetWrite(q)
    BY <1>2, <2>8 DEF ResetRead, ResetWrite, RequestGoes, WritesStatus
  <2>9. CASE RecoverRead(q) \/ OrphanRead(q)
    BY <1>2, <2>9 DEF RecoverRead, OrphanRead, RequestGoes, WritesStatus
  <2>10. CASE RecoverWrite(q)
    BY <1>2, <2>1, <2>10 DEF RecoverWrite, RequestGoes, Answer, WritesStatus
  <2>11. QED
    BY <1>3, <2>2, <2>3, <2>4, <2>5, <2>6, <2>7, <2>8, <2>9, <2>10
    DEF Dispatching, Committing, Asking, Recovering
<1>4. QED
  BY <1>1, <1>3 DEF Next, Working, Claiming, Running, Failing, ClaimRead, CancelAtClaim,
     ExhaustAtClaim, ClaimUpdate, DeniedRead, DeniedWrite, FirstCheckpoint, HandlerRaises,
     HandlerReturns, Complete, FailRead, FailWrite, Republish, Heartbeat, Discard,
     WorkerLost, Redeliver, LeaseExpires, BackoffElapses, RevokeAccess

\* The commits of worker and recovery never write running or completed onto a
\* cancelled row, and a cancellation always rewrites the status it saw.
LEMMA CancellationStep ==
  ASSUME Core, Next
  PROVE  CancellationSticks'
<1> USE DEF Core, TypeOK, CancellationSticks
<1>s. {"cancelled", "failed", "retry_scheduled", "dead_letter", "cancelling"} \subseteq Statuses
  BY DEF Statuses, Terminal, Retryable
<1>1. CASE UNCHANGED row
  BY <1>1
<1>2. ASSUME row'.cancel = row.cancel,
             row'.status \in {"cancelled", "failed", "retry_scheduled", "dead_letter",
                              row.status}
      PROVE  CancellationSticks'
  BY <1>2
<1>3. ASSUME NEW d \in Deliveries, Working(d) \/ Heartbeat(d), row' # row
      PROVE  CancellationSticks'
  <2>0. deliveries[d].snap \in Row
    BY DEF Delivery
  <2>1. CASE CancelAtClaim(d) \/ ExhaustAtClaim(d) \/ DeniedWrite(d)
    BY <1>2, <1>s, <2>0, <2>1, StatusSaved DEF CancelAtClaim, ExhaustAtClaim, DeniedWrite
  <2>2. CASE ClaimUpdate(d)
    BY <1>3, <2>2 DEF ClaimUpdate, Claimable, Row
  <2>3. CASE Complete(d)
    BY <1>3, <2>3 DEF Complete, Row
  <2>4. CASE FailWrite(d)
    BY <1>2, <1>s, <2>4, FailWriteClears, LeaseCleared
  <2>5. CASE Heartbeat(d)
    BY <2>5 DEF Heartbeat, Row
  <2>6. QED
    BY <1>3, <2>1, <2>2, <2>3, <2>4, <2>5
    DEF Working, Claiming, Running, Failing, ClaimRead, DeniedRead, FirstCheckpoint,
        HandlerRaises, HandlerReturns, FailRead, Republish
<1>4. ASSUME NEW q \in Requests, Dispatching(q) \/ Committing(q), row' # row
      PROVE  CancellationSticks'
  <2>0. requests[q].snap \in Row
    BY DEF Request
  <2>1. CASE RecordTask(q)
    BY <2>1 DEF RecordTask, Row
  <2>2. CASE UndeliveredWrite(q)
    BY <1>2, <1>s, <2>0, <2>2, StatusSaved DEF UndeliveredWrite
  <2>3. CASE RecoverWrite(q)
    BY <1>2, <1>s, <2>3, RecoverWriteClears, LeaseCleared
  <2>4. CASE CancelWrite(q)
    <3> DEFINE old == requests[q].snap
               status == IF old.status = "running" THEN "cancelling" ELSE "cancelled"
    <3>1. old.status \notin Terminal
      BY <2>4 DEF CancelWrite, LoadedInTime, WritesStatus
    <3>2. status # old.status
      BY <3>1 DEF Terminal
    <3>3. row'.status = status
      BY <2>4, <3>2, CancelClears DEF Column
    <3>4. QED
      BY <3>3
  <2>5. CASE ResetWrite(q)
    <3>1. row'.status \in {row.status, "queued"} /\ row'.cancel \in {row.cancel, FALSE}
      BY <2>5, ResetClears
    <3>2. QED
      BY <3>1
  <2>6. QED
    BY <1>4, <2>1, <2>2, <2>3, <2>4, <2>5
    DEF Dispatching, Committing, Dispatch, UndeliveredRead, Revoke
<1>5. CASE LeaseExpires
  BY <1>5 DEF LeaseExpires, Row
<1>6. QED
  BY <1>1, <1>3, <1>4, <1>5
  DEF Next, DispatchRaises, Asking, CancelRead, ResetRead, Recovering, RecoverRead,
      OrphanRead, RequestLost, Discard, WorkerLost, Redeliver, BackoffElapses,
      RevokeAccess, control

LEMMA StepCore == Core /\ [Next]_vars => Core'
<1> SUFFICES ASSUME Core, [Next]_vars PROVE Core'
  OBVIOUS
<1>1. CASE Next
  BY <1>1, StepType, FenceStep, LoadedInTimeStep, CancellationStep DEF Core
<1>2. CASE UNCHANGED vars
  BY <1>2, StepType DEF Core, vars, TokenFence, LoadedInTime, CancellationSticks
<1>3. QED
  BY <1>1, <1>2

\* The invariant of every behaviour: types, the fence of lease tokens, the jobs a
\* pending cancellation was read from, and cancellations that stick.
THEOREM CoreInvariant == Spec => []Core
  BY InitCore, StepCore, PTL DEF Spec

-----------------------------------------------------------------------------
(* What follows from it.                                                     *)

\* claim_job, complete_job, fail_job: the row names at most the newest attempt and
\* no two workers act for one attempt, however many messages are duplicated.
THEOREM Fenced == Spec => []TokenFence
  BY CoreInvariant, PTL DEF Core

\* request_job_cancellation: no stale commit and no late worker brings a cancelled
\* job back to running or completes it.
THEOREM CancellationIsFinal == Spec => []CancellationSticks
  BY CoreInvariant, PTL DEF Core

\* Job delivery implements the lease contract.
THEOREM Refinement == Spec => ImplementsLease
<1>1. Init => Lease!Init
  BY AttemptsAssumption DEF Init, NewRow, Lease!Init
<1>2. QED
  BY <1>1, StepRefines, CoreInvariant, PTL DEF Spec, ImplementsLease, Lease!Spec

LEMMA AddRoom ==
  ASSUME NEW c \in Nat, NEW budget \in Nat, NEW max \in Nat, NEW left \in 0..max,
         NEW new \in {left, max}, c + left <= budget
  PROVE  c + new <= budget + max
  OBVIOUS

LEMMA BudgetStep ==
  ASSUME Core, AttemptBudget, [Next]_vars
  PROVE  AttemptBudget'
<1> DEFINE left == MaxAttempts - row.attempts
           budget == MaxAttempts * (resets + 1)
<1>1. /\ claims \in Nat /\ resets \in Nat /\ row.attempts \in 0..MaxAttempts
      /\ row'.attempts \in 0..MaxAttempts
  BY StepType DEF Core, TypeOK, Row
<1>2. claims + left <= budget
  BY DEF AttemptBudget
<1>3. MaxAttempts \in Nat /\ left \in 0..MaxAttempts /\ budget \in Nat
  BY <1>1, AttemptsAssumption
<1>4. MaxAttempts * ((resets + 1) + 1) = budget + MaxAttempts
  BY <1>1, <1>3
<1>5. CASE Lease!Claim
  <2>1. claims' = claims + 1 /\ left' = left - 1 /\ resets' = resets
    BY <1>5 DEF Lease!Claim
  <2>2. budget' = budget
    BY <2>1
  <2>3. claims' + left' <= budget'
    BY <1>1, <1>2, <1>3, <2>1, <2>2
  <2>4. QED
    BY <2>3 DEF AttemptBudget
<1>6. CASE Lease!Reset
  <2>1. claims' = claims /\ left' \in {left, MaxAttempts} /\ resets' = resets + 1
    BY <1>6 DEF Lease!Reset
  <2>2. budget' = budget + MaxAttempts
    BY <1>4, <2>1
  <2>3. claims + left' <= budget + MaxAttempts
    BY <1>1, <1>2, <1>3, <2>1, AddRoom
  <2>4. QED
    BY <2>1, <2>2, <2>3 DEF AttemptBudget
<1>7. CASE claims' = claims /\ left' = left /\ resets' = resets
  BY <1>2, <1>7 DEF AttemptBudget
<1>8. QED
  BY <1>5, <1>6, <1>7, StepRefines
  DEF Lease!Next, Lease!Complete, Lease!Release, Lease!Withdraw, Lease!vars

\* claim_job, reset_job_for_retry: at most max_attempts attempts per operator retry,
\* although stale sessions write to the same row.
THEOREM BudgetKept == Spec => []AttemptBudget
<1>1. Init => AttemptBudget
  BY AttemptsAssumption DEF Init, NewRow, AttemptBudget
<1>2. QED
  BY <1>1, BudgetStep, CoreInvariant, PTL DEF Spec

LEMMA ResultOnlyByComplete ==
  ASSUME Core, Next, row'.result # row.result
  PROVE  row.status = "running"
<1> USE DEF Core, TypeOK
<1>s. {"cancelled", "failed", "retry_scheduled", "dead_letter"} \subseteq Statuses
  BY DEF Statuses, Terminal, Retryable
<1>1. ASSUME NEW d \in Deliveries, Working(d) \/ Heartbeat(d)
      PROVE  row.status = "running"
  <2>0. deliveries[d].snap \in Row
    BY DEF Delivery
  <2>1. ~(CancelAtClaim(d) \/ ExhaustAtClaim(d) \/ DeniedWrite(d))
    BY <1>s, <2>0, StatusSaved DEF CancelAtClaim, ExhaustAtClaim, DeniedWrite
  <2>2. ~FailWrite(d)
    BY <1>s, FailWriteClears, LeaseCleared
  <2>3. ~ClaimUpdate(d)
    BY DEF ClaimUpdate, Row
  <2>4. QED
    BY <1>1, <2>1, <2>2, <2>3
    DEF Working, Claiming, Running, Failing, ClaimRead, DeniedRead, FirstCheckpoint,
        HandlerRaises, HandlerReturns, Complete, FailRead, Republish, Heartbeat, Row
<1>2. ASSUME NEW q \in Requests
      PROVE  ~(Dispatching(q) \/ Committing(q))
  <2>0. requests[q].snap \in Row
    BY DEF Request
  <2>1. ~UndeliveredWrite(q)
    BY <1>s, <2>0, StatusSaved DEF UndeliveredWrite
  <2>2. ~RecoverWrite(q)
    BY <1>s, RecoverWriteClears, LeaseCleared
  <2>3. ~ResetWrite(q)
    BY ResetClears
  <2>4. ~CancelWrite(q)
    BY CancelClears
  <2>5. QED
    BY <2>1, <2>2, <2>3, <2>4
    DEF Dispatching, Committing, Dispatch, RecordTask, UndeliveredRead, Revoke, Row
<1>3. QED
  BY <1>1, <1>2
  DEF Next, DispatchRaises, Asking, CancelRead, ResetRead, Recovering, RecoverRead,
      OrphanRead, RequestLost, Discard, WorkerLost, Redeliver, LeaseExpires,
      BackoffElapses, RevokeAccess, control, Row

\* complete_job: a result is stored only for the newest attempt, while it holds the
\* lease of a running job.
THEOREM ResultOfNewestHolder == Spec => ResultFromHolder
<1>1. ASSUME Core, [Next]_vars, row'.result # row.result
      PROVE  row.status = "running" /\ row.token = claims /\ row'.result = claims
  <2>1. Next
    BY <1>1 DEF vars
  <2>2. row.status = "running"
    BY <1>1, <2>1, ResultOnlyByComplete
  <2>3. Lease!Complete
    BY <1>1, StepRefines
    DEF Lease!Next, Lease!Claim, Lease!Release, Lease!Withdraw, Lease!Reset, Lease!vars
  <2>4. QED
    BY <2>2, <2>3 DEF Lease!Complete
<1>2. Core /\ [Next]_vars =>
        [row'.result # row.result =>
           row.status = "running" /\ row.token = claims /\ row'.result = claims]_vars
  BY <1>1
<1>3. QED
  BY <1>2, CoreInvariant, PTL DEF Spec, ResultFromHolder

-----------------------------------------------------------------------------
(* Leases of running jobs.                                                   *)

\* A commit that changed only the status keeps the lease.
LEMMA StatusKeepsLease ==
  ASSUME NEW old \in Row, NEW status \in Statuses \ {"running"}, row \in Row,
         row' = Save(old, [old EXCEPT !.status = status]), HasLease(row)
  PROVE  HasLease(row')
<1> DEFINE new == [old EXCEPT !.status = status]
<1>1. /\ new.status = status /\ new.token = old.token /\ new.lease = old.lease
  BY DEF Row
<1> HIDE DEF new
<1>2. /\ row'.status = Column(old.status, new.status, row.status)
      /\ row'.token = Column(old.token, new.token, row.token)
      /\ row'.lease = Column(old.lease, new.lease, row.lease)
  BY DEF Save, new
<1>3. row'.token = row.token /\ row'.lease = row.lease /\ row'.status \in {status, row.status}
  BY <1>1, <1>2 DEF Column
<1>4. QED
  BY <1>3 DEF HasLease

\* A commit that changes the status ends a run, whatever else it writes.
LEMMA StatusEndsRun ==
  ASSUME NEW old, NEW new, row' = Save(old, new), new.status # old.status,
         new.status # "running"
  PROVE  HasLease(row')
<1>1. row'.status = Column(old.status, new.status, row.status)
  BY DEF Save
<1>2. QED
  BY <1>1 DEF Column, HasLease

LEMMA LeaseOfWorker ==
  ASSUME Core, NEW d \in Deliveries, Working(d) \/ Heartbeat(d), HasLease(row),
         ~ SettlesAgain(d)
  PROVE  HasLease(row')
<1> DEFINE old == deliveries[d].snap
<1>0. row \in Row /\ old \in Row /\ claims \in Nat /\ deliveries[d] \in Delivery
  BY DEF Core, TypeOK, Delivery
<1>s. {"cancelled", "failed", "dead_letter"} \subseteq Statuses \ {"running"}
  BY DEF Statuses, Terminal
<1>1. CASE CancelAtClaim(d) \/ ExhaustAtClaim(d) \/ DeniedWrite(d)
  BY <1>0, <1>1, <1>s, StatusKeepsLease DEF CancelAtClaim, ExhaustAtClaim, DeniedWrite
<1>2. CASE ClaimUpdate(d)
  <2>1. CASE UNCHANGED row
    BY <2>1
  <2>2. CASE row' = [row EXCEPT !.status = "running", !.attempts = @ + 1,
                       !.token = claims + 1, !.lease = "live", !.next = {}]
    <3>1. row'.token = claims + 1 /\ row'.lease = "live"
      BY <1>0, <2>2 DEF Row
    <3>2. QED
      BY <1>0, <3>1 DEF HasLease
  <2>3. QED
    BY <1>2, <2>1, <2>2 DEF ClaimUpdate
<1>3. CASE Heartbeat(d)
  <2>1. row' = [row EXCEPT !.lease = "live"] /\ row.status = "running"
    BY <1>3 DEF Heartbeat
  <2>2. row'.lease = "live" /\ row'.token = row.token
    BY <1>0, <2>1 DEF Row
  <2>3. QED
    BY <2>1, <2>2 DEF HasLease
<1>4. CASE Complete(d)
  BY <1>0, <1>4 DEF Complete, HasLease, Row
<1>5. CASE FailWrite(d)
  <2> DEFINE status == FailStatus(old, deliveries[d].exc)
             new == [old EXCEPT !.status = status, !.token = 0, !.lease = "null"]
             due == [new EXCEPT !.next = {deliveries[d].token}]
  <2>1. row' = Save(old, due) \/ row' = Save(old, new)
    BY <1>5 DEF FailWrite
  <2>2. deliveries'[d].pc # "failWrite" /\ deliveries[d].pc = "failWrite"
    <3>1. deliveries \in [Deliveries -> Delivery]
      BY DEF Core, TypeOK
    <3>2. GoTo(d, "retrying") \/ Finish(d)
      BY <1>5 DEF FailWrite
    <3>3. GoTo(d, "retrying") => deliveries'[d].pc = "retrying"
      BY <1>0, <3>1 DEF GoTo, Become, Delivery
    <3>4. Finish(d) => deliveries'[d].pc = "free"
      BY <3>1 DEF Finish, Become, Free
    <3>5. QED
      BY <1>5, <3>2, <3>3, <3>4 DEF FailWrite
  <2>3. status # old.status
    BY <2>2 DEF SettlesAgain
  <2>4. status # "running"
    BY DEF FailStatus
  <2> HIDE DEF status
  <2>5. new.status = status /\ due.status = status
    BY <1>0 DEF Row
  <2> HIDE DEF new, due
  <2>6. QED
    BY <2>1, <2>3, <2>4, <2>5, StatusEndsRun
<1>6. QED
  BY <1>1, <1>2, <1>3, <1>4, <1>5
  DEF Working, Claiming, Running, Failing, ClaimRead, DeniedRead, FirstCheckpoint,
      HandlerRaises, HandlerReturns, FailRead, Republish

LEMMA LeaseOfRequest ==
  ASSUME Core, NEW q \in Requests, Dispatching(q) \/ Committing(q), HasLease(row)
  PROVE  HasLease(row')
<1> DEFINE old == requests[q].snap
<1>0. row \in Row /\ old \in Row /\ WritesStatus(requests[q])
  BY DEF Core, TypeOK, Request, LoadedInTime
<1>1. CASE UndeliveredWrite(q)
  <2>1. "failed" \in Statuses \ {"running"}
    BY DEF Statuses, Terminal
  <2>2. QED
    BY <1>0, <1>1, <2>1, StatusKeepsLease DEF UndeliveredWrite
<1>2. CASE RecoverWrite(q)
  <2> DEFINE clear == [old EXCEPT !.token = 0, !.lease = "null"]
             a == [clear EXCEPT !.status = "cancelled"]
             b == [clear EXCEPT !.status = "dead_letter"]
             e == [clear EXCEPT !.status = "retry_scheduled", !.next = {0}]
  <2>1. row' = Save(old, a) \/ row' = Save(old, b) \/ row' = Save(old, e)
    BY <1>2 DEF RecoverWrite
  <2>2. a.status = "cancelled" /\ b.status = "dead_letter" /\ e.status = "retry_scheduled"
    BY <1>0 DEF Row
  <2>3. old.status = "running"
    BY <1>0, <1>2 DEF RecoverWrite, WritesStatus
  <2> HIDE DEF a, b, e
  <2>4. QED
    BY <2>1, <2>2, <2>3, StatusEndsRun
<1>3. CASE ResetWrite(q)
  <2>1. row' = Save(old, Fresh(old)) /\ old.status \in Terminal
    BY <1>0, <1>3 DEF ResetWrite, WritesStatus
  <2>2. Fresh(old).status = "queued"
    BY DEF Fresh, NewRow
  <2>3. QED
    BY <2>1, <2>2, StatusEndsRun DEF Terminal
<1>4. CASE CancelWrite(q)
  <2> DEFINE status == IF old.status = "running" THEN "cancelling" ELSE "cancelled"
             new == [old EXCEPT !.status = status]
  <2>1. row' = [Save(old, new) EXCEPT !.cancel = TRUE]
    BY <1>4 DEF CancelWrite
  <2>2. old.status \notin Terminal
    BY <1>0, <1>4 DEF CancelWrite, WritesStatus
  <2>3. status # old.status /\ status # "running"
    BY <2>2 DEF Terminal
  <2>4. row'.status = row'.status /\ new.status = status
    BY <1>0 DEF Row
  <2> HIDE DEF new, status
  <2>5. row'.status = Column(old.status, new.status, row.status)
    BY <2>1 DEF Save
  <2>6. QED
    BY <2>3, <2>4, <2>5 DEF Column, HasLease
<1>5. CASE RecordTask(q)
  BY <1>0, <1>5 DEF RecordTask, HasLease, Row
<1>6. QED
  BY <1>1, <1>2, <1>3, <1>4, <1>5
  DEF Dispatching, Committing, Dispatch, UndeliveredRead, Revoke

\* recover_stale_jobs finds every abandoned job by its lease: no commit takes the
\* lease from a running job, but that of a fail_job which settles it again.
THEOREM LeaseKept == Spec => RunningKeepsLease
<1>1. ASSUME Core, [Next]_vars, HasLease(row), ~ \E d \in Deliveries : SettlesAgain(d)
      PROVE  HasLease(row')
  <2>1. CASE \E d \in Deliveries : Working(d) \/ Heartbeat(d)
    BY <1>1, <2>1, LeaseOfWorker
  <2>2. CASE \E q \in Requests : Dispatching(q) \/ Committing(q)
    BY <1>1, <2>2, LeaseOfRequest
  <2>3. CASE LeaseExpires
    BY <1>1, <2>3 DEF LeaseExpires, HasLease, Core, TypeOK, Row
  <2>4. CASE UNCHANGED row
    BY <1>1, <2>4
  <2>5. QED
    BY <1>1, <2>1, <2>2, <2>3, <2>4
    DEF vars, Next, DispatchRaises, Asking, CancelRead, ResetRead, Recovering, RecoverRead,
        OrphanRead, RequestLost, Discard, WorkerLost, Redeliver, BackoffElapses,
        RevokeAccess, control
<1>2. Core /\ [Next]_vars =>
        [HasLease(row) /\ ~(\E d \in Deliveries : SettlesAgain(d)) => HasLease(row')]_vars
  BY <1>1
<1>3. QED
  BY <1>2, CoreInvariant, PTL DEF Spec, RunningKeepsLease
=============================================================================
