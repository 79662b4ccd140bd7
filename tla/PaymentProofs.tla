--------------------------- MODULE PaymentProofs ---------------------------
(***************************************************************************)
(* The payment service for every group, topic, number of attempts and      *)
(* number of faults: it is a consumer of KafkaConsumer, whose theorems it  *)
(* inherits, and its writes survive errors, crashes and rebalances in the  *)
(* order the handler makes them.                                           *)
(***************************************************************************)
EXTENDS Payment, KafkaConsumerProofs

(* Every step of the service is a step of the consumer or leaves it alone. *)
LEMMA ConsumerStep == [PaymentNext]_paymentVars => [ConsumerNext]_consumerVars
<1> SUFFICES ASSUME [PaymentNext]_paymentVars PROVE [ConsumerNext]_consumerVars
  OBVIOUS
<1>1. CASE UNCHANGED paymentVars
  BY <1>1 DEF paymentVars
<1>2. ASSUME NEW m \in Messages, PublishOrderEvent(m) PROVE ConsumerNext
  <2>1. PartitionOf[m] \in Partitions
    BY KeyAssumption
  <2> QED BY <1>2, <2>1 DEF PublishOrderEvent, ConsumerNext
<1>3. ASSUME NEW c \in Members, HandleOrderCreated(c) PROVE [ConsumerNext]_consumerVars
  <2>1. CASE RejectMalformed(c) \/ IgnoreDuplicate(c) \/ MarkProcessed(c) \/ HandlerError(c)
    <3>1. HandlerReturns(c)
      BY <2>1 DEF RejectMalformed, IgnoreDuplicate, MarkProcessed, HandlerError, HandlerReturns
    <3> QED BY <3>1 DEF ConsumerNext
  <2>2. CASE DrawOutcome(c) \/ UpdateStatus(c) \/ Publish(c)
    BY <2>2 DEF DrawOutcome, UpdateStatus, Publish
  <2> QED BY <1>3, <2>1, <2>2 DEF HandleOrderCreated
<1>4. ASSUME NEW c \in Members, ServiceLoop(c) PROVE ConsumerNext
  BY <1>4 DEF ServiceLoop, ConsumerNext
<1>5. ASSUME NEW c \in Members, ServiceStart(c) \/ ServiceCancel(c) \/ CrashService(c)
      PROVE ConsumerNext
  BY <1>5 DEF ServiceStart, ServiceCancel, CrashService, ConsumerNext, Environment
<1>6. ASSUME NEW p \in Partitions, NEW c \in Members,
             ServiceAssign(p, c) \/ ServiceRebalance(p, c)
      PROVE ConsumerNext
  BY <1>6 DEF ServiceAssign, ServiceRebalance, ConsumerNext, Environment
<1> QED BY <1>1, <1>2, <1>3, <1>4, <1>5, <1>6 DEF PaymentNext

(* PaymentService under HandleOrderCreated implements Consumer.Consume with *)
(* any handler: what KafkaConsumer promises, the payment group keeps.       *)
THEOREM PaymentIsAConsumer == PaymentSpec => ConsumerSpec
<1>1. PaymentInit => ConsumerInit
  BY DEF PaymentInit
<1> QED BY <1>1, ConsumerStep, PTL DEF PaymentSpec, ConsumerSpec

(* No OrderCreatedEvent below the group's offset was passed over: it was    *)
(* handled, dead lettered, or its dead letter publish returned an error.    *)
THEOREM PaymentSkipsNothing == PaymentSpec => []CommittedAreSettled
BY PaymentIsAConsumer, NoSilentSkip, PTL

-----------------------------------------------------------------------------
(* The consumer's part of the invariant needs nothing of the service.      *)
LEMMA ConsumerPart ==
    ASSUME PaymentInv, [PaymentNext]_paymentVars
    PROVE  TypeOK' /\ HeldIsInLog' /\ [ConsumerNext]_consumerVars
BY ConsumerStep, TypeStep, HeldStep DEF PaymentInv, PaymentTypeOK

(* What is left to show of the service's part after a step.                *)
ServicePart ==
    /\ status \in [Orders -> Outcomes \union {"pending"}]
    /\ processed \subseteq Orders
    /\ published \in [Orders -> Seq(Outcomes)]
    /\ stage \in [Members -> {Idle, "update", "publish", "mark"}]
    /\ outcome \in [Members -> Outcomes \union {Idle}]
    /\ \A c \in Members : stage[c] # Idle => /\ pc[c] = "handling"
                                             /\ outcome[c] \in Outcomes
                                             /\ MessageOf(c) \in Orders
    /\ ProcessedIsAnnounced
    /\ WritesAreInOrder

(* The invariant: the part of the consumer and that of the service.        *)
LEMMA InvParts ==
    PaymentInv <=> TypeOK /\ HeldIsInLog /\ ServicePart /\ HandledAreProcessed
BY DEF PaymentInv, PaymentTypeOK, ServicePart

(* A step outside the calls in progress disturbs nothing.                  *)
LEMMA QuietService ==
    ASSUME PaymentInv, UNCHANGED serviceVars,
           \A c \in Members : stage[c] # Idle => /\ pc'[c] = "handling"
                                                 /\ MessageOf(c)' = MessageOf(c)
    PROVE  ServicePart'
BY InvParts DEF ServicePart, ProcessedIsAnnounced, WritesAreInOrder, serviceVars, Idle

(* A member in the middle of a call that a step leaves alone keeps its     *)
(* message.                                                                *)
LEMMA CallKeepsMessage ==
    ASSUME PaymentInv, [ConsumerNext]_consumerVars,
           NEW c \in Members, stage[c] # Idle, current'[c] = current[c]
    PROVE  MessageOf(c)' = MessageOf(c)
<1>1. pc[c] \in HoldsRecord
  BY DEF PaymentInv, PaymentTypeOK, HoldsRecord, Steps
<1> QED BY <1>1, MessageStays DEF PaymentInv, PaymentTypeOK

(* The steps of the loop, the broker and the environment: none of them     *)
(* moves a member whose call is in progress.                               *)
LEMMA AroundTheHandler ==
    ASSUME PaymentInv, [ConsumerNext]_consumerVars, UNCHANGED serviceVars,
           \/ \E p \in Partitions, m \in Messages : Produce(p, m)
           \/ \E c \in Members : LoopStep(c) \/ Start(c) \/ Cancel(c)
           \/ \E p \in Partitions, c \in Members : Assign(p, c)
    PROVE  ServicePart'
<1> SUFFICES ASSUME NEW d \in Members, stage[d] # Idle
             PROVE  pc'[d] = "handling" /\ current'[d] = current[d]
  BY QuietService, CallKeepsMessage
<1>1. pc[d] = "handling" /\ TypeOK
  BY DEF PaymentInv, PaymentTypeOK
<1>2. CASE \E p \in Partitions, m \in Messages : Produce(p, m)
  BY <1>1, <1>2 DEF Produce, memberVars
<1>3. CASE \E p \in Partitions, c \in Members : Assign(p, c)
  BY <1>1, <1>3 DEF Assign, memberVars
<1>4. ASSUME NEW c \in Members, LoopStep(c)
      PROVE pc'[d] = "handling" /\ current'[d] = current[d]
  <2>1. CASE Fetch(c) \/ FetchStops(c) \/ BackoffElapses(c) \/ SendToDLQ(c)
    BY <1>1, <2>1 DEF Fetch, FetchStops, BackoffElapses, SendToDLQ, TypeOK
  <2>2. CASE BackoffCancelled(c) \/ DLQCancelled(c) \/ DLQFails(c) \/ CommitSucceeds(c)
             \/ CommitFails(c)
    BY <1>1, <2>2 DEF BackoffCancelled, DLQCancelled, DLQFails, DLQUnsent, CommitSucceeds,
       CommitFails, NextRecord, TypeOK
  <2> QED BY <1>4, <2>1, <2>2 DEF LoopStep
<1>5. ASSUME NEW c \in Members, Start(c) \/ Cancel(c)
      PROVE pc'[d] = "handling" /\ current'[d] = current[d]
  BY <1>1, <1>5 DEF Start, Cancel, TypeOK
<1> QED BY <1>2, <1>3, <1>4, <1>5

(* What the call of a member may have written when its step is over: at    *)
(* most the one write its stage is about.                                  *)
WritesAtMostOne(c) ==
    LET o == MessageOf(c) IN
        \/ UNCHANGED <<status, published, processed>>
        \/ /\ stage[c] = "update"
           /\ status' = [status EXCEPT ![o] = outcome[c]]
           /\ UNCHANGED <<published, processed>>
        \/ /\ stage[c] = "publish"
           /\ published' = [published EXCEPT ![o] = Append(@, outcome[c])]
           /\ UNCHANGED <<status, processed>>
        \/ /\ stage[c] = "mark"
           /\ processed' = processed \union {o}
           /\ UNCHANGED <<status, published>>

StoredPart ==
    /\ status \in [Orders -> Outcomes \union {"pending"}]
    /\ processed \subseteq Orders
    /\ published \in [Orders -> Seq(Outcomes)]
    /\ ProcessedIsAnnounced

(* A write keeps the order of the writes, because the stage says which ones *)
(* came before it, and takes no earlier write of anybody back.              *)
LEMMA WriteStep ==
    ASSUME PaymentInv, NEW c \in Members, WritesAtMostOne(c)
    PROVE  /\ StoredPart'
           /\ \A o \in Orders : /\ status[o] # "pending" => status'[o] # "pending"
                                /\ published[o] # <<>> => published'[o] # <<>>
<1> USE DEF StoredPart, ProcessedIsAnnounced, Idle
<1>1. ServicePart
  BY InvParts
<1> DEFINE o == MessageOf(c)
<1>2. CASE UNCHANGED <<status, published, processed>>
  BY <1>1, <1>2 DEF ServicePart
<1>3. CASE stage[c] # Idle
  <2>1. o \in Orders /\ outcome[c] \in Outcomes /\ published[o] \in Seq(Outcomes)
    BY <1>1, <1>3 DEF ServicePart
  <2>2. Append(published[o], outcome[c]) \in Seq(Outcomes) \ {<<>>}
    BY <2>1
  <2>3. /\ stage[c] \in {"publish", "mark"} => status[o] # "pending"
        /\ stage[c] = "mark" => published[o] # <<>>
    BY <1>1 DEF ServicePart, WritesAreInOrder
  <2> HIDE DEF o
  <2>4. CASE stage[c] = "update" /\ status' = [status EXCEPT ![o] = outcome[c]]
             /\ UNCHANGED <<published, processed>>
    BY <1>1, <2>1, <2>4 DEF ServicePart, Outcomes
  <2>5. CASE stage[c] = "publish" /\ UNCHANGED <<status, processed>>
             /\ published' = [published EXCEPT ![o] = Append(@, outcome[c])]
    BY <1>1, <2>1, <2>2, <2>3, <2>5 DEF ServicePart
  <2>6. CASE stage[c] = "mark" /\ processed' = processed \union {o}
             /\ UNCHANGED <<status, published>>
    BY <1>1, <2>1, <2>3, <2>6 DEF ServicePart
  <2> QED BY <1>2, <2>4, <2>5, <2>6 DEF WritesAtMostOne, o
<1> QED BY <1>2, <1>3 DEF WritesAtMostOne

(* The steps of a call that change nothing of the consumer.                *)
LEMMA MidCall ==
    ASSUME PaymentInv, NEW c \in Members,
           DrawOutcome(c) \/ UpdateStatus(c) \/ Publish(c)
    PROVE  ServicePart'
<1>1. UNCHANGED consumerVars
  BY DEF DrawOutcome, UpdateStatus, Publish
<1>2. \A d \in Members : MessageOf(d)' = MessageOf(d) /\ pc'[d] = pc[d]
  BY <1>1 DEF MessageOf, consumerVars, brokerVars, memberVars
<1>3. ServicePart
  BY InvParts
<1>4. WritesAtMostOne(c)
  BY DEF DrawOutcome, UpdateStatus, Publish, WritesAtMostOne
<1>5. /\ StoredPart'
      /\ \A o \in Orders : /\ status[o] # "pending" => status'[o] # "pending"
                           /\ published[o] # <<>> => published'[o] # <<>>
  BY <1>4, WriteStep
<1>6. /\ stage' \in [Members -> {Idle, "update", "publish", "mark"}]
      /\ outcome' \in [Members -> Outcomes \union {Idle}]
      /\ \A d \in Members : stage'[d] # Idle =>
            pc[d] = "handling" /\ outcome'[d] \in Outcomes /\ MessageOf(d) \in Orders
  BY <1>3 DEF ServicePart, DrawOutcome, UpdateStatus, Publish, Idle
<1>7. ASSUME NEW d \in Members
      PROVE /\ stage'[d] \in {"publish", "mark"} => status'[MessageOf(d)] # "pending"
            /\ stage'[d] = "mark" => published'[MessageOf(d)] # <<>>
  <2>1. CASE d # c
    <3>1. stage'[d] = stage[d]
      BY <1>3, <2>1 DEF DrawOutcome, UpdateStatus, Publish, ServicePart
    <3> QED BY <1>3, <1>5, <3>1 DEF ServicePart, WritesAreInOrder, Idle
  <2>2. CASE d = c
    <3>1. CASE DrawOutcome(c)
      BY <1>3, <2>2, <3>1 DEF DrawOutcome, ServicePart
    <3>2. CASE UpdateStatus(c)
      BY <1>3, <2>2, <3>2 DEF UpdateStatus, ServicePart, Idle, Outcomes
    <3>3. CASE Publish(c)
      <4>1. /\ MessageOf(c) \in Orders /\ outcome[c] \in Outcomes
            /\ published[MessageOf(c)] \in Seq(Outcomes)
            /\ status[MessageOf(c)] # "pending"
        BY <1>3, <3>3 DEF Publish, ServicePart, WritesAreInOrder, Idle
      <4>2. Append(published[MessageOf(c)], outcome[c]) # <<>>
        BY <4>1
      <4> QED BY <1>3, <2>2, <3>3, <4>1, <4>2 DEF Publish, ServicePart
    <3> QED BY <3>1, <3>2, <3>3
  <2> QED BY <2>1, <2>2
<1> QED BY <1>2, <1>5, <1>6, <1>7 DEF ServicePart, StoredPart, WritesAreInOrder

(* The steps that end a call, which may have written before the error.     *)
LEMMA EndOfCall ==
    ASSUME PaymentInv, [ConsumerNext]_consumerVars, NEW c \in Members,
           MarkProcessed(c) \/ HandlerError(c) \/ CrashService(c)
    PROVE  ServicePart'
<1>1. ServicePart /\ TypeOK
  BY InvParts
<1>2. Return(c) /\ stage'[c] = Idle
  BY <1>1 DEF MarkProcessed, HandlerError, CrashService, Return, ServicePart
<1>3. WritesAtMostOne(c)
  BY DEF MarkProcessed, HandlerError, CrashService, WritesAtMostOne, InsertProcessed
<1>4. /\ StoredPart'
      /\ \A o \in Orders : /\ status[o] # "pending" => status'[o] # "pending"
                           /\ published[o] # <<>> => published'[o] # <<>>
  BY <1>3, WriteStep
<1>5. /\ stage' \in [Members -> {Idle, "update", "publish", "mark"}]
      /\ outcome' \in [Members -> Outcomes \union {Idle}]
  BY <1>1, <1>2 DEF Return, ServicePart
<1>6. ASSUME NEW d \in Members, stage'[d] # Idle
      PROVE /\ stage'[d] = stage[d] /\ outcome'[d] = outcome[d]
            /\ pc'[d] = pc[d] /\ MessageOf(d)' = MessageOf(d)
  <2>1. d # c /\ stage'[d] = stage[d] /\ outcome'[d] = outcome[d]
    BY <1>1, <1>2, <1>6 DEF Return, ServicePart
  <2>2. pc'[d] = pc[d] /\ current'[d] = current[d]
    BY <1>1, <2>1 DEF MarkProcessed, HandlerError, CrashService, HandlerSucceeds,
       HandlerFails, Crash, TypeOK
  <2> QED BY <1>6, <2>1, <2>2, CallKeepsMessage
<1>7. ASSUME NEW d \in Members, stage'[d] # Idle
      PROVE /\ pc'[d] = "handling" /\ outcome'[d] \in Outcomes
            /\ MessageOf(d)' \in Orders
            /\ stage'[d] \in {"publish", "mark"} => status'[MessageOf(d)'] # "pending"
            /\ stage'[d] = "mark" => published'[MessageOf(d)'] # <<>>
  <2>1. MessageOf(d) \in Orders /\ pc[d] = "handling" /\ outcome[d] \in Outcomes
    BY <1>1, <1>6, <1>7 DEF ServicePart
  <2> QED BY <1>1, <1>4, <1>6, <1>7, <2>1 DEF ServicePart, WritesAreInOrder
<1>8. ProcessedIsAnnounced' /\ WritesAreInOrder'
  BY <1>4, <1>7 DEF StoredPart, WritesAreInOrder, Idle
<1> QED BY <1>4, <1>5, <1>7, <1>8 DEF ServicePart, StoredPart

(* A record is handled by IgnoreDuplicate, which found its event in         *)
(* processed_messages, or by MarkProcessed, which has just inserted it.     *)
LEMMA HandledStep ==
    ASSUME PaymentInv, [PaymentNext]_paymentVars
    PROVE  HandledAreProcessed'
<1>1. TypeOK /\ HandledAreProcessed /\ [ConsumerNext]_consumerVars /\ TypeOK'
  BY ConsumerPart, InvParts
<1>2. ASSUME NEW r \in handled
      PROVE /\ r[2] < Len(log'[r[1]])
            /\ log'[r[1]][r[2] + 1] = log[r[1]][r[2] + 1]
  <2>1. r[1] \in Partitions /\ r[2] \in Nat /\ r[2] < Len(log[r[1]])
    BY <1>1 DEF TypeOK, Records, HandledAreProcessed
  <2>2. /\ Len(log[r[1]]) \in Nat /\ Len(log'[r[1]]) \in Nat
        /\ Len(log'[r[1]]) >= Len(log[r[1]])
        /\ \A i \in 1 .. Len(log[r[1]]) : log'[r[1]][i] = log[r[1]][i]
    <3>1. log'[r[1]] \in Seq(Messages)
      BY <1>1, <2>1 DEF TypeOK
    <3>2. Len(log'[r[1]]) \in Nat
      BY <3>1
    <3>3. /\ Len(log[r[1]]) \in Nat
          /\ Len(log'[r[1]]) >= Len(log[r[1]])
          /\ \A i \in 1 .. Len(log[r[1]]) : log'[r[1]][i] = log[r[1]][i]
      BY <1>1, <2>1, LogGrows
    <3> QED BY <3>2, <3>3
  <2>3. r[2] + 1 \in 1 .. Len(log[r[1]])
    BY <2>1, <2>2
  <2> QED BY <2>1, <2>2, <2>3
<1>3. processed \subseteq processed'
  BY DEF PaymentNext, PublishOrderEvent, HandleOrderCreated, RejectMalformed, IgnoreDuplicate,
     DrawOutcome, UpdateStatus, Publish, MarkProcessed, HandlerError, InsertProcessed,
     ServiceLoop, ServiceStart, ServiceCancel, CrashService, ServiceAssign,
     ServiceRebalance, paymentVars, serviceVars
<1>4. CASE UNCHANGED handled
  BY <1>1, <1>2, <1>3, <1>4 DEF HandledAreProcessed
<1>5. ASSUME NEW c \in Members, IgnoreDuplicate(c) \/ MarkProcessed(c)
      PROVE HandledAreProcessed'
  <2>1. /\ handled' = handled \union {current[c]} /\ log' = log /\ pc[c] = "handling"
    BY <1>5 DEF IgnoreDuplicate, MarkProcessed, HandlerSucceeds, brokerVars
  <2>2. current[c][2] < Len(log[current[c][1]])
    BY <2>1, InvParts DEF HeldIsInLog, HoldsRecord, Steps
  <2>3. log[current[c][1]][current[c][2] + 1] \in processed'
    BY <1>5 DEF IgnoreDuplicate, MarkProcessed, IsProcessed, InsertProcessed, MessageOf,
       serviceVars
  <2> QED BY <1>1, <1>3, <2>1, <2>2, <2>3 DEF HandledAreProcessed
<1>6. UNCHANGED handled \/ \E c \in Members : IgnoreDuplicate(c) \/ MarkProcessed(c)
  <2>1. ASSUME NEW c \in Members, HandlerFails(c) \/ LoopStep(c) \/ Start(c) \/ Cancel(c) \/ Crash(c)
        PROVE UNCHANGED handled
    BY <2>1 DEF HandlerFails, LoopStep, Fetch, FetchStops, BackoffElapses, BackoffCancelled,
       SendToDLQ, DLQCancelled, DLQFails, DLQUnsent, CommitSucceeds, CommitFails, Start,
       Cancel, Crash
  <2>2. ASSUME NEW p \in Partitions, NEW m \in Messages, Produce(p, m) PROVE UNCHANGED handled
    BY <2>2 DEF Produce
  <2>3. ASSUME NEW p \in Partitions, NEW c \in Members, Assign(p, c) PROVE UNCHANGED handled
    BY <2>3 DEF Assign
  <2>4. ASSUME NEW c \in Members, DrawOutcome(c) \/ UpdateStatus(c) \/ Publish(c)
        PROVE UNCHANGED handled
    BY <2>4 DEF DrawOutcome, UpdateStatus, Publish, consumerVars
  <2>5. CASE UNCHANGED paymentVars
    BY <2>5 DEF paymentVars, consumerVars
  <2> QED BY <2>1, <2>2, <2>3, <2>4, <2>5, KeyAssumption
          DEF PaymentNext, PublishOrderEvent, HandleOrderCreated, RejectMalformed,
              HandlerError, ServiceLoop, ServiceStart, ServiceCancel, CrashService,
              ServiceAssign, ServiceRebalance, AssignOrphan, Rebalance
<1> QED BY <1>4, <1>5, <1>6

-----------------------------------------------------------------------------
(* Nothing has been decided, announced or recorded at first.               *)
LEMMA PaymentInitInv == PaymentInit => PaymentInv
<1> SUFFICES ASSUME PaymentInit PROVE PaymentInv
  OBVIOUS
<1>1. TypeOK
  BY InitInv DEF PaymentInit, ConsumerInv
<1>2. HeldIsInLog
  BY DEF PaymentInit, ConsumerInit, HeldIsInLog, HoldsRecord, Steps
<1>3. ServicePart
  BY DEF PaymentInit, ServicePart, ProcessedIsAnnounced, WritesAreInOrder, Idle, Outcomes
<1>4. HandledAreProcessed
  BY DEF PaymentInit, ConsumerInit, HandledAreProcessed
<1> QED BY <1>1, <1>2, <1>3, <1>4, InvParts

(* The invariant is inductive.                                             *)
LEMMA PaymentInvStep == PaymentInv /\ [PaymentNext]_paymentVars => PaymentInv'
<1> SUFFICES ASSUME PaymentInv, [PaymentNext]_paymentVars PROVE ServicePart'
  <2>1. ASSUME PaymentInv, [PaymentNext]_paymentVars PROVE TypeOK' /\ HeldIsInLog'
    BY <2>1, ConsumerPart
  <2>2. ASSUME PaymentInv, [PaymentNext]_paymentVars PROVE HandledAreProcessed'
    BY <2>2, HandledStep
  <2>3. ServicePart' /\ TypeOK' /\ HeldIsInLog' /\ HandledAreProcessed' => PaymentInv'
    BY DEF PaymentInv, PaymentTypeOK, ServicePart
  <2> QED BY <2>1, <2>2, <2>3
<1>0. [ConsumerNext]_consumerVars /\ PaymentTypeOK
  BY ConsumerStep DEF PaymentInv
<1>1. CASE UNCHANGED paymentVars
  BY <1>1, InvParts DEF ServicePart, ProcessedIsAnnounced, WritesAreInOrder, MessageOf,
     paymentVars, serviceVars, consumerVars, brokerVars, memberVars
<1>2. ASSUME NEW m \in Messages, PublishOrderEvent(m) PROVE ServicePart'
  <2>1. PartitionOf[m] \in Partitions
    BY KeyAssumption
  <2> QED BY <1>0, <1>2, <2>1, AroundTheHandler DEF PublishOrderEvent
<1>3. ASSUME NEW c \in Members, RejectMalformed(c) \/ IgnoreDuplicate(c) PROVE ServicePart'
  <2>1. stage[c] = Idle
    BY <1>0, <1>3, MessagesAssumption DEF RejectMalformed, IgnoreDuplicate, PaymentTypeOK
  <2>2. \A d \in Members : d # c => pc'[d] = pc[d] /\ current'[d] = current[d]
    BY <1>0, <1>3 DEF RejectMalformed, IgnoreDuplicate, HandlerFails, HandlerSucceeds,
       PaymentTypeOK, TypeOK
  <2>3. UNCHANGED serviceVars
    BY <1>3 DEF RejectMalformed, IgnoreDuplicate
  <2> QED BY <1>0, <2>1, <2>2, <2>3, QuietService, CallKeepsMessage DEF PaymentTypeOK
<1>4. ASSUME NEW c \in Members, DrawOutcome(c) \/ UpdateStatus(c) \/ Publish(c)
      PROVE ServicePart'
  BY <1>4, MidCall
<1>5. ASSUME NEW c \in Members, MarkProcessed(c) \/ HandlerError(c) \/ CrashService(c)
      PROVE ServicePart'
  BY <1>0, <1>5, EndOfCall
<1>6. ASSUME NEW c \in Members, ServiceLoop(c) \/ ServiceStart(c) \/ ServiceCancel(c)
      PROVE ServicePart'
  BY <1>0, <1>6, AroundTheHandler DEF ServiceLoop, ServiceStart, ServiceCancel
<1>7. ASSUME NEW p \in Partitions, NEW c \in Members,
             ServiceAssign(p, c) \/ ServiceRebalance(p, c)
      PROVE ServicePart'
  BY <1>0, <1>7, AroundTheHandler
     DEF ServiceAssign, ServiceRebalance, AssignOrphan, Rebalance
<1> QED BY <1>1, <1>2, <1>3, <1>4, <1>5, <1>6, <1>7 DEF PaymentNext, HandleOrderCreated

(* The inductive invariant of the payment group holds in every reachable   *)
(* state.                                                                  *)
THEOREM PaymentInvariant == PaymentSpec => []PaymentInv
BY PaymentInitInv, PaymentInvStep, PTL DEF PaymentSpec

(* An event recorded as processed has been announced, and an outcome is    *)
(* announced only once the order carries a decision, whatever failed in    *)
(* between and however many members handled it.                            *)
THEOREM ProcessedWasAnnounced == PaymentSpec => []ProcessedIsAnnounced
<1>1. PaymentInv => ProcessedIsAnnounced
  BY DEF PaymentInv
<1> QED BY <1>1, PaymentInvariant, PTL

(* What was consumed has been recorded as processed, unless it was dead     *)
(* lettered: the loop never commits past an order nobody decided.           *)
THEOREM ConsumedWasProcessed == PaymentSpec => []ConsumedOrdersAreProcessed
<1>1. PaymentInv /\ CommittedAreSettled => ConsumedOrdersAreProcessed
  BY DEF PaymentInv, HandledAreProcessed, CommittedAreSettled, SettledBelow, Settled,
     ConsumedOrdersAreProcessed
<1> QED BY <1>1, PaymentInvariant, PaymentSkipsNothing, PTL

-----------------------------------------------------------------------------
(* A call that is not over after a step is still about the same event.     *)
LEMMA CallGoesOn ==
    ASSUME PaymentInv, [PaymentNext]_paymentVars,
           NEW d \in Members, stage[d] # Idle, stage'[d] # Idle
    PROVE  MessageOf(d)' = MessageOf(d)
<1>0. ServicePart /\ TypeOK /\ ServicePart' /\ [ConsumerNext]_consumerVars
  <2>1. ServicePart'
    BY PaymentInvStep DEF PaymentInv, PaymentTypeOK, ServicePart
  <2> QED BY <2>1, InvParts, ConsumerPart
<1>1. pc[d] = "handling" /\ pc'[d] = "handling"
  BY <1>0 DEF ServicePart
<1>2. current'[d] = current[d]
  <2> USE DEF TypeOK, brokerVars, memberVars
  <2>1. CASE UNCHANGED consumerVars
    BY <2>1 DEF consumerVars
  <2>2. ASSUME NEW p \in Partitions, NEW m \in Messages, Produce(p, m)
        PROVE current'[d] = current[d]
    BY <2>2 DEF Produce
  <2>3. CASE Environment
    BY <1>0, <1>1, <2>3 DEF Environment, AssignOrphan, Rebalance, Assign, Start, Cancel, Crash
  <2>4. ASSUME NEW c \in Members, HandlerReturns(c) PROVE current'[d] = current[d]
    BY <2>4 DEF HandlerReturns, HandlerSucceeds, HandlerFails
  <2>5. ASSUME NEW c \in Members, LoopStep(c) PROVE current'[d] = current[d]
    <3>1. CASE Fetch(c) \/ FetchStops(c) \/ BackoffElapses(c) \/ SendToDLQ(c)
      BY <1>0, <1>1, <3>1 DEF Fetch, FetchStops, BackoffElapses, SendToDLQ
    <3>2. CASE BackoffCancelled(c) \/ DLQCancelled(c) \/ DLQFails(c) \/ CommitSucceeds(c)
               \/ CommitFails(c)
      BY <1>0, <1>1, <3>2 DEF BackoffCancelled, DLQCancelled, DLQFails, DLQUnsent,
         CommitSucceeds, CommitFails, NextRecord
    <3> QED BY <2>5, <3>1, <3>2 DEF LoopStep
  <2> QED BY <1>0, <2>1, <2>2, <2>3, <2>4, <2>5 DEF ConsumerNext
<1> QED BY <1>0, <1>2, CallKeepsMessage

(* A processed order with no call in progress is out of everybody's reach: *)
(* only DrawOutcome starts a call, and it looks the event up first.        *)
LEMMA FinalStep ==
    ASSUME PaymentInv, [PaymentNext]_paymentVars,
           NEW o \in Orders, o \in processed, Handling(o) = {}
    PROVE  Handling(o)' = {} /\ status'[o] = status[o] /\ published'[o] = published[o]
<1>1. /\ ServicePart /\ TypeOK /\ TypeOK' /\ ServicePart'
      /\ [ConsumerNext]_consumerVars
  <2>1. ServicePart'
    BY PaymentInvStep DEF PaymentInv, PaymentTypeOK, ServicePart
  <2> QED BY <2>1, InvParts, ConsumerPart
<1>2. \A c \in Members : stage[c] # Idle => MessageOf(c) # o
  BY DEF Handling
<1>3. ASSUME NEW c \in Members, WritesAtMostOne(c)
      PROVE status'[o] = status[o] /\ published'[o] = published[o]
  BY <1>1, <1>2, <1>3 DEF WritesAtMostOne, ServicePart, Idle
<1>4. ASSUME NEW d \in Members, stage'[d] # Idle, stage[d] = Idle PROVE DrawOutcome(d)
  BY <1>1, <1>4 DEF PaymentNext, PublishOrderEvent, HandleOrderCreated, RejectMalformed,
     IgnoreDuplicate, DrawOutcome, UpdateStatus, Publish, MarkProcessed, HandlerError, Return,
     ServiceLoop, ServiceStart, ServiceCancel, CrashService, ServiceAssign, ServiceRebalance,
     ServicePart, paymentVars, serviceVars, Idle
<1>5. ASSUME NEW d \in Members, stage'[d] # Idle PROVE MessageOf(d)' # o
  <2>1. CASE stage[d] = Idle
    <3>1. DrawOutcome(d)
      BY <1>4, <1>5, <2>1
    <3>2. MessageOf(d)' = MessageOf(d) /\ MessageOf(d) \notin processed
      BY <3>1 DEF DrawOutcome, IsProcessed, MessageOf, consumerVars, brokerVars, memberVars
    <3> QED BY <3>2
  <2>2. CASE stage[d] # Idle
    BY <1>2, <1>5, <2>2, CallGoesOn
  <2> QED BY <2>1, <2>2
<1>6. UNCHANGED <<status, published>> \/ \E c \in Members : WritesAtMostOne(c)
  BY DEF PaymentNext, PublishOrderEvent, HandleOrderCreated, RejectMalformed,
     IgnoreDuplicate, DrawOutcome, UpdateStatus, Publish, MarkProcessed, HandlerError,
     InsertProcessed, ServiceLoop, ServiceStart, ServiceCancel, CrashService, ServiceAssign,
     ServiceRebalance, paymentVars, serviceVars, WritesAtMostOne
<1> QED BY <1>3, <1>5, <1>6 DEF Handling

(* A processed order is never touched again, whatever is redelivered,      *)
(* published twice or moved to another member.                             *)
THEOREM ProcessedStaysFinal == PaymentSpec => ProcessedIsFinal
<1> DEFINE Final == \A o \in Orders :
               o \in processed /\ Handling(o) = {} =>
                   /\ Handling(o)' = {}
                   /\ status'[o] = status[o]
                   /\ published'[o] = published[o]
<1>1. PaymentInv /\ [PaymentNext]_paymentVars => [Final]_paymentVars
  BY FinalStep
<1> QED BY <1>1, PaymentInvariant, PTL DEF PaymentSpec, ProcessedIsFinal

-----------------------------------------------------------------------------
(* A group of one member.  Retries still draw again, so an order may be     *)
(* announced twice; but nobody else writes between two writes of a call.    *)

(* The steps that may change the service's variables.                       *)
LEMMA WhoWrites ==
    ASSUME [PaymentNext]_paymentVars
    PROVE  \/ UNCHANGED serviceVars
           \/ \E c \in Members : DrawOutcome(c) \/ UpdateStatus(c) \/ Publish(c)
           \/ \E c \in Members : MarkProcessed(c) \/ HandlerError(c) \/ CrashService(c)
BY DEF PaymentNext, PublishOrderEvent, HandleOrderCreated, RejectMalformed, IgnoreDuplicate,
   ServiceLoop, ServiceStart, ServiceCancel, ServiceAssign, ServiceRebalance, paymentVars

(* The outcome appended last is the last one.                               *)
LEMMA LastOfAppend ==
    ASSUME NEW s \in Seq(Outcomes), NEW e \in Outcomes
    PROVE  Last(Append(s, e)) = e
BY DEF Last

(* A step writes for an order of its own call only, which is not processed, *)
(* or records that call's own outcome as the last word.                     *)
LEMMA DecisionsStep ==
    ASSUME OneMember, PaymentInv, DecisionsAgree, [PaymentNext]_paymentVars
    PROVE  DecisionsAgree'
<1> USE DEF Idle
<1>1. ServicePart /\ processed \subseteq Orders
  BY InvParts DEF ServicePart
<1>2. \A o \in processed :
        /\ Handling(o)' = {}
        /\ status'[o] = status[o] /\ published'[o] = published[o]
  BY <1>1, FinalStep DEF DecisionsAgree
<1>3. \A o \in processed : Handling(o)' = {} /\ status'[o] = Last(published'[o])
  BY <1>2 DEF DecisionsAgree
<1>4. CASE UNCHANGED serviceVars
  <2>1. \A d \in Members : stage'[d] # Idle => MessageOf(d)' = MessageOf(d)
    BY <1>4, CallGoesOn DEF serviceVars
  <2> QED BY <1>3, <1>4, <2>1 DEF DecisionsAgree, serviceVars
<1>5. ASSUME NEW c \in Members, DrawOutcome(c) \/ UpdateStatus(c) \/ Publish(c)
      PROVE DecisionsAgree'
  <2>1. processed' = processed /\ MessageOf(c)' = MessageOf(c)
    BY <1>5 DEF DrawOutcome, UpdateStatus, Publish, MessageOf, consumerVars, brokerVars,
       memberVars
  <2>2. stage'[c] \in {"publish", "mark"} => status'[MessageOf(c)] = outcome'[c]
    BY <1>1, <1>5 DEF DrawOutcome, UpdateStatus, Publish, ServicePart, DecisionsAgree
  <2>3. stage'[c] = "mark" => Last(published'[MessageOf(c)]) = outcome'[c]
    <3>1. CASE DrawOutcome(c) \/ UpdateStatus(c)
      BY <1>1, <3>1 DEF DrawOutcome, UpdateStatus, ServicePart
    <3>2. CASE Publish(c)
      <4>1. /\ MessageOf(c) \in Orders /\ outcome[c] \in Outcomes
            /\ published[MessageOf(c)] \in Seq(Outcomes)
        BY <1>1, <3>2 DEF Publish, ServicePart
      <4>2. published'[MessageOf(c)] = Append(published[MessageOf(c)], outcome[c])
        BY <1>1, <3>2, <4>1 DEF Publish, ServicePart
      <4> QED BY <3>2, <4>1, <4>2, LastOfAppend DEF Publish
    <3> QED BY <1>5, <3>1, <3>2
  <2> QED BY <1>3, <2>1, <2>2, <2>3 DEF DecisionsAgree, OneMember
<1>6. ASSUME NEW c \in Members, MarkProcessed(c) \/ HandlerError(c) \/ CrashService(c)
      PROVE DecisionsAgree'
  <2>1. \A d \in Members : stage'[d] = Idle
    BY <1>1, <1>6 DEF MarkProcessed, HandlerError, CrashService, Return, ServicePart, OneMember
  <2>2. ASSUME NEW o \in processed', o \notin processed
        PROVE status'[o] = Last(published'[o])
    <3>1. o = MessageOf(c) /\ stage[c] = "mark" /\ UNCHANGED <<status, published>>
      BY <1>6, <2>2 DEF MarkProcessed, HandlerError, CrashService, InsertProcessed
    <3> QED BY <3>1 DEF DecisionsAgree
  <2> QED BY <1>3, <2>1, <2>2 DEF DecisionsAgree, Handling
<1> QED BY <1>4, <1>5, <1>6, WhoWrites

(* With one payment process the status a processed order keeps is the       *)
(* outcome announced last, however often the handler was retried, killed    *)
(* and handed the event again: nobody is left with an announcement the row  *)
(* contradicts.                                                             *)
THEOREM LastOutcomeStands ==
    ASSUME OneMember
    PROVE  PaymentSpec => []StatusIsLastAnnounced
<1>1. PaymentInit => DecisionsAgree
  BY DEF PaymentInit, DecisionsAgree, Idle
<1>2. PaymentInv /\ DecisionsAgree /\ [PaymentNext]_paymentVars => DecisionsAgree'
  BY DecisionsStep
<1>3. DecisionsAgree => StatusIsLastAnnounced
  BY DEF DecisionsAgree, StatusIsLastAnnounced
<1> QED BY <1>1, <1>2, <1>3, PaymentInvariant, PTL DEF PaymentSpec
=============================================================================
