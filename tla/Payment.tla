------------------------------ MODULE Payment ------------------------------
(***************************************************************************)
(* The payment service: PaymentService.HandleOrderCreated run by the       *)
(* consumer group of KafkaConsumer on topic order.created.  Each call of   *)
(* the handler looks the event up in processed_messages, draws an outcome, *)
(* stores it as the order's status, publishes a PaymentProcessedEvent and  *)
(* records the event as processed: four writes and reads of three systems, *)
(* any of which can fail before or after it took effect.                   *)
(***************************************************************************)
EXTENDS KafkaConsumer, SequencesExt

CONSTANTS
    Orders,       \* order ids; the OrderCreatedEvent of an order stands for it
    Malformed,    \* a payload without a decodable event or order id
    PartitionOf   \* partition the Hash balancer picks for a message's key

ASSUME MessagesAssumption == Messages = Orders \union {Malformed} /\ Malformed \notin Orders
ASSUME KeyAssumption == PartitionOf \in [Messages -> Partitions]

VARIABLES
    status,      \* orders.status in PostgreSQL
    processed,   \* processed_messages rows of this consumer group
    published,   \* topic order.payment.processed: the outcomes sent per order
    stage,       \* where each member is in HandleOrderCreated
    outcome      \* newStatus drawn by the call in progress

serviceVars == <<status, processed, published, stage, outcome>>
paymentVars == <<consumerVars, serviceVars>>

Outcomes == {"paid", "cancelled"}
Idle == "idle"

\* The row of the event in processed_messages; a second insert does nothing.
IsProcessed(c) == MessageOf(c) \in processed
InsertProcessed(c) == processed' = processed \union {MessageOf(c)}

PaymentInit ==
    /\ ConsumerInit
    /\ status = [o \in Orders |-> "pending"]
    /\ processed = {}
    /\ published = [o \in Orders |-> <<>>]
    /\ stage = [c \in Members |-> Idle]
    /\ outcome = [c \in Members |-> Idle]

\* Mutant: the state of a call is kept in the service.
ReturnKeepsState(c) == UNCHANGED <<stage, outcome>>

\* The call returns and its local variables are gone.
Return(c) ==
    /\ stage' = [stage EXCEPT ![c] = Idle]
    /\ outcome' = [outcome EXCEPT ![c] = Idle]

-----------------------------------------------------------------------------
(* HandleOrderCreated.                                                     *)

\* json.Unmarshal or uuid.Parse fails, on every attempt.
RejectMalformed(c) ==
    /\ pc[c] = "handling"
    /\ MessageOf(c) = Malformed
    /\ HandlerFails(c)
    /\ UNCHANGED serviceVars

\* Mutant: a duplicate makes the loop go on without a commit.
IgnoreDuplicateSkips(c) ==
    /\ pc[c] = "handling"
    /\ stage[c] = Idle
    /\ IsProcessed(c)
    /\ NextRecord(c)
    /\ UNCHANGED <<brokerVars, dlq, handled, lost, faults, serviceVars>>

\* IsProcessed finds the event: it is a duplicate, and nothing is done.
IgnoreDuplicate(c) ==
    /\ pc[c] = "handling"
    /\ stage[c] = Idle
    /\ IsProcessed(c)
    /\ HandlerSucceeds(c)
    /\ UNCHANGED serviceVars

\* Mutant: the duplicate check does not look at the rows.
DrawOutcomeAlways(c) ==
    /\ pc[c] = "handling"
    /\ stage[c] = Idle
    /\ ~cancelled[c]
    /\ MessageOf(c) \in Orders
    /\ \E s \in Outcomes : outcome' = [outcome EXCEPT ![c] = s]
    /\ stage' = [stage EXCEPT ![c] = "update"]
    /\ UNCHANGED <<consumerVars, status, processed, published>>

\* IsProcessed finds nothing, and the payment outcome is drawn.
DrawOutcome(c) ==
    /\ pc[c] = "handling"
    /\ stage[c] = Idle
    /\ ~cancelled[c]
    /\ MessageOf(c) \in Orders /\ ~IsProcessed(c)
    /\ \E s \in Outcomes : outcome' = [outcome EXCEPT ![c] = s]
    /\ stage' = [stage EXCEPT ![c] = "update"]
    /\ UNCHANGED <<consumerVars, status, processed, published>>

\* Mutant: only a pending order is updated.
UpdateStatusOnce(c) ==
    /\ stage[c] = "update"
    /\ ~cancelled[c]
    /\ status' = [status EXCEPT ![MessageOf(c)] = IF @ = "pending" THEN outcome[c] ELSE @]
    /\ stage' = [stage EXCEPT ![c] = "publish"]
    /\ UNCHANGED <<consumerVars, processed, published, outcome>>

\* orderStore.UpdateStatus writes the row and reads it back.
UpdateStatus(c) ==
    /\ stage[c] = "update"
    /\ ~cancelled[c]
    /\ status' = [status EXCEPT ![MessageOf(c)] = outcome[c]]
    /\ stage' = [stage EXCEPT ![c] = "publish"]
    /\ UNCHANGED <<consumerVars, processed, published, outcome>>

\* Mutant: the error of PublishEvent is only logged.
PublishIgnoringErrors(c) ==
    /\ stage[c] = "publish"
    /\ ~cancelled[c]
    /\ published' \in {published, [published EXCEPT ![MessageOf(c)] = Append(@, outcome[c])]}
    /\ stage' = [stage EXCEPT ![c] = "mark"]
    /\ UNCHANGED <<consumerVars, status, processed, outcome>>

\* eventPublisher.PublishEvent is acknowledged.
Publish(c) ==
    /\ stage[c] = "publish"
    /\ ~cancelled[c]
    /\ published' = [published EXCEPT ![MessageOf(c)] = Append(@, outcome[c])]
    /\ stage' = [stage EXCEPT ![c] = "mark"]
    /\ UNCHANGED <<consumerVars, status, processed, outcome>>

\* Mutant: the error of MarkProcessed is only logged.
MarkProcessedIgnoringErrors(c) ==
    /\ stage[c] = "mark"
    /\ (InsertProcessed(c) \/ UNCHANGED processed)
    /\ HandlerSucceeds(c)
    /\ Return(c)
    /\ UNCHANGED <<status, published>>

\* processedStore.MarkProcessed inserts the row and the handler returns nil.
MarkProcessed(c) ==
    /\ stage[c] = "mark"
    /\ InsertProcessed(c)
    /\ HandlerSucceeds(c)
    /\ Return(c)
    /\ UNCHANGED <<status, published>>

\* A call of the database or of the broker returns an error: the handler returns
\* it, whether or not the write of that call took effect.
HandlerError(c) ==
    /\ pc[c] = "handling"
    /\ MessageOf(c) \in Orders
    /\ HandlerFails(c)
    /\ Return(c)
    /\ LET o == MessageOf(c) IN
        \/ UNCHANGED <<status, published, processed>>
        \/ /\ stage[c] = "update"
           /\ status' = [status EXCEPT ![o] = outcome[c]]
           /\ UNCHANGED <<published, processed>>
        \/ /\ stage[c] = "publish"
           /\ published' = [published EXCEPT ![o] = Append(@, outcome[c])]
           /\ UNCHANGED <<status, processed>>
        \/ /\ stage[c] = "mark"
           /\ InsertProcessed(c)
           /\ UNCHANGED <<status, published>>

HandleOrderCreated(c) ==
    \/ RejectMalformed(c) \/ IgnoreDuplicate(c) \/ DrawOutcome(c) \/ UpdateStatus(c)
    \/ Publish(c) \/ MarkProcessed(c) \/ HandlerError(c)

-----------------------------------------------------------------------------
\* The relay publishes an order's event, possibly more than once, and somebody
\* publishes a malformed one (cmd/kafka-bad-message-test).
PublishOrderEvent(m) == Produce(PartitionOf[m], m) /\ UNCHANGED serviceVars

CrashService(c) ==
    /\ Crash(c)
    /\ Return(c)
    /\ UNCHANGED <<status, processed, published>>

\* The steps of the consumer loop and of its environment around the handler.
ServiceLoop(c) == LoopStep(c) /\ UNCHANGED serviceVars
ServiceStart(c) == Start(c) /\ UNCHANGED serviceVars
ServiceCancel(c) == Cancel(c) /\ UNCHANGED serviceVars
ServiceAssign(p, c) == AssignOrphan(p, c) /\ UNCHANGED serviceVars
ServiceRebalance(p, c) == Rebalance(p, c) /\ UNCHANGED serviceVars

PaymentNext ==
    \/ \E m \in Messages : PublishOrderEvent(m)
    \/ \E c \in Members :
        \/ HandleOrderCreated(c) \/ ServiceLoop(c)
        \/ ServiceStart(c) \/ ServiceCancel(c) \/ CrashService(c)
    \/ \E p \in Partitions, c \in Members : ServiceAssign(p, c) \/ ServiceRebalance(p, c)

PaymentSpec == PaymentInit /\ [][PaymentNext]_paymentVars

-----------------------------------------------------------------------------
(* Properties.                                                             *)

PaymentTypeOK ==
    /\ TypeOK
    /\ status \in [Orders -> Outcomes \union {"pending"}]
    /\ processed \subseteq Orders
    /\ published \in [Orders -> Seq(Outcomes)]
    /\ stage \in [Members -> {Idle, "update", "publish", "mark"}]
    /\ outcome \in [Members -> Outcomes \union {Idle}]
    /\ \A c \in Members : stage[c] # Idle => /\ pc[c] = "handling"
                                             /\ outcome[c] \in Outcomes
                                             /\ MessageOf(c) \in Orders

\* The handler writes in an order that survives a failure or a crash between any
\* two writes: what is recorded as processed has been announced, and an outcome is
\* announced only once the order carries a decision.
ProcessedIsAnnounced ==
    \A o \in Orders :
        /\ o \in processed => published[o] # <<>>
        /\ published[o] # <<>> => status[o] # "pending"

\* The rest of the inductive invariant.  A call that is past a write finds its
\* effect, whoever else has written ...
WritesAreInOrder ==
    \A c \in Members :
        /\ stage[c] \in {"publish", "mark"} => status[MessageOf(c)] # "pending"
        /\ stage[c] = "mark" => published[MessageOf(c)] # <<>>

\* ... and the handler returns nil for an order's event only once it is recorded.
HandledAreProcessed ==
    \A r \in handled :
        /\ r[2] < Len(log[r[1]])
        /\ log[r[1]][r[2] + 1] \in Orders => log[r[1]][r[2] + 1] \in processed

PaymentInv ==
    /\ PaymentTypeOK
    /\ ProcessedIsAnnounced
    /\ HeldIsInLog
    /\ WritesAreInOrder
    /\ HandledAreProcessed

\* Members in the middle of a call for the event of order o.
Handling(o) == {c \in Members : stage[c] # Idle /\ MessageOf(c) = o}

\* Once an event is processed and no call for it is in progress, redeliveries,
\* relayed duplicates and rebalances never touch the order again.
ProcessedIsFinal ==
    [][\A o \in Orders :
        o \in processed /\ Handling(o) = {} =>
            /\ Handling(o)' = {}
            /\ status'[o] = status[o]
            /\ published'[o] = published[o]]_paymentVars

\* With one member, whatever was retried, the status a processed order keeps is
\* the outcome announced last.
StatusIsLastAnnounced ==
    \A o \in processed : Handling(o) = {} => status[o] = Last(published[o])

\* The inductive invariant behind it, for a group of one member: no order is decided
\* again once it is processed, and a call that is past a write finds its own outcome,
\* not that of an earlier attempt.
OneMember == \A c, d \in Members : c = d

DecisionsAgree ==
    /\ \A o \in processed : Handling(o) = {} /\ status[o] = Last(published[o])
    /\ \A c \in Members :
        /\ stage[c] \in {"publish", "mark"} => status[MessageOf(c)] = outcome[c]
        /\ stage[c] = "mark" => Last(published[MessageOf(c)]) = outcome[c]

\* An order that was only ever dead lettered is the one case in which its event is
\* consumed without a processed_messages row.
ConsumedOrdersAreProcessed ==
    \A p \in Partitions : \A i \in 0 .. committed[p] - 1 :
        log[p][i + 1] \in Orders =>
            log[p][i + 1] \in processed \/ <<p, i>> \in dlq \union lost

\* go_clean_code/README.md:349 and 406 say that processed_messages keeps a redelivered or
\* retried event from being processed twice.
OutcomeAnnouncedOnce ==
    \A o \in Orders : Cardinality(ToSet(published[o])) <= 1
=============================================================================
