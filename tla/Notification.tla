---------------------------- MODULE Notification ----------------------------
(***************************************************************************)
(* The notification service: NotificationService.HandlePaymentProcessed    *)
(* run by the consumer group of KafkaConsumer on topic                     *)
(* order.payment.processed.  A call looks the event up in                  *)
(* processed_messages, tells the user, and records the event as processed. *)
(*                                                                         *)
(* Both forms of the service are modelled, and may share the group, which  *)
(* has the same name in both: in go_kafka a failed send fails the call, in *)
(* go_clean_code it is logged and the call goes on.  The service of        *)
(* go_clean_code knows its sender by the interface only, so a send may     *)
(* fail at any time; the sender of go_kafka, a part of its service, fails  *)
(* only when ctx is cancelled.  A send that fails tells the user nothing.  *)
(***************************************************************************)
EXTENDS KafkaConsumer

CONSTANTS
    Events,         \* event ids of PaymentProcessedEvents
    Anonymous,      \* an event without an id
    Malformed,      \* a payload that is no PaymentProcessedEvent
    StrictMembers,  \* members that run the service of go_kafka
    PartitionOf     \* partition the Hash balancer picks for an event's key

ASSUME EventsAssumption ==
    /\ Messages = Events \union {Anonymous, Malformed}
    /\ Anonymous # Malformed /\ Anonymous \notin Events /\ Malformed \notin Events
    /\ Events \intersect Records = {}
ASSUME StrictAssumption == StrictMembers \subseteq Members
ASSUME KeyAssumption == PartitionOf \in [Events -> Partitions]

VARIABLES
    processed,   \* processed_messages rows of the group
    told,        \* how often the user was told about each event
    stage,       \* where each member is in HandlePaymentProcessed
    unmarked,    \* history: calls per event that told the user and did not record it
    untold       \* history: who recorded which event after a failed send

noticeVars == <<processed, told, stage, unmarked, untold>>
notificationVars == <<consumerVars, noticeVars>>

Idle == "idle"

\* Message ids: an event's own, or fallbackMessageID, made of the record's place.
Ids == Events \union (Partitions \X (0 .. MaxLog - 1))

MessageID(c) == IF MessageOf(c) = Anonymous THEN current[c] ELSE MessageOf(c)

\* The row of the event in processed_messages; a second insert does nothing.
IsProcessed(c) == MessageID(c) \in processed
InsertProcessed(c) == processed' = processed \union {MessageID(c)}

NotificationInit ==
    /\ ConsumerInit
    /\ processed = {}
    /\ told = [i \in Ids |-> 0]
    /\ stage = [c \in Members |-> Idle]
    /\ unmarked = [i \in Ids |-> 0]
    /\ untold = {}

Goto(c, next) == stage' = [stage EXCEPT ![c] = next]

\* Mutant: the state of a call is kept in the service.
ReturnKeepsStage(c) == UNCHANGED stage

Return(c) == Goto(c, Idle)

-----------------------------------------------------------------------------
(* HandlePaymentProcessed.                                                 *)

\* json.Unmarshal fails, on every attempt.
RejectMalformed(c) ==
    /\ pc[c] = "handling"
    /\ MessageOf(c) = Malformed
    /\ HandlerFails(c)
    /\ UNCHANGED noticeVars

\* Mutant: a duplicate is given up without a commit.
IgnoreDuplicateSkips(c) ==
    /\ pc[c] = "handling"
    /\ stage[c] = Idle
    /\ MessageOf(c) # Malformed /\ IsProcessed(c)
    /\ NextRecord(c)
    /\ UNCHANGED <<brokerVars, dlq, handled, lost, faults, noticeVars>>

\* IsProcessed finds the row.
IgnoreDuplicate(c) ==
    /\ pc[c] = "handling"
    /\ stage[c] = Idle
    /\ MessageOf(c) # Malformed /\ IsProcessed(c)
    /\ HandlerSucceeds(c)
    /\ UNCHANGED noticeVars

\* Mutant: the row is not looked up.
AcceptAlways(c) ==
    /\ pc[c] = "handling"
    /\ stage[c] = Idle
    /\ ~cancelled[c]
    /\ MessageOf(c) # Malformed
    /\ Goto(c, "send")
    /\ UNCHANGED <<consumerVars, processed, told, unmarked, untold>>

\* Mutant: the event is recorded before the send, to keep duplicates out.
AcceptRecordsFirst(c) ==
    /\ pc[c] = "handling"
    /\ stage[c] = Idle
    /\ ~cancelled[c]
    /\ MessageOf(c) # Malformed /\ ~IsProcessed(c)
    /\ InsertProcessed(c)
    /\ Goto(c, "send")
    /\ UNCHANGED <<consumerVars, told, unmarked, untold>>

\* IsProcessed finds nothing.
AcceptNew(c) ==
    /\ pc[c] = "handling"
    /\ stage[c] = Idle
    /\ ~cancelled[c]
    /\ MessageOf(c) # Malformed /\ ~IsProcessed(c)
    /\ Goto(c, "send")
    /\ UNCHANGED <<consumerVars, processed, told, unmarked, untold>>

\* Sender.Send tells the user.
Send(c) ==
    /\ stage[c] = "send"
    /\ told' = [told EXCEPT ![MessageID(c)] = @ + 1]
    /\ Goto(c, "sent")
    /\ UNCHANGED <<consumerVars, processed, unmarked, untold>>

\* go_kafka: the call returns the error of the send.
SendErrorIsReturned(c) ==
    /\ stage[c] = "send"
    /\ cancelled[c] /\ c \in StrictMembers
    /\ HandlerFails(c)
    /\ Return(c)
    /\ UNCHANGED <<processed, told, unmarked, untold>>

\* go_clean_code: any error of the send is logged and the call goes on to
\* MarkProcessed.
SendErrorIsLogged(c) ==
    /\ stage[c] = "send"
    /\ c \notin StrictMembers
    /\ Goto(c, "unsent")
    /\ UNCHANGED <<consumerVars, processed, told, unmarked, untold>>

Marking == {"sent", "unsent"}

\* The row is inserted by a call whose send has failed.
CountUntold(c) ==
    untold' = IF stage[c] = "unsent" /\ processed' # processed
              THEN untold \union {<<c, MessageID(c)>>}
              ELSE untold

\* The call is over although it has told the user.
CountUnmarked(c) ==
    unmarked' = IF stage[c] = "sent"
                THEN [unmarked EXCEPT ![MessageID(c)] = @ + 1]
                ELSE unmarked

\* Mutant: the error of MarkProcessed is only logged.
MarkProcessedIgnoringErrors(c) ==
    /\ stage[c] \in Marking
    /\ (InsertProcessed(c) \/ UNCHANGED processed)
    /\ CountUntold(c)
    /\ HandlerSucceeds(c)
    /\ Return(c)
    /\ UNCHANGED <<told, unmarked>>

\* MarkProcessed inserts the row, if it is not there yet, and the call returns nil.
MarkProcessed(c) ==
    /\ stage[c] \in Marking
    /\ InsertProcessed(c)
    /\ CountUntold(c)
    /\ HandlerSucceeds(c)
    /\ Return(c)
    /\ UNCHANGED <<told, unmarked>>

\* IsProcessed or MarkProcessed returns an error.  The row may be inserted although
\* its answer is lost.
HandlerError(c) ==
    /\ pc[c] = "handling"
    /\ MessageOf(c) # Malformed
    /\ stage[c] # "send"
    /\ \/ UNCHANGED processed
       \/ stage[c] \in Marking /\ InsertProcessed(c)
    /\ CountUntold(c)
    /\ CountUnmarked(c)
    /\ HandlerFails(c)
    /\ Return(c)
    /\ UNCHANGED told

HandlePaymentProcessed(c) ==
    \/ RejectMalformed(c) \/ IgnoreDuplicate(c) \/ AcceptNew(c)
    \/ Send(c) \/ SendErrorIsReturned(c) \/ SendErrorIsLogged(c)
    \/ MarkProcessed(c) \/ HandlerError(c)

-----------------------------------------------------------------------------
\* The payment service publishes an event, possibly more than once, under the key
\* of its order.  Events without an id share nothing but the lack of it.
PublishPaymentEvent(p, m) ==
    /\ m \in Events => p = PartitionOf[m]
    /\ Produce(p, m)
    /\ UNCHANGED noticeVars

CrashService(c) ==
    /\ Crash(c)
    /\ CountUnmarked(c)
    /\ Return(c)
    /\ UNCHANGED <<processed, told, untold>>

\* The steps of the consumer loop and of its environment around the handler.
ServiceLoop(c) == LoopStep(c) /\ UNCHANGED noticeVars
ServiceStart(c) == Start(c) /\ UNCHANGED noticeVars
ServiceCancel(c) == Cancel(c) /\ UNCHANGED noticeVars
ServiceAssign(p, c) == AssignOrphan(p, c) /\ UNCHANGED noticeVars
ServiceRebalance(p, c) == Rebalance(p, c) /\ UNCHANGED noticeVars

NotificationNext ==
    \/ \E p \in Partitions, m \in Messages : PublishPaymentEvent(p, m)
    \/ \E c \in Members :
        \/ HandlePaymentProcessed(c) \/ ServiceLoop(c)
        \/ ServiceStart(c) \/ ServiceCancel(c) \/ CrashService(c)
    \/ \E p \in Partitions, c \in Members : ServiceAssign(p, c) \/ ServiceRebalance(p, c)

NotificationSpec == NotificationInit /\ [][NotificationNext]_notificationVars

-----------------------------------------------------------------------------
(* Properties.                                                             *)

NotificationTypeOK ==
    /\ TypeOK
    /\ processed \subseteq Ids
    /\ told \in [Ids -> Nat]
    /\ stage \in [Members -> {Idle, "send"} \union Marking]
    /\ unmarked \in [Ids -> Nat]
    /\ untold \subseteq Members \X Ids
    /\ \A c \in Members :
        stage[c] # Idle => pc[c] = "handling" /\ MessageOf(c) # Malformed

\* An event is recorded although the user was never told only by a call of
\* go_clean_code whose own send failed: that service records it all the same, but no
\* crash, failed call, duplicate or rebalance takes a notice away, nor does a call of
\* go_kafka, also when it takes over from one whose send failed.
UntoldNeedsFailedSend ==
    \A i \in processed : told[i] > 0 \/ \E c \in Members \ StrictMembers : <<c, i>> \in untold

\* The user is told again only if a call failed or died after it had told the user,
\* or a fault let two members handle the event.
NoticesAreExplained == \A i \in Ids : told[i] <= 1 + unmarked[i] + faults

\* A committed event is recorded as processed, unless it was given up.
ConsumedEventsAreProcessed ==
    \A p \in Partitions : \A o \in 0 .. committed[p] - 1 :
        LET m == log[p][o + 1] IN
        \/ <<p, o>> \in dlq \union lost
        \/ m \in processed
        \/ m = Anonymous /\ <<p, o>> \in processed

\* The rest of the inductive invariant.  An event is only ever in the partition of
\* its key ...
EventsKeepPartition ==
    \A p \in Partitions :
        /\ Len(log[p]) <= MaxLog
        /\ \A o \in 1 .. Len(log[p]) : log[p][o] \in Events => p = PartitionOf[log[p][o]]

\* ... the handler returns nil only for what is recorded ...
HandledAreProcessed ==
    \A r \in handled :
        /\ r[2] < Len(log[r[1]])
        /\ LET m == log[r[1]][r[2] + 1] IN
            m \in processed \/ (m = Anonymous /\ r \in processed)

\* ... a call that is about to record its event has told the user, or is one of
\* go_clean_code ...
MarkingHasTried ==
    \A c \in Members :
        /\ stage[c] = "sent" => told[MessageID(c)] > 0
        /\ stage[c] = "unsent" => c \notin StrictMembers

\* ... what was told of an event nobody has recorded is in the hands of a call
\* or was given up ...
InCall(i, step) == {c \in Members : stage[c] = step /\ MessageID(c) = i}

TellingsAreAccounted ==
    \A i \in Ids \ processed : told[i] <= unmarked[i] + Cardinality(InCall(i, "sent"))

\* ... and the notices given and about to be given stay within the budget.
NoticesAreBudgeted ==
    \A i \in Ids : told[i] + Cardinality(InCall(i, "send")) <= 1 + unmarked[i] + faults

NotificationInv ==
    /\ NotificationTypeOK
    /\ HeldIsInLog
    /\ StraysNeedFaults
    /\ EventsKeepPartition
    /\ HandledAreProcessed
    /\ UntoldNeedsFailedSend
    /\ MarkingHasTried
    /\ TellingsAreAccounted
    /\ NoticesAreBudgeted
=============================================================================
