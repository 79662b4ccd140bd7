------------------------- MODULE NotificationProofs -------------------------
(***************************************************************************)
(* The notification service for every group, topic, number of attempts and *)
(* number of faults.  It is a consumer of KafkaConsumer, and what it tells *)
(* the user is accounted for: the proof counts the calls in progress for   *)
(* an event, all but one of which hold a record of a partition that a      *)
(* rebalance has taken from them.                                          *)
(***************************************************************************)
EXTENDS Notification, KafkaConsumerProofs

(* Every step of the service is a step of the consumer or leaves it alone. *)
LEMMA ConsumerStep == [NotificationNext]_notificationVars => [ConsumerNext]_consumerVars
<1> SUFFICES ASSUME [NotificationNext]_notificationVars PROVE [ConsumerNext]_consumerVars
  OBVIOUS
<1>1. CASE UNCHANGED notificationVars
  BY <1>1 DEF notificationVars
<1>2. ASSUME NEW p \in Partitions, NEW m \in Messages, PublishPaymentEvent(p, m)
      PROVE ConsumerNext
  BY <1>2 DEF PublishPaymentEvent, ConsumerNext
<1>3. ASSUME NEW c \in Members, HandlePaymentProcessed(c) PROVE [ConsumerNext]_consumerVars
  <2>1. CASE RejectMalformed(c) \/ IgnoreDuplicate(c) \/ SendErrorIsReturned(c)
             \/ MarkProcessed(c) \/ HandlerError(c)
    <3>1. HandlerReturns(c)
      BY <2>1 DEF RejectMalformed, IgnoreDuplicate, SendErrorIsReturned, MarkProcessed,
         HandlerError, HandlerReturns
    <3> QED BY <3>1 DEF ConsumerNext
  <2>2. CASE AcceptNew(c) \/ Send(c) \/ SendErrorIsLogged(c)
    BY <2>2 DEF AcceptNew, Send, SendErrorIsLogged
  <2> QED BY <1>3, <2>1, <2>2 DEF HandlePaymentProcessed
<1>4. ASSUME NEW c \in Members, ServiceLoop(c) PROVE ConsumerNext
  BY <1>4 DEF ServiceLoop, ConsumerNext
<1>5. ASSUME NEW c \in Members, ServiceStart(c) \/ ServiceCancel(c) \/ CrashService(c)
      PROVE ConsumerNext
  BY <1>5 DEF ServiceStart, ServiceCancel, CrashService, ConsumerNext, Environment
<1>6. ASSUME NEW p \in Partitions, NEW c \in Members,
             ServiceAssign(p, c) \/ ServiceRebalance(p, c)
      PROVE ConsumerNext
  BY <1>6 DEF ServiceAssign, ServiceRebalance, ConsumerNext, Environment
<1> QED BY <1>1, <1>2, <1>3, <1>4, <1>5, <1>6 DEF NotificationNext

(* NotificationService under HandlePaymentProcessed, in either form,       *)
(* implements Consumer.Consume with any handler.                           *)
THEOREM NotificationIsAConsumer == NotificationSpec => ConsumerSpec
<1>1. NotificationInit => ConsumerInit
  BY DEF NotificationInit
<1> QED BY <1>1, ConsumerStep, PTL DEF NotificationSpec, ConsumerSpec

(* No PaymentProcessedEvent below the group's offset was passed over.      *)
THEOREM NotificationSkipsNothing == NotificationSpec => []CommittedAreSettled
BY NotificationIsAConsumer, NoSilentSkip, PTL

-----------------------------------------------------------------------------
(* The parts of the invariant that a step is shown to keep one by one.     *)
CallPart ==
    /\ processed \subseteq Ids
    /\ told \in [Ids -> Nat]
    /\ stage \in [Members -> {Idle, "send"} \union Marking]
    /\ unmarked \in [Ids -> Nat]
    /\ untold \subseteq Members \X Ids
    /\ \A c \in Members :
        stage[c] # Idle => pc[c] = "handling" /\ MessageOf(c) # Malformed
    /\ UntoldNeedsFailedSend
    /\ MarkingHasTried

BooksPart == TellingsAreAccounted /\ NoticesAreBudgeted

LogPart == TypeOK /\ HeldIsInLog /\ StraysNeedFaults /\ EventsKeepPartition

(* The invariant, grouped by what a step of each kind can disturb.         *)
LEMMA InvParts ==
    NotificationInv <=> LogPart /\ HandledAreProcessed /\ CallPart /\ BooksPart
BY DEF NotificationInv, NotificationTypeOK, LogPart, CallPart, BooksPart

(* The partition of an id: where its key puts it, or where its record is.  *)
PlaceOf(i) == IF i \in Events THEN PartitionOf[i] ELSE i[1]

(* The id of a held event is one of Ids, and says where the record is.     *)
LEMMA IdOfCall ==
    ASSUME LogPart, NEW c \in Members, pc[c] \in HoldsRecord, MessageOf(c) # Malformed
    PROVE  /\ MessageID(c) \in Ids
           /\ PlaceOf(MessageID(c)) = current[c][1]
           /\ current[c][1] \in Partitions
<1> DEFINE p == current[c][1]
           o == current[c][2]
<1>1. /\ current[c] \in Partitions \X Nat
      /\ o < Len(log[p])
  BY DEF LogPart, TypeOK, HeldIsInLog, Records
<1>2. p \in Partitions /\ o \in Nat /\ current[c] = <<p, o>>
  BY <1>1
<1>3. log[p] \in Seq(Messages)
  BY <1>2 DEF LogPart, TypeOK
<1>4. Len(log[p]) \in Nat
  BY <1>3
<1>5. Len(log[p]) <= MaxLog /\ MaxLog \in Nat
  BY <1>2, BoundsAssumption DEF LogPart, EventsKeepPartition
<1>6. o \in 0 .. MaxLog - 1 /\ o + 1 \in 1 .. Len(log[p])
  BY <1>1, <1>2, <1>4, <1>5
<1>7. log[p][o + 1] \in Messages
  BY <1>3, <1>6
<1>8. log[p][o + 1] \in Events => p = PartitionOf[log[p][o + 1]]
  BY <1>2, <1>6 DEF LogPart, EventsKeepPartition
<1>9. MessageOf(c) = log[p][o + 1]
  BY DEF MessageOf
<1> HIDE DEF p, o
<1>10. CASE MessageOf(c) = Anonymous
  <2>1. MessageID(c) = <<p, o>> /\ <<p, o>> \in Records
    BY <1>2, <1>10 DEF MessageID, Records
  <2> QED BY <1>2, <1>6, <2>1, EventsAssumption DEF Ids, PlaceOf, p
<1>11. CASE MessageOf(c) # Anonymous
  BY <1>2, <1>7, <1>8, <1>9, <1>11, EventsAssumption DEF MessageID, Ids, PlaceOf, p
<1> QED BY <1>10, <1>11

(* The consumer's part of the invariant, and the log.                      *)
LEMMA LogStep ==
    ASSUME LogPart, [NotificationNext]_notificationVars
    PROVE  LogPart' /\ [ConsumerNext]_consumerVars
<1>1. [ConsumerNext]_consumerVars /\ TypeOK' /\ HeldIsInLog' /\ StraysNeedFaults'
  BY ConsumerStep, TypeStep, HeldStep, StraysStep DEF LogPart
<1>2. ASSUME NEW p \in Partitions, NEW m \in Messages, PublishPaymentEvent(p, m)
      PROVE EventsKeepPartition'
  <2> SUFFICES ASSUME NEW q \in Partitions
               PROVE /\ Len(log'[q]) <= MaxLog
                     /\ \A o \in 1 .. Len(log'[q]) :
                         log'[q][o] \in Events => q = PartitionOf[log'[q][o]]
    BY DEF EventsKeepPartition
  <2>1. log[q] \in Seq(Messages) /\ log[p] \in Seq(Messages) /\ Len(log[p]) < MaxLog
    BY <1>2 DEF LogPart, TypeOK, PublishPaymentEvent, Produce
  <2>2. log'[q] = IF q = p THEN Append(log[p], m) ELSE log[q]
    BY <1>2 DEF LogPart, TypeOK, PublishPaymentEvent, Produce
  <2>3. CASE q # p
    BY <2>2, <2>3 DEF LogPart, EventsKeepPartition
  <2>4. CASE q = p
    <3>1. /\ Len(Append(log[p], m)) = Len(log[p]) + 1
          /\ \A o \in 1 .. Len(log[p]) + 1 :
                Append(log[p], m)[o] = IF o = Len(log[p]) + 1 THEN m ELSE log[p][o]
          /\ Len(log[p]) \in Nat
      BY <2>1
    <3>2. m \in Events => p = PartitionOf[m]
      BY <1>2 DEF PublishPaymentEvent
    <3>3. Len(log[p]) + 1 <= MaxLog
      BY <2>1, <3>1, BoundsAssumption
    <3>4. \A o \in 1 .. Len(log[p]) : log[p][o] \in Events => p = PartitionOf[log[p][o]]
      BY DEF LogPart, EventsKeepPartition
    <3>5. log'[q] = Append(log[p], m)
      BY <2>2, <2>4
    <3>6. ASSUME NEW o \in 1 .. Len(log[p]) + 1
          PROVE Append(log[p], m)[o] \in Events => p = PartitionOf[Append(log[p], m)[o]]
      <4>1. CASE o = Len(log[p]) + 1
        BY <3>1, <3>2, <4>1
      <4>2. CASE o # Len(log[p]) + 1
        <5>1. o \in 1 .. Len(log[p])
          BY <3>1, <4>2
        <5> QED BY <3>1, <3>4, <4>2, <5>1
      <4> QED BY <4>1, <4>2
    <3> QED BY <2>4, <3>1, <3>3, <3>5, <3>6
  <2> QED BY <2>3, <2>4
<1>3. ASSUME \A p \in Partitions, m \in Messages : ~PublishPaymentEvent(p, m)
      PROVE UNCHANGED log
  <2>1. ASSUME NEW c \in Members, HandlerSucceeds(c) \/ HandlerFails(c) \/ Start(c)
               \/ Cancel(c) \/ Crash(c)
        PROVE UNCHANGED log
    BY <2>1 DEF HandlerSucceeds, HandlerFails, Start, Cancel, Crash, brokerVars
  <2>2. ASSUME NEW c \in Members, LoopStep(c) PROVE UNCHANGED log
    BY <2>2 DEF LoopStep, Fetch, FetchStops, BackoffElapses, BackoffCancelled, SendToDLQ,
       DLQCancelled, DLQFails, DLQUnsent, CommitSucceeds, CommitFails, brokerVars
  <2>3. ASSUME NEW p \in Partitions, NEW c \in Members, Assign(p, c) PROVE UNCHANGED log
    BY <2>3 DEF Assign
  <2>4. ASSUME NEW c \in Members, AcceptNew(c) \/ Send(c) \/ SendErrorIsLogged(c)
        PROVE UNCHANGED log
    BY <2>4 DEF AcceptNew, Send, SendErrorIsLogged, consumerVars, brokerVars
  <2>5. CASE UNCHANGED notificationVars
    BY <2>5 DEF notificationVars, consumerVars, brokerVars
  <2> QED BY <1>3, <2>1, <2>2, <2>3, <2>4, <2>5
          DEF NotificationNext, HandlePaymentProcessed, RejectMalformed, IgnoreDuplicate,
              SendErrorIsReturned, MarkProcessed, HandlerError, ServiceLoop, ServiceStart,
              ServiceCancel, CrashService, ServiceAssign, ServiceRebalance, AssignOrphan,
              Rebalance
<1>4. EventsKeepPartition'
  <2>1. UNCHANGED log => EventsKeepPartition'
    BY DEF LogPart, EventsKeepPartition
  <2> QED BY <1>2, <1>3, <2>1
<1> QED BY <1>1, <1>4 DEF LogPart

(* Faults are only ever added, one at a time.                              *)
LEMMA FaultsGrow == [ConsumerNext]_consumerVars => faults' \in {faults, faults + 1}
BY DEF ConsumerNext, Environment, HandlerReturns, LoopStep, consumerVars, Produce, Assign,
   AssignOrphan, Rebalance, Start, Cancel, Crash, Fetch, FetchStops, HandlerSucceeds,
   HandlerFails, BackoffElapses, BackoffCancelled, SendToDLQ, DLQUnsent, DLQCancelled,
   DLQFails, CommitSucceeds, CommitFails, Fault

(* A call that a step does not end keeps its event.                        *)
LEMMA CallsStay ==
    ASSUME LogPart, CallPart, [NotificationNext]_notificationVars,
           NEW d \in Members, stage[d] # Idle, stage'[d] # Idle
    PROVE  /\ pc'[d] = "handling"
           /\ MessageOf(d)' = MessageOf(d)
           /\ MessageID(d)' = MessageID(d)
<1>1. pc[d] = "handling" /\ MessageOf(d) # Malformed /\ TypeOK
  BY DEF CallPart, LogPart
<1>2. pc'[d] = "handling" /\ current'[d] = current[d]
  <2> DEFINE Stays == pc'[d] = "handling" /\ current'[d] = current[d]
  <2> USE DEF brokerVars, memberVars
  <2>1. ASSUME UNCHANGED consumerVars PROVE Stays
    BY <1>1, <2>1 DEF consumerVars
  <2>2. ASSUME NEW p \in Partitions, NEW m \in Messages, Produce(p, m) PROVE Stays
    BY <1>1, <2>2 DEF Produce
  <2>3. ASSUME NEW p \in Partitions, NEW c \in Members, Assign(p, c) PROVE Stays
    BY <1>1, <2>3 DEF Assign
  <2>4. ASSUME NEW c \in Members, LoopStep(c) PROVE Stays
    <3>1. CASE Fetch(c) \/ FetchStops(c) \/ BackoffElapses(c) \/ SendToDLQ(c)
      BY <1>1, <3>1 DEF Fetch, FetchStops, BackoffElapses, SendToDLQ, TypeOK
    <3>2. CASE BackoffCancelled(c) \/ DLQCancelled(c) \/ DLQFails(c) \/ CommitSucceeds(c)
               \/ CommitFails(c)
      BY <1>1, <3>2 DEF BackoffCancelled, DLQCancelled, DLQFails, DLQUnsent, CommitSucceeds,
         CommitFails, NextRecord, TypeOK
    <3> QED BY <2>4, <3>1, <3>2 DEF LoopStep
  <2>5. ASSUME NEW c \in Members, Start(c) \/ Cancel(c) PROVE Stays
    BY <1>1, <2>5 DEF Start, Cancel, TypeOK
  <2>6. ASSUME NEW c \in Members, c # d,
               HandlerSucceeds(c) \/ HandlerFails(c) \/ Crash(c)
        PROVE Stays
    BY <1>1, <2>6 DEF HandlerSucceeds, HandlerFails, Crash, TypeOK
  <2>7. ~RejectMalformed(d) /\ ~IgnoreDuplicate(d)
    BY <1>1 DEF RejectMalformed, IgnoreDuplicate
  <2>8. /\ ~SendErrorIsReturned(d) /\ ~MarkProcessed(d)
        /\ ~HandlerError(d) /\ ~CrashService(d)
    BY DEF SendErrorIsReturned, MarkProcessed, HandlerError, CrashService, Return, Goto,
       CallPart
  <2>9. ASSUME NEW c \in Members, AcceptNew(c) \/ Send(c) \/ SendErrorIsLogged(c) PROVE Stays
    BY <1>1, <2>9 DEF AcceptNew, Send, SendErrorIsLogged, consumerVars
  <2>10. ASSUME NEW c \in Members,
                \/ RejectMalformed(c) \/ IgnoreDuplicate(c) \/ SendErrorIsReturned(c)
                \/ MarkProcessed(c) \/ HandlerError(c) \/ CrashService(c)
         PROVE Stays
    <3>1. HandlerSucceeds(c) \/ HandlerFails(c) \/ Crash(c)
      BY <2>10 DEF RejectMalformed, IgnoreDuplicate, SendErrorIsReturned, MarkProcessed,
         HandlerError, CrashService
    <3>2. c # d
      BY <2>7, <2>8, <2>10
    <3> QED BY <2>6, <3>1, <3>2
  <2> HIDE DEF Stays
  <2>11. Stays
    BY <2>1, <2>2, <2>3, <2>4, <2>5, <2>9, <2>10
       DEF NotificationNext, HandlePaymentProcessed, PublishPaymentEvent, ServiceLoop,
           ServiceStart, ServiceCancel, ServiceAssign, ServiceRebalance, AssignOrphan,
           Rebalance, notificationVars
  <2> QED BY <2>11 DEF Stays
<1>3. pc[d] \in HoldsRecord
  BY <1>1 DEF HoldsRecord, Steps
<1>4. MessageOf(d)' = MessageOf(d)
  BY <1>2, <1>3, LogStep, MessageStays DEF LogPart
<1> QED BY <1>2, <1>4 DEF MessageID

-----------------------------------------------------------------------------

(* The four things a step can do to a call: begin it, tell the user, pass  *)
(* over a failed send, and end it, which is where a notice that nobody     *)
(* records and an event recorded without a notice are booked.              *)
Accepts(c) ==
    /\ stage[c] = Idle /\ stage' = [stage EXCEPT ![c] = "send"]
    /\ MessageID(c) \notin processed
    /\ pc[c] = "handling" /\ MessageOf(c) # Malformed
    /\ UNCHANGED <<consumerVars, processed, told, unmarked, untold>>

Tells(c) ==
    /\ stage[c] = "send" /\ stage' = [stage EXCEPT ![c] = "sent"]
    /\ told' = [told EXCEPT ![MessageID(c)] = @ + 1]
    /\ UNCHANGED <<consumerVars, processed, unmarked, untold>>

PassesOver(c) ==
    /\ stage[c] = "send" /\ stage' = [stage EXCEPT ![c] = "unsent"]
    /\ c \notin StrictMembers
    /\ UNCHANGED <<consumerVars, processed, told, unmarked, untold>>

Ends(c) ==
    /\ stage' = [stage EXCEPT ![c] = Idle]
    /\ UNCHANGED told
    /\ \/ stage[c] \notin Marking /\ UNCHANGED <<processed, unmarked, untold>>
       \/ /\ stage[c] = "sent"
          /\ processed' = processed \union {MessageID(c)}
          /\ UNCHANGED <<unmarked, untold>>
       \/ /\ stage[c] = "sent"
          /\ processed' \in {processed, processed \union {MessageID(c)}}
          /\ unmarked' = [unmarked EXCEPT ![MessageID(c)] = @ + 1]
          /\ UNCHANGED untold
       \/ /\ stage[c] = "unsent"
          /\ UNCHANGED unmarked
          /\ \/ UNCHANGED <<processed, untold>>
             \/ /\ processed' = processed \union {MessageID(c)}
                /\ untold' = untold \union {<<c, MessageID(c)>>}

(* Every step of the service does one of them, or leaves the calls alone.  *)
LEMMA StepKinds ==
    ASSUME CallPart, [NotificationNext]_notificationVars
    PROVE  \/ UNCHANGED noticeVars
           \/ \E c \in Members : Accepts(c) \/ Tells(c) \/ PassesOver(c) \/ Ends(c)
<1>1. ASSUME NEW c \in Members, AcceptNew(c) PROVE Accepts(c)
  BY <1>1 DEF AcceptNew, Accepts, Goto, IsProcessed
<1>2. ASSUME NEW c \in Members, Send(c) PROVE Tells(c)
  BY <1>2 DEF Send, Tells, Goto
<1>3. ASSUME NEW c \in Members, SendErrorIsLogged(c) PROVE PassesOver(c)
  BY <1>3 DEF SendErrorIsLogged, PassesOver, Goto
<1>4. ASSUME NEW c \in Members, SendErrorIsReturned(c) PROVE Ends(c)
  BY <1>4 DEF SendErrorIsReturned, Ends, Return, Goto, Marking
<1>5. ASSUME NEW c \in Members, MarkProcessed(c) PROVE Ends(c)
  <2>1. /\ stage[c] \in Marking /\ stage' = [stage EXCEPT ![c] = Idle]
        /\ processed' = processed \union {MessageID(c)}
        /\ untold' = IF stage[c] = "unsent" /\ processed' # processed
                     THEN untold \union {<<c, MessageID(c)>>} ELSE untold
        /\ UNCHANGED <<told, unmarked>>
    BY <1>5 DEF MarkProcessed, Return, Goto, InsertProcessed, CountUntold
  <2> QED BY <2>1 DEF Ends, Marking
<1>6. ASSUME NEW c \in Members, HandlerError(c) PROVE Ends(c)
  <2>1. /\ stage' = [stage EXCEPT ![c] = Idle] /\ UNCHANGED told
        /\ \/ UNCHANGED processed
           \/ stage[c] \in Marking /\ processed' = processed \union {MessageID(c)}
        /\ untold' = IF stage[c] = "unsent" /\ processed' # processed
                     THEN untold \union {<<c, MessageID(c)>>} ELSE untold
        /\ unmarked' = IF stage[c] = "sent"
                       THEN [unmarked EXCEPT ![MessageID(c)] = @ + 1] ELSE unmarked
    BY <1>6 DEF HandlerError, Return, Goto, InsertProcessed, CountUntold, CountUnmarked
  <2> QED BY <2>1 DEF Ends, Marking
<1>7. ASSUME NEW c \in Members, CrashService(c) PROVE Ends(c)
  BY <1>7 DEF CrashService, Ends, Return, Goto, CountUnmarked, Marking
<1>8. ASSUME NEW c \in Members, RejectMalformed(c) \/ IgnoreDuplicate(c)
      PROVE UNCHANGED noticeVars
  BY <1>8 DEF RejectMalformed, IgnoreDuplicate
<1>9. UNCHANGED notificationVars => UNCHANGED noticeVars
  BY DEF notificationVars
<1> QED BY <1>1, <1>2, <1>3, <1>4, <1>5, <1>6, <1>7, <1>8, <1>9
     DEF NotificationNext, HandlePaymentProcessed, PublishPaymentEvent, ServiceLoop,
         ServiceStart, ServiceCancel, ServiceAssign, ServiceRebalance

-----------------------------------------------------------------------------
(* The typed part of the invariant and the two facts about what was told.  *)
LEMMA CallStep ==
    ASSUME LogPart, CallPart, [NotificationNext]_notificationVars
    PROVE  CallPart'
<1>1. ASSUME NEW d \in Members, stage[d] # Idle PROVE MessageID(d) \in Ids
  BY <1>1, IdOfCall DEF CallPart, HoldsRecord, Steps
<1>2. ASSUME /\ processed' \subseteq Ids
             /\ told' \in [Ids -> Nat]
             /\ stage' \in [Members -> {Idle, "send"} \union Marking]
             /\ unmarked' \in [Ids -> Nat]
             /\ untold' \subseteq Members \X Ids
             /\ untold \subseteq untold',
             \A i \in Ids : told[i] > 0 => told'[i] > 0,
             \A i \in processed' \ processed :
                told[i] > 0 \/ \E c \in Members \ StrictMembers : <<c, i>> \in untold',
             \A d \in Members : stage'[d] # Idle =>
                /\ pc'[d] = "handling" /\ MessageOf(d)' # Malformed
                /\ stage'[d] = "sent" => told'[MessageID(d)'] > 0
                /\ stage'[d] = "unsent" => d \notin StrictMembers
      PROVE CallPart'
  <2>1. UntoldNeedsFailedSend'
    BY <1>2 DEF CallPart, UntoldNeedsFailedSend
  <2>2. MarkingHasTried'
    BY <1>2 DEF MarkingHasTried, Idle
  <2> QED BY <1>2, <2>1, <2>2 DEF CallPart
<1>3. ASSUME NEW d \in Members, stage'[d] # Idle, stage[d] # Idle
      PROVE /\ pc'[d] = "handling" /\ MessageOf(d)' # Malformed
            /\ MessageID(d)' = MessageID(d) /\ MessageID(d) \in Ids
            /\ stage[d] = "sent" => told[MessageID(d)] > 0
            /\ stage[d] = "unsent" => d \notin StrictMembers
  BY <1>1, <1>3, CallsStay DEF CallPart, MarkingHasTried
<1>4. CASE UNCHANGED noticeVars
  BY <1>2, <1>3, <1>4 DEF noticeVars, CallPart
<1>5. ASSUME NEW c \in Members, Accepts(c) PROVE CallPart'
  <2>1. /\ stage' \in [Members -> {Idle, "send"} \union Marking]
        /\ \A d \in Members : stage'[d] = IF d = c THEN "send" ELSE stage[d]
    BY <1>5 DEF Accepts, CallPart
  <2>2. pc' = pc /\ MessageOf(c)' = MessageOf(c)
    BY <1>5 DEF Accepts, consumerVars, brokerVars, memberVars, MessageOf
  <2> QED BY <1>2, <1>3, <1>5, <2>1, <2>2 DEF Accepts, CallPart
<1>6. ASSUME NEW c \in Members, Tells(c) PROVE CallPart'
  <2>1. /\ stage' \in [Members -> {Idle, "send"} \union Marking]
        /\ \A d \in Members : stage'[d] = IF d = c THEN "sent" ELSE stage[d]
    BY <1>6 DEF Tells, CallPart, Marking
  <2>2. MessageID(c) \in Ids /\ stage[c] # Idle
    BY <1>1, <1>6 DEF Tells, Idle
  <2>3. /\ told' \in [Ids -> Nat]
        /\ \A i \in Ids : told[i] > 0 => told'[i] > 0
        /\ told'[MessageID(c)] > 0
    <3> DEFINE n == told[MessageID(c)]
    <3>1. told \in [Ids -> Nat] /\ n \in Nat
      BY <2>2 DEF CallPart
    <3>2. n + 1 \in Nat /\ n + 1 > 0
      BY <3>1
    <3>3. told' = [told EXCEPT ![MessageID(c)] = n + 1]
      BY <1>6 DEF Tells
    <3> HIDE DEF n
    <3> QED BY <2>2, <3>1, <3>2, <3>3
  <2> QED BY <1>2, <1>3, <1>6, <2>1, <2>2, <2>3 DEF Tells, CallPart
<1>7. ASSUME NEW c \in Members, PassesOver(c) PROVE CallPart'
  <2>1. /\ stage' \in [Members -> {Idle, "send"} \union Marking]
        /\ \A d \in Members : stage'[d] = IF d = c THEN "unsent" ELSE stage[d]
    BY <1>7 DEF PassesOver, CallPart, Marking
  <2>2. c \notin StrictMembers /\ stage[c] # Idle
    BY <1>7 DEF PassesOver, Idle
  <2> QED BY <1>2, <1>3, <1>7, <2>1, <2>2 DEF PassesOver, CallPart
<1>8. ASSUME NEW c \in Members, Ends(c) PROVE CallPart'
  <2>1. /\ stage' \in [Members -> {Idle, "send"} \union Marking]
        /\ \A d \in Members : stage'[d] = IF d = c THEN Idle ELSE stage[d]
    BY <1>8 DEF Ends, CallPart
  <2>2. stage[c] = "sent" => MessageID(c) \in Ids /\ told[MessageID(c)] > 0
    BY <1>1 DEF CallPart, MarkingHasTried, Idle
  <2>3. /\ processed' \subseteq Ids /\ unmarked' \in [Ids -> Nat]
        /\ untold' \subseteq Members \X Ids /\ untold \subseteq untold'
        /\ \A i \in processed' \ processed :
            told[i] > 0 \/ \E d \in Members \ StrictMembers : <<d, i>> \in untold'
    <3>1. CASE UNCHANGED <<processed, unmarked, untold>>
      BY <3>1 DEF CallPart
    <3>2. CASE stage[c] = "sent"
      <4> DEFINE n == unmarked[MessageID(c)]
      <4>0. unmarked \in [Ids -> Nat] /\ n \in Nat /\ processed \subseteq Ids
            /\ untold \subseteq Members \X Ids
        BY <2>2, <3>2 DEF CallPart
      <4>1. n + 1 \in Nat
        BY <4>0
      <4>2. \/ UNCHANGED unmarked
            \/ unmarked' = [unmarked EXCEPT ![MessageID(c)] = n + 1]
        BY <1>8 DEF Ends
      <4>3. processed' \in {processed, processed \union {MessageID(c)}} /\ UNCHANGED untold
        BY <1>8, <3>2 DEF Ends
      <4> HIDE DEF n
      <4> QED BY <2>2, <3>2, <4>0, <4>1, <4>2, <4>3
    <3>3. CASE /\ stage[c] = "unsent" /\ UNCHANGED unmarked
               /\ processed' = processed \union {MessageID(c)}
               /\ untold' = untold \union {<<c, MessageID(c)>>}
      <4>1. MessageID(c) \in Ids /\ c \notin StrictMembers
        BY <1>1, <3>3 DEF CallPart, MarkingHasTried, Idle
      <4>2. /\ unmarked \in [Ids -> Nat] /\ processed \subseteq Ids
            /\ untold \subseteq Members \X Ids
        BY DEF CallPart
      <4> QED BY <3>3, <4>1, <4>2
    <3> QED BY <1>8, <3>1, <3>2, <3>3 DEF Ends
  <2> QED BY <1>2, <1>3, <1>8, <2>1, <2>3 DEF Ends, CallPart
<1> QED BY <1>4, <1>5, <1>6, <1>7, <1>8, StepKinds

(* A record is handled by IgnoreDuplicate, which found its event in         *)
(* processed_messages, or by MarkProcessed, which has just inserted it.     *)
LEMMA HandledStep ==
    ASSUME LogPart, CallPart, HandledAreProcessed, [NotificationNext]_notificationVars
    PROVE  HandledAreProcessed'
<1>1. TypeOK /\ HeldIsInLog /\ [ConsumerNext]_consumerVars /\ TypeOK'
  BY LogStep DEF LogPart
<1>2. ASSUME NEW r \in handled
      PROVE /\ r[2] < Len(log'[r[1]])
            /\ log'[r[1]][r[2] + 1] = log[r[1]][r[2] + 1]
  <2>1. r[1] \in Partitions /\ r[2] \in Nat /\ r[2] < Len(log[r[1]])
    BY <1>1 DEF TypeOK, Records, HandledAreProcessed
  <2>2. log'[r[1]] \in Seq(Messages)
    BY <1>1, <2>1 DEF TypeOK
  <2>3. Len(log'[r[1]]) \in Nat
    BY <2>2
  <2>4. /\ Len(log[r[1]]) \in Nat
        /\ Len(log'[r[1]]) >= Len(log[r[1]])
        /\ \A i \in 1 .. Len(log[r[1]]) : log'[r[1]][i] = log[r[1]][i]
    BY <1>1, <2>1, LogGrows
  <2>5. r[2] + 1 \in 1 .. Len(log[r[1]])
    BY <2>1, <2>4
  <2> QED BY <2>1, <2>3, <2>4, <2>5
<1>3. processed \subseteq processed'
  BY StepKinds DEF Accepts, Tells, PassesOver, Ends, noticeVars
<1>4. CASE UNCHANGED handled
  BY <1>1, <1>2, <1>3, <1>4 DEF HandledAreProcessed
<1>5. ASSUME NEW c \in Members, IgnoreDuplicate(c) \/ MarkProcessed(c)
      PROVE HandledAreProcessed'
  <2>1. /\ handled' = handled \union {current[c]} /\ log' = log /\ pc[c] = "handling"
    BY <1>5 DEF IgnoreDuplicate, MarkProcessed, HandlerSucceeds, brokerVars
  <2>2. current[c][2] < Len(log[current[c][1]])
    BY <1>1, <2>1 DEF HeldIsInLog, HoldsRecord, Steps
  <2>3. MessageID(c) \in processed'
    BY <1>5 DEF IgnoreDuplicate, MarkProcessed, IsProcessed, InsertProcessed, noticeVars
  <2>4. LET m == log[current[c][1]][current[c][2] + 1] IN
          m \in processed' \/ (m = Anonymous /\ current[c] \in processed')
    BY <2>3 DEF MessageID, MessageOf
  <2> QED BY <1>2, <1>3, <2>1, <2>2, <2>4 DEF HandledAreProcessed
<1>6. UNCHANGED handled \/ \E c \in Members : IgnoreDuplicate(c) \/ MarkProcessed(c)
  <2>1. ASSUME NEW c \in Members, HandlerFails(c) \/ LoopStep(c) \/ Start(c) \/ Cancel(c) \/ Crash(c)
        PROVE UNCHANGED handled
    BY <2>1 DEF HandlerFails, LoopStep, Fetch, FetchStops, BackoffElapses, BackoffCancelled,
       SendToDLQ, DLQCancelled, DLQFails, DLQUnsent, CommitSucceeds, CommitFails, Start,
       Cancel, Crash
  <2>2. ASSUME NEW p \in Partitions, NEW m \in Messages, Produce(p, m) PROVE UNCHANGED handled
    BY <2>2 DEF Produce
  <2>3. ASSUME NEW p \in Partitions, NEW c \in Members, Assign(p, c) PROVE UNCHANGED handled
    BY <2>3 DEF Assign
  <2>4. ASSUME NEW c \in Members, AcceptNew(c) \/ Send(c) \/ SendErrorIsLogged(c)
        PROVE UNCHANGED handled
    BY <2>4 DEF AcceptNew, Send, SendErrorIsLogged, consumerVars
  <2>5. CASE UNCHANGED notificationVars
    BY <2>5 DEF notificationVars, consumerVars
  <2> QED BY <2>1, <2>2, <2>3, <2>4, <2>5
          DEF NotificationNext, PublishPaymentEvent, HandlePaymentProcessed, RejectMalformed,
              SendErrorIsReturned, HandlerError, ServiceLoop, ServiceStart, ServiceCancel,
              CrashService, ServiceAssign, ServiceRebalance, AssignOrphan, Rebalance
<1> QED BY <1>4, <1>5, <1>6

-----------------------------------------------------------------------------
(* How many calls for event i are at a step.                               *)
Calls(i, step) == Cardinality(InCall(i, step))

(* There are finitely many, because the group is finite.                   *)
LEMMA CallsAreFinite ==
    ASSUME NEW i, NEW step
    PROVE  IsFiniteSet(InCall(i, step)) /\ Calls(i, step) \in Nat
<1>1. InCall(i, step) \in SUBSET Members
  BY DEF InCall
<1> QED BY <1>1, GroupAssumption, FS_Subset, FS_CardinalityType DEF Calls

(* A call that is moved from one step to another is counted there, and no   *)
(* other count changes.                                                    *)
LEMMA CallsMove ==
    ASSUME NEW c \in Members, NEW i, NEW step, step # Idle, NEW s,
           stage \in [Members -> {Idle, "send"} \union Marking],
           stage' = [stage EXCEPT ![c] = s],
           \A d \in Members : stage'[d] # Idle => MessageID(d)' = MessageID(d)
    PROVE  Calls(i, step)' =
               IF MessageID(c) = i /\ s = step /\ stage[c] # step THEN Calls(i, step) + 1
               ELSE IF MessageID(c) = i /\ stage[c] = step /\ s # step
                    THEN Calls(i, step) - 1
               ELSE Calls(i, step)
<1>1. \A d \in Members : stage'[d] = IF d = c THEN s ELSE stage[d]
  OBVIOUS
<1>2. CASE MessageID(c) = i /\ s = step
  <2>1. InCall(i, step)' = InCall(i, step) \union {c}
    BY <1>1, <1>2 DEF InCall
  <2>2. c \in InCall(i, step) <=> stage[c] = step
    BY <1>2 DEF InCall
  <2> QED BY <1>2, <2>1, <2>2, CallsAreFinite, FS_AddElement DEF Calls
<1>3. CASE ~(MessageID(c) = i /\ s = step)
  <2>1. InCall(i, step)' = InCall(i, step) \ {c}
    BY <1>1, <1>3 DEF InCall
  <2>2. c \in InCall(i, step) <=> MessageID(c) = i /\ stage[c] = step
    BY DEF InCall
  <2> QED BY <1>3, <2>1, <2>2, CallsAreFinite, FS_RemoveElement DEF Calls
<1> QED BY <1>2, <1>3

(* All but one of the members that have accepted an event, or are about to, *)
(* hold a record of a partition they have lost.                            *)
LEMMA CallsAreStrays ==
    ASSUME LogPart, CallPart, NEW c \in Members, pc[c] = "handling", stage[c] = Idle,
           MessageOf(c) # Malformed
    PROVE  Calls(MessageID(c), "send") + Calls(MessageID(c), "sent") <= faults
<1> DEFINE i == MessageID(c)
           p == PlaceOf(i)
           S == InCall(i, "send")
           M == InCall(i, "sent")
           U == S \union M
<1>1. ASSUME NEW d \in Members, pc[d] = "handling", MessageOf(d) # Malformed,
             MessageID(d) = i, owner[p] # d
      PROVE  d \in Strays(p)
  BY <1>1, IdOfCall DEF Strays, HoldsRecord, Steps
<1>2. p \in Partitions
  BY IdOfCall DEF HoldsRecord, Steps
<1> HIDE DEF i, p
<1>3. U \union {c} \subseteq Strays(p) \union {owner[p]}
  BY <1>1 DEF InCall, CallPart, Idle, i
<1>4. IsFiniteSet(S) /\ IsFiniteSet(M) /\ S \intersect M = {}
  BY CallsAreFinite DEF InCall
<1>5. IsFiniteSet(U) /\ Cardinality(U) = Cardinality(S) + Cardinality(M)
  <2>1. Cardinality(S) \in Nat /\ Cardinality(M) \in Nat
    BY CallsAreFinite DEF Calls
  <2> HIDE DEF S, M, U
  <2>2. /\ IsFiniteSet(S \union M)
        /\ Cardinality(S \union M) = Cardinality(S) + Cardinality(M) - Cardinality(S \intersect M)
    BY <1>4, FS_Union
  <2>3. Cardinality(S \intersect M) = 0
    BY <1>4, FS_EmptySet
  <2> QED BY <2>1, <2>2, <2>3 DEF U
<1>6. c \notin U
  BY DEF InCall, Idle
<1> HIDE DEF U
<1>7. Cardinality(U \union {c}) = Cardinality(U) + 1 /\ IsFiniteSet(U \union {c})
  BY <1>5, <1>6, FS_AddElement
<1>8. /\ IsFiniteSet(Strays(p)) /\ Cardinality(Strays(p)) \in Nat
      /\ Cardinality(Strays(p)) <= faults
  <2>1. Strays(p) \in SUBSET Members
    BY DEF Strays
  <2> QED BY <1>2, <2>1, GroupAssumption, FS_Subset, FS_CardinalityType
          DEF LogPart, StraysNeedFaults
<1>9. /\ IsFiniteSet(Strays(p) \union {owner[p]})
      /\ Cardinality(Strays(p) \union {owner[p]}) \in Nat
      /\ Cardinality(Strays(p) \union {owner[p]}) <= Cardinality(Strays(p)) + 1
  BY <1>8, FS_AddElement, FS_CardinalityType
<1>10. Cardinality(U \union {c}) <= Cardinality(Strays(p) \union {owner[p]})
  BY <1>3, <1>9, FS_Subset
<1>11. Cardinality(U) \in Nat
  BY <1>5, FS_CardinalityType
<1>12. faults \in Int
  BY BoundsAssumption DEF LogPart, TypeOK
<1>13. Cardinality(U) <= faults
  BY <1>7, <1>8, <1>9, <1>10, <1>11, <1>12
<1> QED BY <1>5, <1>13 DEF Calls, i, S, M

(* The books balance after every step: a notice is either of a recorded     *)
(* event, or in the hands of a call, or booked as given up.                *)
LEMMA BooksStep ==
    ASSUME LogPart, CallPart, BooksPart, [NotificationNext]_notificationVars
    PROVE  BooksPart'
<1> SUFFICES ASSUME NEW i \in Ids
             PROVE  /\ i \notin processed' => told'[i] <= unmarked'[i] + Calls(i, "sent")'
                    /\ told'[i] + Calls(i, "send")' <= 1 + unmarked'[i] + faults'
  BY DEF BooksPart, TellingsAreAccounted, NoticesAreBudgeted, Calls
<1> DEFINE sending == Calls(i, "send")
           marking == Calls(i, "sent")
           Balanced == /\ i \notin processed' => told'[i] <= unmarked'[i] + marking'
                       /\ told'[i] + sending' <= 1 + unmarked'[i] + faults'
<1>1. faults' \in {faults, faults + 1} /\ faults \in Int
  BY LogStep, FaultsGrow, BoundsAssumption DEF LogPart, TypeOK
<1>2. \A d \in Members : stage[d] # Idle => MessageID(d) \in Ids
  BY IdOfCall DEF CallPart, HoldsRecord, Steps
<1>3. \A d \in Members : stage[d] # Idle /\ stage'[d] # Idle => MessageID(d)' = MessageID(d)
  BY CallsStay
<1>4. /\ told[i] \in Nat /\ unmarked[i] \in Nat /\ sending \in Nat /\ marking \in Nat
      /\ i \notin processed => told[i] <= unmarked[i] + marking
      /\ told[i] + sending <= 1 + unmarked[i] + faults
  BY CallsAreFinite
     DEF CallPart, BooksPart, TellingsAreAccounted, NoticesAreBudgeted, Calls
<1>5. stage \in [Members -> {Idle, "send"} \union Marking]
  BY DEF CallPart
<1>6. Idle # "send" /\ Idle # "sent" /\ "send" # "sent"
  BY DEF Idle
<1>7. ASSUME NEW c \in Members, NEW s, stage' = [stage EXCEPT ![c] = s],
             \A d \in Members : stage'[d] # Idle => MessageID(d)' = MessageID(d)
      PROVE /\ sending' = IF MessageID(c) = i /\ s = "send" /\ stage[c] # "send"
                          THEN sending + 1
                          ELSE IF MessageID(c) = i /\ stage[c] = "send" /\ s # "send"
                               THEN sending - 1 ELSE sending
            /\ marking' = IF MessageID(c) = i /\ s = "sent" /\ stage[c] # "sent"
                          THEN marking + 1
                          ELSE IF MessageID(c) = i /\ stage[c] = "sent" /\ s # "sent"
                               THEN marking - 1 ELSE marking
  <2>1. sending' = IF MessageID(c) = i /\ s = "send" /\ stage[c] # "send"
                   THEN sending + 1
                   ELSE IF MessageID(c) = i /\ stage[c] = "send" /\ s # "send"
                        THEN sending - 1 ELSE sending
    BY <1>5, <1>6, <1>7, CallsMove
  <2>2. marking' = IF MessageID(c) = i /\ s = "sent" /\ stage[c] # "sent"
                   THEN marking + 1
                   ELSE IF MessageID(c) = i /\ stage[c] = "sent" /\ s # "sent"
                        THEN marking - 1 ELSE marking
    BY <1>5, <1>6, <1>7, CallsMove
  <2> QED BY <2>1, <2>2
<1>8. ASSUME UNCHANGED consumerVars
      PROVE  (\A d \in Members : MessageID(d)' = MessageID(d)) /\ faults' = faults
  BY <1>8 DEF consumerVars, brokerVars, memberVars, MessageID, MessageOf
<1>9. ASSUME UNCHANGED noticeVars PROVE Balanced
  <2>1. /\ InCall(i, "send")' = InCall(i, "send")
        /\ InCall(i, "sent")' = InCall(i, "sent")
    BY <1>3, <1>6, <1>9 DEF InCall, noticeVars
  <2>2. sending' = sending /\ marking' = marking
    BY <2>1 DEF Calls
  <2> HIDE DEF sending, marking
  <2> QED BY <1>1, <1>4, <1>9, <2>2 DEF noticeVars
<1>10. ASSUME NEW c \in Members, Accepts(c) PROVE Balanced
  <2>1. /\ stage' = [stage EXCEPT ![c] = "send"] /\ stage[c] = Idle
        /\ MessageID(c) \notin processed
        /\ UNCHANGED <<processed, told, unmarked, faults>>
    BY <1>8, <1>10 DEF Accepts
  <2>2. /\ sending' = IF MessageID(c) = i THEN sending + 1 ELSE sending
        /\ marking' = marking
    BY <1>6, <1>7, <1>8, <1>10, <2>1 DEF Accepts
  <2>3. MessageID(c) = i => sending + marking <= faults
    BY <1>10, CallsAreStrays DEF Accepts
  <2> HIDE DEF sending, marking
  <2> QED BY <1>1, <1>4, <2>1, <2>2, <2>3
<1>11. ASSUME NEW c \in Members, Tells(c) PROVE Balanced
  <2>1. /\ stage' = [stage EXCEPT ![c] = "sent"] /\ stage[c] = "send"
        /\ UNCHANGED <<processed, unmarked, faults>>
    BY <1>8, <1>11 DEF Tells
  <2>2. /\ sending' = IF MessageID(c) = i THEN sending - 1 ELSE sending
        /\ marking' = IF MessageID(c) = i THEN marking + 1 ELSE marking
    BY <1>6, <1>7, <1>8, <1>11, <2>1 DEF Tells
  <2>3. told'[i] = IF MessageID(c) = i THEN told[i] + 1 ELSE told[i]
    BY <1>11 DEF Tells, CallPart
  <2> HIDE DEF sending, marking
  <2>4. CASE MessageID(c) = i
    <3>1. told'[i] = told[i] + 1 /\ sending' = sending - 1 /\ marking' = marking + 1
      BY <2>2, <2>3, <2>4
    <3>2. unmarked'[i] = unmarked[i] /\ processed' = processed /\ faults' = faults
      BY <2>1
    <3> QED BY <1>1, <1>4, <3>1, <3>2
  <2>5. CASE MessageID(c) # i
    <3>1. told'[i] = told[i] /\ sending' = sending /\ marking' = marking
      BY <2>2, <2>3, <2>5
    <3>2. unmarked'[i] = unmarked[i] /\ processed' = processed /\ faults' = faults
      BY <2>1
    <3> QED BY <1>1, <1>4, <3>1, <3>2
  <2> QED BY <2>4, <2>5
<1>12. ASSUME NEW c \in Members, PassesOver(c) PROVE Balanced
  <2>1. /\ stage' = [stage EXCEPT ![c] = "unsent"] /\ stage[c] = "send"
        /\ UNCHANGED <<processed, told, unmarked, faults>>
    BY <1>8, <1>12 DEF PassesOver
  <2>2. sending' \in {sending, sending - 1} /\ marking' = marking
    BY <1>6, <1>7, <1>8, <1>12, <2>1 DEF PassesOver
  <2> HIDE DEF sending, marking
  <2>3. unmarked'[i] = unmarked[i] /\ told'[i] = told[i] /\ processed' = processed
        /\ faults' = faults
    BY <2>1
  <2>4. CASE sending' = sending
    BY <1>1, <1>4, <2>2, <2>3, <2>4
  <2>5. CASE sending' = sending - 1
    BY <1>1, <1>4, <2>2, <2>3, <2>5
  <2> QED BY <2>2, <2>4, <2>5
<1>13. ASSUME NEW c \in Members, Ends(c) PROVE Balanced
  <2>1. stage' = [stage EXCEPT ![c] = Idle] /\ UNCHANGED told
    BY <1>13 DEF Ends
  <2>2. \A d \in Members : stage'[d] # Idle => MessageID(d)' = MessageID(d)
    BY <1>3, <1>5, <2>1
  <2>3. /\ sending' \in {sending, sending - 1}
        /\ marking' = IF MessageID(c) = i /\ stage[c] = "sent" THEN marking - 1
                                                                  ELSE marking
    BY <1>6, <1>7, <2>1, <2>2
  <2>4. \/ stage[c] # "sent" /\ unmarked'[i] = unmarked[i]
           /\ (i \in processed => i \in processed')
        \/ MessageID(c) # i /\ unmarked'[i] = unmarked[i] /\ (i \in processed' <=> i \in processed)
        \/ /\ stage[c] = "sent" /\ MessageID(c) = i
           /\ \/ i \in processed' /\ unmarked'[i] = unmarked[i]
              \/ unmarked'[i] = unmarked[i] + 1 /\ (i \in processed => i \in processed')
    BY <1>13 DEF Ends, CallPart, Marking
  <2> HIDE DEF sending, marking
  <2>5. told'[i] = told[i]
    BY <2>1
  <2>6. marking' \in {marking, marking - 1}
    BY <2>3
  <2>7. \/ /\ marking' = marking
           /\ unmarked'[i] = unmarked[i] /\ (i \in processed => i \in processed')
        \/ i \in processed' /\ unmarked'[i] = unmarked[i]
        \/ unmarked'[i] = unmarked[i] + 1 /\ (i \in processed => i \in processed')
    BY <2>3, <2>4
  <2>8. sending' = sending \/ sending' = sending - 1
    BY <2>3
  <2>9. sending' \in Int /\ sending' <= sending
    <3>1. sending \in Int
      BY <1>4
    <3> QED BY <2>8, <3>1
  <2> QED BY <1>1, <1>4, <2>5, <2>6, <2>7, <2>9
<1> QED BY <1>9, <1>10, <1>11, <1>12, <1>13, StepKinds

-----------------------------------------------------------------------------
(* Nothing has been sent, recorded or fetched at first.                    *)
LEMMA NotificationInitInv == NotificationInit => NotificationInv
<1> SUFFICES ASSUME NotificationInit PROVE NotificationInv
  OBVIOUS
<1> USE DEF NotificationInit, ConsumerInit
<1>1. TypeOK
  BY InitInv DEF ConsumerInv
<1>2. \A p \in Partitions : Strays(p) = {} /\ log[p] = <<>>
  BY DEF Strays, HoldsRecord, Steps
<1>3. HeldIsInLog /\ EventsKeepPartition
  BY <1>2, BoundsAssumption DEF HeldIsInLog, EventsKeepPartition, HoldsRecord, Steps
<1>4. StraysNeedFaults
  <2>1. Cardinality({}) = 0 /\ faults = 0
    BY FS_EmptySet
  <2> HIDE DEF NotificationInit, ConsumerInit
  <2>2. \A p \in Partitions : Cardinality(Strays(p)) = 0
    BY <1>2, <2>1
  <2> QED BY <2>1, <2>2 DEF StraysNeedFaults
<1>5. HandledAreProcessed
  BY DEF HandledAreProcessed
<1>6. CallPart
  BY DEF CallPart, UntoldNeedsFailedSend, MarkingHasTried, Marking, Idle
<1>7. BooksPart
  <2>1. \A i, step : step # Idle => InCall(i, step) = {}
    BY DEF InCall
  <2>2. \A i : InCall(i, "send") = {} /\ InCall(i, "sent") = {}
    BY <2>1 DEF Idle
  <2>3. Cardinality({}) = 0
    BY FS_EmptySet
  <2>4. \A i \in Ids : told[i] = 0 /\ unmarked[i] = 0 /\ faults = 0
    OBVIOUS
  <2> HIDE DEF NotificationInit, ConsumerInit
  <2>5. \A i : Cardinality(InCall(i, "send")) = 0 /\ Cardinality(InCall(i, "sent")) = 0
    BY <2>2, <2>3
  <2> SUFFICES ASSUME NEW i \in Ids
               PROVE  /\ told[i] <= unmarked[i] + Cardinality(InCall(i, "sent"))
                      /\ told[i] + Cardinality(InCall(i, "send")) <= 1 + unmarked[i] + faults
    BY DEF BooksPart, TellingsAreAccounted, NoticesAreBudgeted
  <2> DEFINE sending == Cardinality(InCall(i, "send"))
             marking == Cardinality(InCall(i, "sent"))
  <2>6. told[i] = 0 /\ unmarked[i] = 0 /\ faults = 0 /\ sending = 0 /\ marking = 0
    BY <2>4, <2>5
  <2> HIDE DEF sending, marking
  <2>7. told[i] <= unmarked[i] + marking
    BY <2>6
  <2>8. told[i] + sending <= 1 + unmarked[i] + faults
    BY <2>6
  <2> QED BY <2>7, <2>8 DEF sending, marking
<1> QED BY <1>1, <1>3, <1>4, <1>5, <1>6, <1>7, InvParts DEF LogPart

(* The invariant is inductive.                                             *)
LEMMA NotificationInvStep ==
    NotificationInv /\ [NotificationNext]_notificationVars => NotificationInv'
<1> SUFFICES ASSUME NotificationInv, [NotificationNext]_notificationVars
             PROVE  NotificationInv'
  OBVIOUS
<1>1. LogPart /\ HandledAreProcessed /\ CallPart /\ BooksPart
  BY InvParts
<1>2. LogPart' /\ HandledAreProcessed' /\ CallPart' /\ BooksPart'
  BY <1>1, LogStep, HandledStep, CallStep, BooksStep
<1> QED BY <1>2 DEF NotificationInv, NotificationTypeOK, LogPart, CallPart, BooksPart

(* The inductive invariant of the notification group holds in every        *)
(* reachable state.                                                        *)
THEOREM NotificationInvariant == NotificationSpec => []NotificationInv
BY NotificationInitInv, NotificationInvStep, PTL DEF NotificationSpec

(* An event is recorded behind the user's back only by a call of           *)
(* go_clean_code whose own send failed, which that service means to do.    *)
THEOREM UntoldOnlyByFailedSend == NotificationSpec => []UntoldNeedsFailedSend
<1>1. NotificationInv => UntoldNeedsFailedSend
  BY DEF NotificationInv
<1> QED BY <1>1, NotificationInvariant, PTL

(* A group whose members all run the service of go_kafka, which returns    *)
(* the error of a send, has told the user about every event it recorded.   *)
THEOREM StrictGroupTellsAll ==
    ASSUME StrictMembers = Members
    PROVE  NotificationSpec => [](\A i \in processed : told[i] > 0)
<1>1. UntoldNeedsFailedSend => \A i \in processed : told[i] > 0
  BY DEF UntoldNeedsFailedSend
<1> QED BY <1>1, UntoldOnlyByFailedSend, PTL

(* However many members, redeliveries and duplicates there are, the user   *)
(* is told about an event at most once more than calls failed after        *)
(* telling and faults happened.                                            *)
THEOREM NoticesNeedReasons == NotificationSpec => []NoticesAreExplained
<1>1. ASSUME NotificationInv PROVE NoticesAreExplained
  <2>1. BooksPart /\ CallPart /\ LogPart
    BY <1>1, InvParts
  <2>2. ASSUME NEW i \in Ids PROVE told[i] <= 1 + unmarked[i] + faults
    <3>1. /\ told[i] \in Nat /\ unmarked[i] \in Nat
          /\ told[i] + Calls(i, "send") <= 1 + unmarked[i] + faults
      BY <2>1 DEF CallPart, BooksPart, NoticesAreBudgeted, Calls
    <3>2. Calls(i, "send") \in Nat
      BY CallsAreFinite
    <3>3. faults \in Int
      BY <2>1, BoundsAssumption DEF LogPart, TypeOK
    <3> QED BY <3>1, <3>2, <3>3
  <2> QED BY <2>2 DEF NoticesAreExplained
<1> QED BY <1>1, NotificationInvariant, PTL

(* A committed event is recorded as processed, unless it was dead lettered *)
(* or its dead letter publish returned an error.                           *)
THEOREM ConsumedWasRecorded == NotificationSpec => []ConsumedEventsAreProcessed
<1>1. NotificationInv /\ CommittedAreSettled => ConsumedEventsAreProcessed
  BY DEF NotificationInv, HandledAreProcessed, CommittedAreSettled, SettledBelow, Settled,
     ConsumedEventsAreProcessed
<1> QED BY <1>1, NotificationInvariant, NotificationSkipsNothing, PTL
=============================================================================
