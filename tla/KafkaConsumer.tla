--------------------------- MODULE KafkaConsumer ---------------------------
(***************************************************************************)
(* The consumer group of internal/kafka/consumer.go: processes ("members") *)
(* that run Consumer.Consume over the partitions of one topic.  A member   *)
(* fetches one record, hands it to its handler up to MaxRetry times with a *)
(* pause in between, publishes it to the dead letter topic when every      *)
(* attempt failed, and only then commits the offset.                       *)
(*                                                                         *)
(* The broker and the reader of segmentio/kafka-go are external.  What the *)
(* code relies on is modelled: FetchMessage advances the reader's own      *)
(* position whatever is committed; CommitMessages overwrites the group's   *)
(* offset; a rebalance moves a partition and restarts its new owner at the *)
(* committed offset, without interrupting a handler that is in flight.     *)
(***************************************************************************)
EXTENDS Integers, Sequences, FiniteSets

CONSTANTS
    Members,      \* processes of the consumer group
    Partitions,   \* partitions of the consumed topic
    Messages,     \* payloads a record can carry
    NoMember,     \* owner of a partition that is assigned to nobody
    MaxRetry,     \* Consumer.maxRetry: attempts per fetched record
    DlqMayFail,   \* whether the dead letter publish can fail on its own
    MaxLog,       \* bound: records per partition
    MaxFaults     \* bound: rebalances, signals, crashes and broker errors

ASSUME MembersAssumption == NoMember \notin Members
ASSUME GroupAssumption == IsFiniteSet(Members)
ASSUME MaxRetryAssumption == MaxRetry \in Nat \ {0}
ASSUME BoundsAssumption == MaxLog \in Nat /\ MaxFaults \in Nat
ASSUME DlqAssumption == DlqMayFail \in BOOLEAN

VARIABLES
    log,        \* the topic: a sequence of messages per partition
    committed,  \* the group's committed offset of each partition
    owner,      \* the member each partition is assigned to
    position,   \* next offset the owner's reader returns
    pc,         \* where each member is in Consume
    current,    \* record in the member's hands, as <<partition, offset>>
    attempt,    \* loop variable of processWithRetry
    cancelled,  \* the member's ctx has been cancelled
    dlq,        \* records published to the dead letter topic
    handled,    \* history: records whose handler returned nil
    lost,       \* history: records whose dead letter publish returned an error
    faults      \* how many faults have happened

brokerVars == <<log, committed, owner, position>>
memberVars == <<pc, current, attempt, cancelled>>
consumerVars == <<brokerVars, memberVars, dlq, handled, lost, faults>>

NoRecord == <<>>
Records == Partitions \X Nat
Steps == {"stopped", "fetching", "handling", "backoff", "dlq", "commit"}
HoldsRecord == Steps \ {"stopped", "fetching"}

\* The event the handler of a member is called with.
MessageOf(c) == log[current[c][1]][current[c][2] + 1]

Fault == faults < MaxFaults /\ faults' = faults + 1

ConsumerInit ==
    /\ log = [p \in Partitions |-> <<>>]
    /\ committed = [p \in Partitions |-> 0]
    /\ owner = [p \in Partitions |-> NoMember]
    /\ position = [p \in Partitions |-> 0]
    /\ pc = [c \in Members |-> "stopped"]
    /\ current = [c \in Members |-> NoRecord]
    /\ attempt = [c \in Members |-> 0]
    /\ cancelled = [c \in Members |-> FALSE]
    /\ dlq = {}
    /\ handled = {}
    /\ lost = {}
    /\ faults = 0

-----------------------------------------------------------------------------
(* The broker.                                                             *)

\* A producer appends a record to a partition.
Produce(p, m) ==
    /\ Len(log[p]) < MaxLog
    /\ log' = [log EXCEPT ![p] = Append(@, m)]
    /\ UNCHANGED <<committed, owner, position, memberVars, dlq, handled, lost, faults>>

\* The coordinator gives a partition to a member of the group, whose reader
\* starts at the committed offset.
Assign(p, c) ==
    /\ pc[c] # "stopped"
    /\ owner[p] # c
    /\ owner' = [owner EXCEPT ![p] = c]
    /\ position' = [position EXCEPT ![p] = committed[p]]
    /\ UNCHANGED <<log, committed, memberVars, dlq, handled, lost>>

AssignOrphan(p, c) == owner[p] = NoMember /\ Assign(p, c) /\ UNCHANGED faults
Rebalance(p, c) == owner[p] # NoMember /\ Assign(p, c) /\ Fault

\* Mutant: the reader is never closed and keeps its partitions.
ReleaseNothing(c) == UNCHANGED owner

\* The partitions of a member that leaves the group belong to nobody.
Release(c) == owner' = [p \in Partitions |-> IF owner[p] = c THEN NoMember ELSE owner[p]]

-----------------------------------------------------------------------------
(* A member.                                                               *)

\* The process starts: NewConsumer, then Consume with a fresh context.
Start(c) ==
    /\ pc[c] = "stopped"
    /\ pc' = [pc EXCEPT ![c] = "fetching"]
    /\ cancelled' = [cancelled EXCEPT ![c] = FALSE]
    /\ UNCHANGED <<brokerVars, current, attempt, dlq, handled, lost, faults>>

\* FetchMessage returns the next record of an assigned partition; it may do so
\* even when ctx is already cancelled.  processWithRetry starts at attempt 1.
Fetch(c) ==
    /\ pc[c] = "fetching"
    /\ \E p \in Partitions :
        /\ owner[p] = c
        /\ position[p] < Len(log[p])
        /\ current' = [current EXCEPT ![c] = <<p, position[p]>>]
        /\ position' = [position EXCEPT ![p] = @ + 1]
    /\ pc' = [pc EXCEPT ![c] = "handling"]
    /\ attempt' = [attempt EXCEPT ![c] = 1]
    /\ UNCHANGED <<log, committed, owner, cancelled, dlq, handled, lost, faults>>

\* FetchMessage returns context.Canceled, Consume returns and the reader leaves
\* the group.
FetchStops(c) ==
    /\ pc[c] = "fetching"
    /\ cancelled[c]
    /\ pc' = [pc EXCEPT ![c] = "stopped"]
    /\ Release(c)
    /\ UNCHANGED <<log, committed, position, current, attempt, cancelled,
                   dlq, handled, lost, faults>>

\* The handler returns nil.  Every handler does its work through ctx, so none
\* succeeds once ctx is cancelled.
HandlerSucceeds(c) ==
    /\ pc[c] = "handling"
    /\ ~cancelled[c]
    /\ handled' = handled \union {current[c]}
    /\ pc' = [pc EXCEPT ![c] = "commit"]
    /\ UNCHANGED <<brokerVars, current, attempt, cancelled, dlq, lost, faults>>

\* Mutant: off by one, `attempt <= c.maxRetry` guards the pause.
HandlerFailsOnceMore(c) ==
    /\ pc[c] = "handling"
    /\ pc' = [pc EXCEPT ![c] = IF attempt[c] <= MaxRetry THEN "backoff" ELSE "dlq"]
    /\ UNCHANGED <<brokerVars, current, attempt, cancelled, dlq, handled, lost, faults>>

\* The handler returns an error: pause before the next attempt, or give up
\* without a pause after the last.
HandlerFails(c) ==
    /\ pc[c] = "handling"
    /\ pc' = [pc EXCEPT ![c] = IF attempt[c] < MaxRetry THEN "backoff" ELSE "dlq"]
    /\ UNCHANGED <<brokerVars, current, attempt, cancelled, dlq, handled, lost, faults>>

\* The record is dropped from the member's hands and the loop continues.
NextRecord(c) ==
    /\ pc' = [pc EXCEPT ![c] = "fetching"]
    /\ current' = [current EXCEPT ![c] = NoRecord]
    /\ attempt' = [attempt EXCEPT ![c] = 0]
    /\ UNCHANGED cancelled

\* The timer of sleepWithContext fires (it may win against a cancelled ctx).
BackoffElapses(c) ==
    /\ pc[c] = "backoff"
    /\ pc' = [pc EXCEPT ![c] = "handling"]
    /\ attempt' = [attempt EXCEPT ![c] = @ + 1]
    /\ UNCHANGED <<brokerVars, current, cancelled, dlq, handled, lost, faults>>

\* Mutant: processWithRetry returns nil when the pause is cut short.
BackoffCancelledCommits(c) ==
    /\ pc[c] = "backoff"
    /\ cancelled[c]
    /\ pc' = [pc EXCEPT ![c] = "commit"]
    /\ UNCHANGED <<brokerVars, current, attempt, cancelled, dlq, handled, lost, faults>>

\* sleepWithContext returns ctx.Err(): the offset is not committed.
BackoffCancelled(c) ==
    /\ pc[c] = "backoff"
    /\ cancelled[c]
    /\ NextRecord(c)
    /\ UNCHANGED <<brokerVars, dlq, handled, lost, faults>>

SendToDLQ(c) ==
    /\ pc[c] = "dlq"
    /\ ~cancelled[c]
    /\ dlq' = dlq \union {current[c]}
    /\ pc' = [pc EXCEPT ![c] = "commit"]
    /\ UNCHANGED <<brokerVars, current, attempt, cancelled, handled, lost, faults>>

\* The dead letter publish returns an error, whether or not the record was
\* written.  The offset is not committed and the loop goes on.
DLQUnsent(c) ==
    /\ pc[c] = "dlq"
    /\ dlq' \in {dlq, dlq \union {current[c]}}
    /\ NextRecord(c)
    /\ UNCHANGED <<brokerVars, handled>>

DLQCancelled(c) == cancelled[c] /\ DLQUnsent(c) /\ UNCHANGED <<lost, faults>>

DLQFails(c) ==
    /\ DlqMayFail
    /\ Fault
    /\ lost' = lost \union {current[c]}
    /\ DLQUnsent(c)

\* CommitMessages stores offset + 1; it can still get through when ctx is
\* cancelled, and when the partition has moved to another member.
CommitSucceeds(c) ==
    /\ pc[c] = "commit"
    /\ committed' = [committed EXCEPT ![current[c][1]] = current[c][2] + 1]
    /\ NextRecord(c)
    /\ UNCHANGED <<log, owner, position, dlq, handled, lost, faults>>

\* CommitMessages returns an error, which Consume only logs.
CommitFails(c) ==
    /\ pc[c] = "commit"
    /\ IF cancelled[c] THEN UNCHANGED faults ELSE Fault
    /\ NextRecord(c)
    /\ UNCHANGED <<brokerVars, dlq, handled, lost>>

\* SIGTERM: main cancels ctx.
Cancel(c) ==
    /\ pc[c] # "stopped"
    /\ ~cancelled[c]
    /\ Fault
    /\ cancelled' = [cancelled EXCEPT ![c] = TRUE]
    /\ UNCHANGED <<brokerVars, pc, current, attempt, dlq, handled, lost>>

\* The process dies at any step.
Crash(c) ==
    /\ pc[c] # "stopped"
    /\ Fault
    /\ pc' = [pc EXCEPT ![c] = "stopped"]
    /\ current' = [current EXCEPT ![c] = NoRecord]
    /\ attempt' = [attempt EXCEPT ![c] = 0]
    /\ Release(c)
    /\ UNCHANGED <<log, committed, position, cancelled, dlq, handled, lost>>

-----------------------------------------------------------------------------
HandlerReturns(c) == HandlerSucceeds(c) \/ HandlerFails(c)

\* The steps of Consume and processWithRetry outside the handler.
LoopStep(c) ==
    \/ Fetch(c) \/ FetchStops(c)
    \/ BackoffElapses(c) \/ BackoffCancelled(c)
    \/ SendToDLQ(c) \/ DLQCancelled(c) \/ DLQFails(c)
    \/ CommitSucceeds(c) \/ CommitFails(c)

Environment ==
    \/ \E p \in Partitions, c \in Members : AssignOrphan(p, c) \/ Rebalance(p, c)
    \/ \E c \in Members : Start(c) \/ Cancel(c) \/ Crash(c)

ConsumerNext ==
    \/ \E p \in Partitions, m \in Messages : Produce(p, m)
    \/ Environment
    \/ \E c \in Members : HandlerReturns(c) \/ LoopStep(c)

ConsumerSpec == ConsumerInit /\ [][ConsumerNext]_consumerVars

\* A running process keeps going, a handler returns, a stopped member is started
\* again and the coordinator assigns what nobody owns.
ConsumerFairness ==
    /\ \A c \in Members :
        /\ WF_consumerVars(HandlerReturns(c))
        /\ WF_consumerVars(LoopStep(c))
        /\ WF_consumerVars(Start(c))
    /\ \A p \in Partitions :
        WF_consumerVars(\E c \in Members : AssignOrphan(p, c))

FairConsumerSpec == ConsumerSpec /\ ConsumerFairness

-----------------------------------------------------------------------------
(* Properties.                                                             *)

TypeOK ==
    /\ log \in [Partitions -> Seq(Messages)]
    /\ committed \in [Partitions -> Nat]
    /\ owner \in [Partitions -> Members \union {NoMember}]
    /\ position \in [Partitions -> Nat]
    /\ pc \in [Members -> Steps]
    /\ current \in [Members -> Records \union {NoRecord}]
    /\ attempt \in [Members -> 0 .. MaxRetry]
    /\ cancelled \in [Members -> BOOLEAN]
    /\ dlq \in SUBSET Records
    /\ handled \in SUBSET Records
    /\ lost \in SUBSET Records
    /\ faults \in 0 .. MaxFaults
    /\ \A c \in Members :
        /\ IF pc[c] \in HoldsRecord THEN current[c] \in Records ELSE current[c] = NoRecord
        /\ pc[c] = "backoff" => attempt[c] < MaxRetry

\* What a member holds is in the log.
HeldIsInLog ==
    \A c \in Members :
        pc[c] \in HoldsRecord => current[c][2] < Len(log[current[c][1]])

\* Members that hold a record of a partition they no longer own.
Strays(p) ==
    {c \in Members : pc[c] \in HoldsRecord /\ current[c][1] = p /\ owner[p] # c}

\* Each of them lost the partition to a fault of its own.
StraysNeedFaults == \A p \in Partitions : Cardinality(Strays(p)) <= faults

Settled == handled \union dlq \union lost

SettledBelow(p, o) == \A i \in 0 .. o - 1 : <<p, i>> \in Settled

\* Every record below the committed offset was handled, or sits in the dead
\* letter topic, or had its dead letter publish fail while the member was alive:
\* rebalances, signals, crashes and failed commits never skip a record.
CommittedAreSettled == \A p \in Partitions : SettledBelow(p, committed[p])

\* With a dead letter topic that accepts every record nothing is skipped at all.
NothingLostWithoutDlqFailure ==
    ~DlqMayFail =>
        \A p \in Partitions : \A i \in 0 .. committed[p] - 1 :
            <<p, i>> \in handled \union dlq

\* The rest of the inductive invariant.  A member that may still commit the
\* record it holds has skipped nothing below it...
HeldInOrder ==
    \A c \in Members :
        pc[c] \in HoldsRecord /\ (~cancelled[c] \/ pc[c] = "commit")
            => SettledBelow(current[c][1], current[c][2])

\* ... what it is about to commit is settled ...
CommitIsSettled == \A c \in Members : pc[c] = "commit" => current[c] \in Settled

\* ... and its reader has passed over nothing but the record it holds.  Only a
\* member whose ctx is cancelled drops a record and fetches on.
ReaderSkipsNothing ==
    \A p \in Partitions, c \in Members :
        owner[p] = c /\ ~cancelled[c] =>
            \A i \in 0 .. position[p] - 1 :
                <<p, i>> \in Settled \/ current[c] = <<p, i>>

OwnersRun ==
    \A p \in Partitions, c \in Members : owner[p] = c => pc[c] # "stopped"

ConsumerInv ==
    /\ TypeOK
    /\ CommittedAreSettled
    /\ HeldInOrder
    /\ CommitIsSettled
    /\ ReaderSkipsNothing
    /\ OwnersRun
    /\ ~DlqMayFail => lost = {}

\* Every record is in the end handled or dead lettered, unless its dead letter
\* publish returned an error, whatever signals, crashes and rebalances happen.
EveryRecordSettles ==
    \A p \in Partitions : \A o \in 0 .. MaxLog - 1 :
        (o < Len(log[p])) ~> (<<p, o>> \in Settled)

\* consumer.go:87-88 and go_clean_code/README.md:352 say that a record whose dead letter
\* publish failed is processed again because its offset is not committed.
FailedRecordIsKept ==
    \A r \in lost : committed[r[1]] > r[2] => r \in handled \union dlq
=============================================================================
