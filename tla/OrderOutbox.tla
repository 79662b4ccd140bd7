---------------------------- MODULE OrderOutbox ----------------------------
(***************************************************************************)
(* The transactional outbox: OrderRepository.CreateWithOutbox stores an    *)
(* order and its event in one transaction, and relay processes move the    *)
(* events to Kafka.  A relay round (OutboxRepository.ProcessPending) is    *)
(* one database transaction that locks a batch of pending rows with FOR    *)
(* UPDATE SKIP LOCKED, publishes them one by one and marks them sent; what *)
(* it published stays published when the transaction is rolled back.       *)
(*                                                                         *)
(* There is one event per order, so an event is named by its order.        *)
(***************************************************************************)
EXTENDS Integers, FiniteSets

CONSTANTS
    Orders,       \* order ids, each made by one call of CreateWithOutbox
    Unroutable,   \* orders whose event type eventTypeToTopic does not know
    Relays,       \* outbox relay processes
    BatchSize,    \* Relay.batchSize
    MaxFaults     \* bound: failed publishes, statements and commits, crashes

ASSUME UnroutableOrders == Unroutable \subseteq Orders
ASSUME BatchAssumption == BatchSize \in Nat \ {0}
ASSUME FaultsAssumption == MaxFaults \in Nat

VARIABLES
    creating,   \* progress of the transaction that creates each order
    orders,     \* committed rows of table orders
    outbox,     \* committed status of each order's outbox event
    createdAt,  \* created_at of each event, 0 before it is inserted
    copies,     \* how many copies of each event the topic holds
    rpc,        \* where each relay is in Start and ProcessPending
    locked,     \* rows each relay's transaction has locked
    batch,      \* events still to be handled in each relay's round
    marked,     \* rows marked sent in each relay's transaction
    faults      \* how many faults have happened

createVars == <<creating, orders, createdAt>>
relayVars == <<rpc, locked, batch, marked>>
outboxVars == <<createVars, outbox, copies, relayVars, faults>>

Fault == faults < MaxFaults /\ faults' = faults + 1

OutboxInit ==
    /\ creating = [o \in Orders |-> "none"]
    /\ orders = {}
    /\ outbox = [o \in Orders |-> "none"]
    /\ createdAt = [o \in Orders |-> 0]
    /\ copies = [o \in Orders |-> 0]
    /\ rpc = [r \in Relays |-> "stopped"]
    /\ locked = [r \in Relays |-> {}]
    /\ batch = [r \in Relays |-> {}]
    /\ marked = [r \in Relays |-> {}]
    /\ faults = 0

-----------------------------------------------------------------------------
(* CreateWithOutbox, one transaction.                                      *)

\* Mutant: the order is inserted outside the transaction.
InsertOrderAutocommit(o) ==
    /\ creating[o] = "none"
    /\ creating' = [creating EXCEPT ![o] = "order"]
    /\ orders' = orders \union {o}
    /\ UNCHANGED <<createdAt, outbox, copies, relayVars, faults>>

InsertOrder(o) ==
    /\ creating[o] = "none"
    /\ creating' = [creating EXCEPT ![o] = "order"]
    /\ UNCHANGED <<orders, createdAt, outbox, copies, relayVars, faults>>

\* The next timestamp; no two events get the same.
Latest(t) ==
    /\ \A n \in Orders : createdAt[n] < t
    /\ t = 1 \/ \E n \in Orders : createdAt[n] = t - 1

\* Mutant: the event is also published directly, before the commit.
InsertEventAndPublish(o) ==
    /\ creating[o] = "order"
    /\ creating' = [creating EXCEPT ![o] = "event"]
    /\ copies' = [copies EXCEPT ![o] = 1]
    /\ \E t \in 1 .. Cardinality(Orders) : Latest(t) /\ createdAt' = [createdAt EXCEPT ![o] = t]
    /\ UNCHANGED <<orders, outbox, relayVars, faults>>

\* The row gets its created_at here and becomes visible with the commit.
InsertEvent(o) ==
    /\ creating[o] = "order"
    /\ creating' = [creating EXCEPT ![o] = "event"]
    /\ \E t \in 1 .. Cardinality(Orders) : Latest(t) /\ createdAt' = [createdAt EXCEPT ![o] = t]
    /\ UNCHANGED <<orders, outbox, copies, relayVars, faults>>

CommitCreate(o) ==
    /\ creating[o] = "event"
    /\ creating' = [creating EXCEPT ![o] = "done"]
    /\ orders' = orders \union {o}
    /\ outbox' = [outbox EXCEPT ![o] = "pending"]
    /\ UNCHANGED <<createdAt, copies, relayVars, faults>>

\* An insert fails, the request is cancelled or the process dies: rollback.
AbortCreate(o) ==
    /\ creating[o] \in {"order", "event"}
    /\ creating' = [creating EXCEPT ![o] = "aborted"]
    /\ UNCHANGED <<orders, createdAt, outbox, copies, relayVars, faults>>

CreateWithOutbox(o) ==
    InsertOrder(o) \/ InsertEvent(o) \/ CommitCreate(o) \/ AbortCreate(o)

-----------------------------------------------------------------------------
(* A relay.                                                                *)

StartRelay(r) ==
    /\ rpc[r] = "stopped"
    /\ rpc' = [rpc EXCEPT ![r] = "waiting"]
    /\ UNCHANGED <<createVars, outbox, copies, locked, batch, marked, faults>>

\* Mutant: the rows are read without SKIP LOCKED.
PendingRows == {o \in Orders : outbox[o] = "pending"}

\* The pending rows no transaction has locked.
Claimable == {o \in Orders : outbox[o] = "pending" /\ \A s \in Relays : o \notin locked[s]}

\* The tick: SELECT ... FOR UPDATE SKIP LOCKED ORDER BY created_at LIMIT BatchSize.
ClaimBatch(r) ==
    /\ rpc[r] = "waiting"
    /\ \E rows \in (SUBSET Claimable) \ {{}} :
        /\ \A o \in rows, n \in Claimable \ rows : createdAt[o] < createdAt[n]
        /\ Cardinality(rows) <= BatchSize
        /\ rows = Claimable \/ Cardinality(rows) = BatchSize
        /\ batch' = [batch EXCEPT ![r] = rows]
        /\ locked' = [locked EXCEPT ![r] = rows]
    /\ rpc' = [rpc EXCEPT ![r] = "publishing"]
    /\ UNCHANGED <<createVars, outbox, copies, marked, faults>>

\* The loop over the batch is at its oldest event.
IsNext(r, o) == o \in batch[r] /\ \A n \in batch[r] : createdAt[o] <= createdAt[n]

\* Producer.PublishEvent is acknowledged.
PublishEvent(r, o) ==
    /\ rpc[r] = "publishing"
    /\ IsNext(r, o)
    /\ o \notin Unroutable
    /\ copies' = [copies EXCEPT ![o] = @ + 1]
    /\ rpc' = [rpc EXCEPT ![r] = "marking"]
    /\ UNCHANGED <<createVars, outbox, locked, batch, marked, faults>>

\* eventTypeToTopic knows no topic.
EventHasNoTopic(r, o) ==
    /\ rpc[r] = "publishing"
    /\ IsNext(r, o)
    /\ o \in Unroutable
    /\ rpc' = [rpc EXCEPT ![r] = "counting"]
    /\ UNCHANGED <<createVars, outbox, copies, locked, batch, marked, faults>>

\* Mutant: the error of PublishEvent is only logged.
PublishFailsUnnoticed(r, o) ==
    /\ rpc[r] = "publishing"
    /\ IsNext(r, o)
    /\ o \notin Unroutable
    /\ Fault
    /\ rpc' = [rpc EXCEPT ![r] = "marking"]
    /\ UNCHANGED <<createVars, outbox, copies, locked, batch, marked>>

\* Producer.PublishEvent returns an error, whether or not the event was written.
PublishFails(r, o) ==
    /\ rpc[r] = "publishing"
    /\ IsNext(r, o)
    /\ o \notin Unroutable
    /\ Fault
    /\ copies' \in {copies, [copies EXCEPT ![o] = @ + 1]}
    /\ rpc' = [rpc EXCEPT ![r] = "counting"]
    /\ UNCHANGED <<createVars, outbox, locked, batch, marked>>

\* The writer sends the event again, within MaxAttempts, because the answer to an
\* attempt that had written it was lost.
PublishRetries(r, o) ==
    /\ rpc[r] = "publishing"
    /\ IsNext(r, o)
    /\ o \notin Unroutable
    /\ Fault
    /\ copies' = [copies EXCEPT ![o] = @ + 1]
    /\ UNCHANGED <<createVars, outbox, relayVars>>

\* The loop over the batch goes on, or ends and the transaction commits.
NextEvent(r, o) ==
    /\ IsNext(r, o)
    /\ batch' = [batch EXCEPT ![r] = @ \ {o}]
    /\ rpc' = [rpc EXCEPT ![r] = IF batch[r] = {o} THEN "committing" ELSE "publishing"]
    /\ UNCHANGED <<createVars, outbox, copies, locked, faults>>

\* UPDATE status = sent, in the transaction.
MarkSent(r, o) ==
    /\ rpc[r] = "marking"
    /\ marked' = [marked EXCEPT ![r] = @ \union {o}]
    /\ NextEvent(r, o)

\* UPDATE retry_count = retry_count + 1, which nothing reads: the row stays pending.
IncrementRetryCount(r, o) ==
    /\ rpc[r] = "counting"
    /\ NextEvent(r, o)
    /\ UNCHANGED marked

\* Mutant: the list of sent rows outlives the transaction.
EndTransactionKeepsMarks(r, next) ==
    /\ rpc' = [rpc EXCEPT ![r] = next]
    /\ locked' = [locked EXCEPT ![r] = {}]
    /\ batch' = [batch EXCEPT ![r] = {}]
    /\ UNCHANGED <<createVars, copies, marked>>

\* The transaction is over and its row locks are released.
EndTransaction(r, next) ==
    /\ rpc' = [rpc EXCEPT ![r] = next]
    /\ locked' = [locked EXCEPT ![r] = {}]
    /\ batch' = [batch EXCEPT ![r] = {}]
    /\ marked' = [marked EXCEPT ![r] = {}]
    /\ UNCHANGED <<createVars, copies>>

CommitRound(r) ==
    /\ rpc[r] = "committing"
    /\ outbox' = [o \in Orders |-> IF o \in marked[r] THEN "sent" ELSE outbox[o]]
    /\ EndTransaction(r, "waiting")
    /\ UNCHANGED faults

\* A statement or the commit fails: ProcessPending returns the error and every
\* mark of the round is rolled back.  Start logs it and waits for the next tick.
RollbackRound(r) ==
    /\ rpc[r] \in {"marking", "counting", "committing"}
    /\ Fault
    /\ EndTransaction(r, "waiting")
    /\ UNCHANGED outbox

\* Mutant: a claim outlives the relay that made it.
StopRelayHoldingLocks(r) ==
    /\ rpc[r] # "stopped"
    /\ Fault
    /\ rpc' = [rpc EXCEPT ![r] = "stopped"]
    /\ UNCHANGED <<createVars, outbox, copies, locked, batch, marked>>

\* SIGTERM or a crash; what the round has published stays in the topic.
StopRelay(r) ==
    /\ rpc[r] # "stopped"
    /\ Fault
    /\ EndTransaction(r, "stopped")
    /\ UNCHANGED outbox

\* One tick of Relay.Start.
ProcessOnce(r) ==
    \/ ClaimBatch(r) \/ CommitRound(r) \/ RollbackRound(r)
    \/ \E o \in Orders :
        \/ PublishEvent(r, o) \/ EventHasNoTopic(r, o)
        \/ PublishFails(r, o) \/ PublishRetries(r, o)
        \/ MarkSent(r, o) \/ IncrementRetryCount(r, o)

OutboxNext ==
    \/ \E o \in Orders : CreateWithOutbox(o)
    \/ \E r \in Relays : StartRelay(r) \/ ProcessOnce(r) \/ StopRelay(r)

OutboxSpec == OutboxInit /\ [][OutboxNext]_outboxVars

\* The ticker keeps firing, a round goes on and a stopped relay is started again.
FairOutboxSpec ==
    /\ OutboxSpec
    /\ \A r \in Relays : WF_outboxVars(ProcessOnce(r)) /\ WF_outboxVars(StartRelay(r))

-----------------------------------------------------------------------------
(* Properties.                                                             *)

OutboxTypeOK ==
    /\ creating \in [Orders -> {"none", "order", "event", "done", "aborted"}]
    /\ orders \subseteq Orders
    /\ outbox \in [Orders -> {"none", "pending", "sent"}]
    /\ createdAt \in [Orders -> Nat]
    /\ copies \in [Orders -> Nat]
    /\ rpc \in [Relays -> {"stopped", "waiting", "publishing", "marking", "counting",
                           "committing"}]
    /\ locked \in [Relays -> SUBSET Orders]
    /\ batch \in [Relays -> SUBSET Orders]
    /\ marked \in [Relays -> SUBSET Orders]
    /\ faults \in 0 .. MaxFaults
    /\ \A r \in Relays :
        /\ batch[r] \subseteq locked[r]
        /\ marked[r] \subseteq locked[r] \ batch[r]
        /\ locked[r] # {} => rpc[r] \notin {"stopped", "waiting"}
        /\ rpc[r] \in {"stopped", "waiting", "committing"} <=> batch[r] = {}

\* An order and its event are stored together or not at all, whatever step of the
\* transaction fails.
OrderIffEvent == \A o \in Orders : o \in orders <=> outbox[o] # "none"

\* outbox_repo.go:27-28: SKIP LOCKED keeps two relays from handling one event at a time.
ClaimsAreDisjoint ==
    \A r, s \in Relays : r # s => locked[r] \intersect locked[s] = {}

\* A row reads "sent" only if its event is in the topic, and no relay is about to
\* mark it otherwise: a rollback or a crash can cause copies, never a loss.
SentIsPublished ==
    \A o \in Orders :
        outbox[o] = "sent" \/ (\E r \in Relays : o \in marked[r]) => copies[o] > 0

\* Every copy beyond the first is paid for by a fault: relays working side by side
\* cause no duplicate by themselves.
CopiesNeedFaults ==
    \A o \in Orders : copies[o] <= 1 + faults

\* The rest of the inductive invariant.  Rows carry distinct timestamps and exist
\* once their transaction is over...
RowsAreOrdered ==
    /\ \A o \in Orders :
        /\ creating[o] = "done" <=> outbox[o] # "none"
        /\ creating[o] \in {"event", "done"} => createdAt[o] > 0
    /\ \A o, n \in Orders : createdAt[o] = createdAt[n] /\ createdAt[o] > 0 => o = n

\* ... what a relay has locked is pending, and what it is about to mark published.
ClaimsArePending == \A r \in Relays : \A o \in locked[r] : outbox[o] = "pending"

Marking(r, o) == rpc[r] = "marking" /\ IsNext(r, o)

MarkingIsPublished ==
    \A r \in Relays, o \in Orders : Marking(r, o) => copies[o] > 0

\* An event that is still to be published has no copy that no fault explains.
CopyBudget ==
    \A o \in Orders :
        \/ copies[o] <= faults
        \/ copies[o] = 1 + faults /\ \/ outbox[o] = "sent"
                                     \/ \E r \in Relays : o \in marked[r] \/ Marking(r, o)

OutboxInv ==
    /\ OutboxTypeOK /\ OrderIffEvent /\ ClaimsAreDisjoint /\ SentIsPublished
    /\ RowsAreOrdered /\ ClaimsArePending /\ MarkingIsPublished /\ CopyBudget

\* The outbox keeps the promise of Announcements.
Promise == INSTANCE Announcements WITH
    stored <- orders,
    announced <- {o \in Orders : copies[o] > 0}

AnnouncesStoredOrders == Promise!FairAnnouncementsSpec

\* Rows do not stay pending: the relays catch up with every event that has a topic,
\* if fewer than BatchSize events have none.
OutboxDrains ==
    \A o \in Orders \ Unroutable : outbox[o] = "pending" ~> outbox[o] = "sent"
=============================================================================
