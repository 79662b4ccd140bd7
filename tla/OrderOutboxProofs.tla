------------------------- MODULE OrderOutboxProofs -------------------------
(***************************************************************************)
(* The outbox for every set of orders and relays, every batch size and     *)
(* every number of faults.                                                 *)
(***************************************************************************)
EXTENDS OrderOutbox, TLAPS

(* The invariant holds before the first order.                             *)
LEMMA OutboxInitInv == OutboxInit => OutboxInv
BY FaultsAssumption
   DEF OutboxInit, OutboxInv, OutboxTypeOK, OrderIffEvent, ClaimsAreDisjoint, SentIsPublished,
       RowsAreOrdered, ClaimsArePending, MarkingIsPublished, Marking, CopyBudget

(* Inserting the order row in its transaction keeps the invariant.         *)
LEMMA InsertOrderStep ==
  ASSUME OutboxInv, NEW o \in Orders, InsertOrder(o)
  PROVE  OutboxInv'
<1> USE FaultsAssumption DEF OutboxInv, OutboxTypeOK, createVars, relayVars, InsertOrder
<1>1. OutboxTypeOK'
  BY DEF OrderIffEvent, ClaimsArePending, IsNext
<1>2. OrderIffEvent'
  BY DEF OrderIffEvent, RowsAreOrdered, ClaimsArePending, ClaimsAreDisjoint
<1>3. ClaimsAreDisjoint'
  BY DEF ClaimsAreDisjoint
<1>4. SentIsPublished'
  BY DEF SentIsPublished, RowsAreOrdered, ClaimsArePending, MarkingIsPublished, Marking, IsNext
<1>5. RowsAreOrdered'
  BY DEF RowsAreOrdered, ClaimsArePending, OrderIffEvent, ClaimsAreDisjoint
<1>6. ClaimsArePending'
  BY DEF ClaimsArePending, RowsAreOrdered, OrderIffEvent, ClaimsAreDisjoint
<1>7. MarkingIsPublished'
  BY DEF MarkingIsPublished, Marking, IsNext, RowsAreOrdered, ClaimsArePending
<1>8. CopyBudget'
  BY DEF CopyBudget, Marking, IsNext, ClaimsAreDisjoint, ClaimsArePending, RowsAreOrdered
<1> QED BY <1>1, <1>2, <1>3, <1>4, <1>5, <1>6, <1>7, <1>8

(* So does inserting the event row, which takes the next timestamp.        *)
LEMMA InsertEventStep ==
  ASSUME OutboxInv, NEW o \in Orders, InsertEvent(o)
  PROVE  OutboxInv'
<1> USE FaultsAssumption DEF OutboxInv, OutboxTypeOK, createVars, relayVars, InsertEvent, Latest
<1>1. OutboxTypeOK'
  BY DEF OrderIffEvent, ClaimsArePending, IsNext
<1>2. OrderIffEvent'
  BY DEF OrderIffEvent, RowsAreOrdered, ClaimsArePending, ClaimsAreDisjoint
<1>3. ClaimsAreDisjoint'
  BY DEF ClaimsAreDisjoint
<1>4. SentIsPublished'
  BY DEF SentIsPublished, RowsAreOrdered, ClaimsArePending, MarkingIsPublished, Marking, IsNext
<1>5. RowsAreOrdered'
  BY DEF RowsAreOrdered, ClaimsArePending, OrderIffEvent, ClaimsAreDisjoint
<1>6. ClaimsArePending'
  BY DEF ClaimsArePending, RowsAreOrdered, OrderIffEvent, ClaimsAreDisjoint
<1>7. MarkingIsPublished'
  BY DEF MarkingIsPublished, Marking, IsNext, RowsAreOrdered, ClaimsArePending
<1>8. CopyBudget'
  BY DEF CopyBudget, Marking, IsNext, ClaimsAreDisjoint, ClaimsArePending, RowsAreOrdered
<1> QED BY <1>1, <1>2, <1>3, <1>4, <1>5, <1>6, <1>7, <1>8

(* The commit makes both rows visible at once.                             *)
LEMMA CommitCreateStep ==
  ASSUME OutboxInv, NEW o \in Orders, CommitCreate(o)
  PROVE  OutboxInv'
<1> USE FaultsAssumption DEF OutboxInv, OutboxTypeOK, createVars, relayVars, CommitCreate
<1>1. OutboxTypeOK'
  BY DEF OrderIffEvent, ClaimsArePending, IsNext
<1>2. OrderIffEvent'
  BY DEF OrderIffEvent, RowsAreOrdered, ClaimsArePending, ClaimsAreDisjoint
<1>3. ClaimsAreDisjoint'
  BY DEF ClaimsAreDisjoint
<1>4. SentIsPublished'
  BY DEF SentIsPublished, RowsAreOrdered, ClaimsArePending, MarkingIsPublished, Marking, IsNext
<1>5. RowsAreOrdered'
  BY DEF RowsAreOrdered, ClaimsArePending, OrderIffEvent, ClaimsAreDisjoint
<1>6. ClaimsArePending'
  BY DEF ClaimsArePending, RowsAreOrdered, OrderIffEvent, ClaimsAreDisjoint
<1>7. MarkingIsPublished'
  BY DEF MarkingIsPublished, Marking, IsNext, RowsAreOrdered, ClaimsArePending
<1>8. CopyBudget'
  BY DEF CopyBudget, Marking, IsNext, ClaimsAreDisjoint, ClaimsArePending, RowsAreOrdered
<1> QED BY <1>1, <1>2, <1>3, <1>4, <1>5, <1>6, <1>7, <1>8

(* A rollback leaves no row.                                               *)
LEMMA AbortCreateStep ==
  ASSUME OutboxInv, NEW o \in Orders, AbortCreate(o)
  PROVE  OutboxInv'
<1> USE FaultsAssumption DEF OutboxInv, OutboxTypeOK, createVars, relayVars, AbortCreate
<1>1. OutboxTypeOK'
  BY DEF OrderIffEvent, ClaimsArePending, IsNext
<1>2. OrderIffEvent'
  BY DEF OrderIffEvent, RowsAreOrdered, ClaimsArePending, ClaimsAreDisjoint
<1>3. ClaimsAreDisjoint'
  BY DEF ClaimsAreDisjoint
<1>4. SentIsPublished'
  BY DEF SentIsPublished, RowsAreOrdered, ClaimsArePending, MarkingIsPublished, Marking, IsNext
<1>5. RowsAreOrdered'
  BY DEF RowsAreOrdered, ClaimsArePending, OrderIffEvent, ClaimsAreDisjoint
<1>6. ClaimsArePending'
  BY DEF ClaimsArePending, RowsAreOrdered, OrderIffEvent, ClaimsAreDisjoint
<1>7. MarkingIsPublished'
  BY DEF MarkingIsPublished, Marking, IsNext, RowsAreOrdered, ClaimsArePending
<1>8. CopyBudget'
  BY DEF CopyBudget, Marking, IsNext, ClaimsAreDisjoint, ClaimsArePending, RowsAreOrdered
<1> QED BY <1>1, <1>2, <1>3, <1>4, <1>5, <1>6, <1>7, <1>8

(* A relay starts with nothing locked.                                     *)
LEMMA StartRelayStep ==
  ASSUME OutboxInv, NEW r \in Relays, StartRelay(r)
  PROVE  OutboxInv'
<1> USE FaultsAssumption DEF OutboxInv, OutboxTypeOK, createVars, relayVars, StartRelay
<1>1. OutboxTypeOK'
  BY DEF OrderIffEvent, ClaimsArePending, IsNext
<1>2. OrderIffEvent'
  BY DEF OrderIffEvent, RowsAreOrdered, ClaimsArePending, ClaimsAreDisjoint
<1>3. ClaimsAreDisjoint'
  BY DEF ClaimsAreDisjoint
<1>4. SentIsPublished'
  BY DEF SentIsPublished, RowsAreOrdered, ClaimsArePending, MarkingIsPublished, Marking, IsNext
<1>5. RowsAreOrdered'
  BY DEF RowsAreOrdered, ClaimsArePending, OrderIffEvent, ClaimsAreDisjoint
<1>6. ClaimsArePending'
  BY DEF ClaimsArePending, RowsAreOrdered, OrderIffEvent, ClaimsAreDisjoint
<1>7. MarkingIsPublished'
  BY DEF MarkingIsPublished, Marking, IsNext, RowsAreOrdered, ClaimsArePending
<1>8. CopyBudget'
  BY DEF CopyBudget, Marking, IsNext, ClaimsAreDisjoint, ClaimsArePending, RowsAreOrdered
<1> QED BY <1>1, <1>2, <1>3, <1>4, <1>5, <1>6, <1>7, <1>8

(* A claim takes pending rows that nobody has locked.                      *)
LEMMA ClaimBatchStep ==
  ASSUME OutboxInv, NEW r \in Relays, ClaimBatch(r)
  PROVE  OutboxInv'
<1> USE FaultsAssumption DEF OutboxInv, OutboxTypeOK, createVars, relayVars, ClaimBatch
<1>1. OutboxTypeOK'
  <2>1. PICK rows \in (SUBSET Claimable) \ {{}} :
          /\ batch' = [batch EXCEPT ![r] = rows]
          /\ locked' = [locked EXCEPT ![r] = rows]
    OBVIOUS
  <2>2. rows \subseteq Orders /\ rows # {}
    BY <2>1 DEF Claimable
  <2>3. marked[r] = {}
    OBVIOUS
  <2> QED BY <2>1, <2>2, <2>3
<1>2. OrderIffEvent'
  BY DEF OrderIffEvent, RowsAreOrdered, ClaimsArePending, ClaimsAreDisjoint
<1>3. ClaimsAreDisjoint'
  BY DEF ClaimsAreDisjoint, Claimable
<1>4. SentIsPublished'
  BY DEF SentIsPublished, RowsAreOrdered, ClaimsArePending, MarkingIsPublished, Marking, IsNext
<1>5. RowsAreOrdered'
  BY DEF RowsAreOrdered, ClaimsArePending, OrderIffEvent, ClaimsAreDisjoint
<1>6. ClaimsArePending'
  BY DEF ClaimsArePending, RowsAreOrdered, OrderIffEvent, ClaimsAreDisjoint, Claimable
<1>7. MarkingIsPublished'
  BY DEF MarkingIsPublished, Marking, IsNext, RowsAreOrdered, ClaimsArePending, Claimable
<1>8. CopyBudget'
  BY DEF CopyBudget, Marking, IsNext, ClaimsAreDisjoint, ClaimsArePending, RowsAreOrdered, Claimable
<1> QED BY <1>1, <1>2, <1>3, <1>4, <1>5, <1>6, <1>7, <1>8

(* The commit turns marked rows, which are published, into sent ones.      *)
LEMMA CommitRoundStep ==
  ASSUME OutboxInv, NEW r \in Relays, CommitRound(r)
  PROVE  OutboxInv'
<1> USE FaultsAssumption DEF OutboxInv, OutboxTypeOK, createVars, relayVars, CommitRound, EndTransaction
<1>1. OutboxTypeOK'
  BY DEF OrderIffEvent, ClaimsArePending, IsNext
<1>2. OrderIffEvent'
  BY DEF OrderIffEvent, RowsAreOrdered, ClaimsArePending, ClaimsAreDisjoint
<1>3. ClaimsAreDisjoint'
  BY DEF ClaimsAreDisjoint
<1>4. SentIsPublished'
  BY DEF SentIsPublished, RowsAreOrdered, ClaimsArePending, MarkingIsPublished, Marking, IsNext
<1>5. RowsAreOrdered'
  BY DEF RowsAreOrdered, ClaimsArePending, OrderIffEvent, ClaimsAreDisjoint
<1>6. ClaimsArePending'
  BY DEF ClaimsArePending, RowsAreOrdered, OrderIffEvent, ClaimsAreDisjoint
<1>7. MarkingIsPublished'
  BY DEF MarkingIsPublished, Marking, IsNext, RowsAreOrdered, ClaimsArePending
<1>8. CopyBudget'
  BY DEF CopyBudget, Marking, IsNext, ClaimsAreDisjoint, ClaimsArePending, RowsAreOrdered
<1> QED BY <1>1, <1>2, <1>3, <1>4, <1>5, <1>6, <1>7, <1>8

(* A rollback forgets the marks and pays for later copies.                 *)
LEMMA RollbackRoundStep ==
  ASSUME OutboxInv, NEW r \in Relays, RollbackRound(r)
  PROVE  OutboxInv'
<1> USE FaultsAssumption DEF OutboxInv, OutboxTypeOK, createVars, relayVars, RollbackRound, EndTransaction, Fault
<1>1. OutboxTypeOK'
  BY DEF OrderIffEvent, ClaimsArePending, IsNext
<1>2. OrderIffEvent'
  BY DEF OrderIffEvent, RowsAreOrdered, ClaimsArePending, ClaimsAreDisjoint
<1>3. ClaimsAreDisjoint'
  BY DEF ClaimsAreDisjoint
<1>4. SentIsPublished'
  BY DEF SentIsPublished, RowsAreOrdered, ClaimsArePending, MarkingIsPublished, Marking, IsNext
<1>5. RowsAreOrdered'
  BY DEF RowsAreOrdered, ClaimsArePending, OrderIffEvent, ClaimsAreDisjoint
<1>6. ClaimsArePending'
  BY DEF ClaimsArePending, RowsAreOrdered, OrderIffEvent, ClaimsAreDisjoint
<1>7. MarkingIsPublished'
  BY DEF MarkingIsPublished, Marking, IsNext, RowsAreOrdered, ClaimsArePending
<1>8. CopyBudget'
  BY DEF CopyBudget, Marking, IsNext, ClaimsAreDisjoint, ClaimsArePending, RowsAreOrdered
<1> QED BY <1>1, <1>2, <1>3, <1>4, <1>5, <1>6, <1>7, <1>8

(* So does the end of the relay.                                           *)
LEMMA StopRelayStep ==
  ASSUME OutboxInv, NEW r \in Relays, StopRelay(r)
  PROVE  OutboxInv'
<1> USE FaultsAssumption DEF OutboxInv, OutboxTypeOK, createVars, relayVars, StopRelay, EndTransaction, Fault
<1>1. OutboxTypeOK'
  BY DEF OrderIffEvent, ClaimsArePending, IsNext
<1>2. OrderIffEvent'
  BY DEF OrderIffEvent, RowsAreOrdered, ClaimsArePending, ClaimsAreDisjoint
<1>3. ClaimsAreDisjoint'
  BY DEF ClaimsAreDisjoint
<1>4. SentIsPublished'
  BY DEF SentIsPublished, RowsAreOrdered, ClaimsArePending, MarkingIsPublished, Marking, IsNext
<1>5. RowsAreOrdered'
  BY DEF RowsAreOrdered, ClaimsArePending, OrderIffEvent, ClaimsAreDisjoint
<1>6. ClaimsArePending'
  BY DEF ClaimsArePending, RowsAreOrdered, OrderIffEvent, ClaimsAreDisjoint
<1>7. MarkingIsPublished'
  BY DEF MarkingIsPublished, Marking, IsNext, RowsAreOrdered, ClaimsArePending
<1>8. CopyBudget'
  BY DEF CopyBudget, Marking, IsNext, ClaimsAreDisjoint, ClaimsArePending, RowsAreOrdered
<1> QED BY <1>1, <1>2, <1>3, <1>4, <1>5, <1>6, <1>7, <1>8

(* An acknowledged publish uses the one copy no fault explains.            *)
LEMMA PublishEventStep ==
  ASSUME OutboxInv, NEW r \in Relays, NEW o \in Orders, PublishEvent(r, o)
  PROVE  OutboxInv'
<1> USE FaultsAssumption DEF OutboxInv, OutboxTypeOK, createVars, relayVars, PublishEvent
<1>0. \A n \in Orders : IsNext(r, n) => n = o
  BY DEF IsNext, ClaimsArePending, RowsAreOrdered
<1>1. OutboxTypeOK'
  BY DEF OrderIffEvent, ClaimsArePending, IsNext
<1>2. OrderIffEvent'
  BY DEF OrderIffEvent, RowsAreOrdered, ClaimsArePending, ClaimsAreDisjoint
<1>3. ClaimsAreDisjoint'
  BY DEF ClaimsAreDisjoint
<1>4. SentIsPublished'
  BY DEF SentIsPublished, RowsAreOrdered, ClaimsArePending, MarkingIsPublished, Marking, IsNext
<1>5. RowsAreOrdered'
  BY DEF RowsAreOrdered, ClaimsArePending, OrderIffEvent, ClaimsAreDisjoint
<1>6. ClaimsArePending'
  BY DEF ClaimsArePending, RowsAreOrdered, OrderIffEvent, ClaimsAreDisjoint
<1>7. MarkingIsPublished'
  BY <1>0 DEF MarkingIsPublished, Marking, IsNext
<1>8. CopyBudget'
  <2> SUFFICES ASSUME NEW n \in Orders
               PROVE  \/ copies'[n] <= faults
                      \/ copies'[n] = 1 + faults /\ \/ outbox[n] = "sent"
                                                    \/ \E s \in Relays : n \in marked[s] \/ Marking(s, n)'
    BY DEF CopyBudget
  <2>1. CASE n = o
    <3>1. o \in batch[r] /\ o \in locked[r] /\ outbox[o] = "pending"
      BY DEF IsNext, ClaimsArePending
    <3>2. \A s \in Relays : o \notin marked[s] /\ ~Marking(s, o)
      BY <3>1 DEF ClaimsAreDisjoint, Marking, IsNext
    <3>3. copies[o] <= faults
      BY <3>1, <3>2 DEF CopyBudget
    <3>4. Marking(r, o)'
      BY DEF Marking, IsNext
    <3> QED BY <2>1, <3>3, <3>4
  <2>2. CASE n # o
    <3>1. copies'[n] = copies[n]
      BY <2>2
    <3>2. \A s \in Relays : Marking(s, n) => Marking(s, n)'
      BY DEF Marking, IsNext
    <3> QED BY <3>1, <3>2 DEF CopyBudget
  <2> QED BY <2>1, <2>2
<1> QED BY <1>1, <1>2, <1>3, <1>4, <1>5, <1>6, <1>7, <1>8

(* An event without a topic is passed over.                                *)
LEMMA EventHasNoTopicStep ==
  ASSUME OutboxInv, NEW r \in Relays, NEW o \in Orders, EventHasNoTopic(r, o)
  PROVE  OutboxInv'
<1> USE FaultsAssumption DEF OutboxInv, OutboxTypeOK, createVars, relayVars, EventHasNoTopic
<1>1. OutboxTypeOK'
  BY DEF OrderIffEvent, ClaimsArePending, IsNext
<1>2. OrderIffEvent'
  BY DEF OrderIffEvent, RowsAreOrdered, ClaimsArePending, ClaimsAreDisjoint
<1>3. ClaimsAreDisjoint'
  BY DEF ClaimsAreDisjoint
<1>4. SentIsPublished'
  BY DEF SentIsPublished, RowsAreOrdered, ClaimsArePending, MarkingIsPublished, Marking, IsNext
<1>5. RowsAreOrdered'
  BY DEF RowsAreOrdered, ClaimsArePending, OrderIffEvent, ClaimsAreDisjoint
<1>6. ClaimsArePending'
  BY DEF ClaimsArePending, RowsAreOrdered, OrderIffEvent, ClaimsAreDisjoint
<1>7. MarkingIsPublished'
  BY DEF MarkingIsPublished, Marking, IsNext, RowsAreOrdered, ClaimsArePending
<1>8. CopyBudget'
  BY DEF CopyBudget, Marking, IsNext, ClaimsAreDisjoint, ClaimsArePending, RowsAreOrdered
<1> QED BY <1>1, <1>2, <1>3, <1>4, <1>5, <1>6, <1>7, <1>8

(* A failed publish may add a copy, and counts as a fault.                 *)
LEMMA PublishFailsStep ==
  ASSUME OutboxInv, NEW r \in Relays, NEW o \in Orders, PublishFails(r, o)
  PROVE  OutboxInv'
<1> USE FaultsAssumption DEF OutboxInv, OutboxTypeOK, createVars, relayVars, PublishFails, Fault
<1>1. OutboxTypeOK'
  BY DEF OrderIffEvent, ClaimsArePending, IsNext
<1>2. OrderIffEvent'
  BY DEF OrderIffEvent, RowsAreOrdered, ClaimsArePending, ClaimsAreDisjoint
<1>3. ClaimsAreDisjoint'
  BY DEF ClaimsAreDisjoint
<1>4. SentIsPublished'
  BY DEF SentIsPublished, RowsAreOrdered, ClaimsArePending, MarkingIsPublished, Marking, IsNext
<1>5. RowsAreOrdered'
  BY DEF RowsAreOrdered, ClaimsArePending, OrderIffEvent, ClaimsAreDisjoint
<1>6. ClaimsArePending'
  BY DEF ClaimsArePending, RowsAreOrdered, OrderIffEvent, ClaimsAreDisjoint
<1>7. MarkingIsPublished'
  BY DEF MarkingIsPublished, Marking, IsNext, RowsAreOrdered, ClaimsArePending
<1>8. CopyBudget'
  BY DEF CopyBudget, Marking, IsNext, ClaimsAreDisjoint, ClaimsArePending, RowsAreOrdered
<1> QED BY <1>1, <1>2, <1>3, <1>4, <1>5, <1>6, <1>7, <1>8

(* A copy the writer adds by sending again counts as a fault.               *)
LEMMA PublishRetriesStep ==
  ASSUME OutboxInv, NEW r \in Relays, NEW o \in Orders, PublishRetries(r, o)
  PROVE  OutboxInv'
<1> USE FaultsAssumption DEF OutboxInv, OutboxTypeOK, createVars, relayVars, PublishRetries, Fault
<1>1. OutboxTypeOK'
  BY DEF OrderIffEvent, ClaimsArePending, IsNext
<1>2. OrderIffEvent'
  BY DEF OrderIffEvent, RowsAreOrdered, ClaimsArePending, ClaimsAreDisjoint
<1>3. ClaimsAreDisjoint'
  BY DEF ClaimsAreDisjoint
<1>4. SentIsPublished'
  BY DEF SentIsPublished, RowsAreOrdered, ClaimsArePending, MarkingIsPublished, Marking, IsNext
<1>5. RowsAreOrdered'
  BY DEF RowsAreOrdered, ClaimsArePending, OrderIffEvent, ClaimsAreDisjoint
<1>6. ClaimsArePending'
  BY DEF ClaimsArePending, RowsAreOrdered, OrderIffEvent, ClaimsAreDisjoint
<1>7. MarkingIsPublished'
  BY DEF MarkingIsPublished, Marking, IsNext, RowsAreOrdered, ClaimsArePending
<1>8. CopyBudget'
  BY DEF CopyBudget, Marking, IsNext, ClaimsAreDisjoint, ClaimsArePending, RowsAreOrdered
<1> QED BY <1>1, <1>2, <1>3, <1>4, <1>5, <1>6, <1>7, <1>8

(* A row is marked after its event was published.                          *)
LEMMA MarkSentStep ==
  ASSUME OutboxInv, NEW r \in Relays, NEW o \in Orders, MarkSent(r, o)
  PROVE  OutboxInv'
<1> USE FaultsAssumption DEF OutboxInv, OutboxTypeOK, createVars, relayVars, MarkSent, NextEvent
<1>1. OutboxTypeOK'
  BY DEF OrderIffEvent, ClaimsArePending, IsNext
<1>2. OrderIffEvent'
  BY DEF OrderIffEvent, RowsAreOrdered, ClaimsArePending, ClaimsAreDisjoint
<1>3. ClaimsAreDisjoint'
  BY DEF ClaimsAreDisjoint
<1>4. SentIsPublished'
  BY DEF SentIsPublished, RowsAreOrdered, ClaimsArePending, MarkingIsPublished, Marking, IsNext
<1>5. RowsAreOrdered'
  BY DEF RowsAreOrdered, ClaimsArePending, OrderIffEvent, ClaimsAreDisjoint
<1>6. ClaimsArePending'
  BY DEF ClaimsArePending, RowsAreOrdered, OrderIffEvent, ClaimsAreDisjoint
<1>7. MarkingIsPublished'
  BY DEF MarkingIsPublished, Marking, IsNext, RowsAreOrdered, ClaimsArePending
<1>8. CopyBudget'
  <2>0. \A n \in Orders : IsNext(r, n) => n = o
    BY DEF IsNext, ClaimsArePending, RowsAreOrdered
  <2>1. \A s \in Relays : marked[s] \subseteq marked'[s]
    OBVIOUS
  <2>2. ASSUME NEW n \in Orders, NEW s \in Relays, Marking(s, n)
        PROVE  n \in marked'[s] \/ Marking(s, n)'
    <3>1. CASE s = r
      BY <2>0, <2>2, <3>1 DEF Marking
    <3>2. CASE s # r
      BY <2>2, <3>2 DEF Marking, IsNext
    <3> QED BY <3>1, <3>2
  <2>3. UNCHANGED <<copies, faults, outbox>>
    OBVIOUS
  <2> HIDE DEF MarkSent, NextEvent, OutboxTypeOK, Marking
  <2> QED BY <2>1, <2>2, <2>3 DEF CopyBudget
<1> QED BY <1>1, <1>2, <1>3, <1>4, <1>5, <1>6, <1>7, <1>8

(* A row whose publish failed stays pending.                               *)
LEMMA IncrementRetryCountStep ==
  ASSUME OutboxInv, NEW r \in Relays, NEW o \in Orders, IncrementRetryCount(r, o)
  PROVE  OutboxInv'
<1> USE FaultsAssumption DEF OutboxInv, OutboxTypeOK, createVars, relayVars, IncrementRetryCount, NextEvent
<1>1. OutboxTypeOK'
  BY DEF OrderIffEvent, ClaimsArePending, IsNext
<1>2. OrderIffEvent'
  BY DEF OrderIffEvent, RowsAreOrdered, ClaimsArePending, ClaimsAreDisjoint
<1>3. ClaimsAreDisjoint'
  BY DEF ClaimsAreDisjoint
<1>4. SentIsPublished'
  BY DEF SentIsPublished, RowsAreOrdered, ClaimsArePending, MarkingIsPublished, Marking, IsNext
<1>5. RowsAreOrdered'
  BY DEF RowsAreOrdered, ClaimsArePending, OrderIffEvent, ClaimsAreDisjoint
<1>6. ClaimsArePending'
  BY DEF ClaimsArePending, RowsAreOrdered, OrderIffEvent, ClaimsAreDisjoint
<1>7. MarkingIsPublished'
  BY DEF MarkingIsPublished, Marking, IsNext, RowsAreOrdered, ClaimsArePending
<1>8. CopyBudget'
  BY DEF CopyBudget, Marking, IsNext, ClaimsAreDisjoint, ClaimsArePending, RowsAreOrdered
<1> QED BY <1>1, <1>2, <1>3, <1>4, <1>5, <1>6, <1>7, <1>8

(* Every step of the system keeps the invariant.                           *)
LEMMA OutboxInvStep == OutboxInv /\ [OutboxNext]_outboxVars => OutboxInv'
<1> SUFFICES ASSUME OutboxInv, [OutboxNext]_outboxVars PROVE OutboxInv'
  OBVIOUS
<1>1. CASE UNCHANGED outboxVars
  BY <1>1 DEF outboxVars, createVars, relayVars, OutboxInv, OutboxTypeOK, OrderIffEvent,
              ClaimsAreDisjoint, SentIsPublished, RowsAreOrdered, ClaimsArePending,
              MarkingIsPublished, CopyBudget, Marking, IsNext
<1>2. ASSUME NEW o \in Orders, CreateWithOutbox(o) PROVE OutboxInv'
  BY <1>2, InsertOrderStep, InsertEventStep, CommitCreateStep, AbortCreateStep
     DEF CreateWithOutbox
<1>3. ASSUME NEW r \in Relays, StartRelay(r) \/ ProcessOnce(r) \/ StopRelay(r)
      PROVE  OutboxInv'
  BY <1>3, StartRelayStep, StopRelayStep, ClaimBatchStep, CommitRoundStep, RollbackRoundStep,
     PublishEventStep, EventHasNoTopicStep, PublishFailsStep, PublishRetriesStep, MarkSentStep,
     IncrementRetryCountStep
     DEF ProcessOnce
<1> QED BY <1>1, <1>2, <1>3 DEF OutboxNext

(* Every reachable state of the outbox satisfies the inductive invariant.  *)
THEOREM OutboxInvariant == OutboxSpec => []OutboxInv
BY OutboxInitInv, OutboxInvStep, PTL DEF OutboxSpec

(* OrderRepository.CreateWithOutbox stores an order and its event together  *)
(* or not at all, whatever step of its transaction fails.                  *)
THEOREM OrdersHaveEvents == OutboxSpec => []OrderIffEvent
<1>1. OutboxInv => OrderIffEvent
  BY DEF OutboxInv
<1> QED BY <1>1, OutboxInvariant, PTL

(* A row reads "sent" only if its event is in the topic, whatever fails    *)
(* between the publish and the commit (outbox_repo.go: ProcessPending).    *)
THEOREM SentImpliesPublished == OutboxSpec => []SentIsPublished
<1>1. OutboxInv => SentIsPublished
  BY DEF OutboxInv
<1> QED BY <1>1, OutboxInvariant, PTL

(* No two relays ever hold the same row.                                   *)
THEOREM RelaysDoNotOverlap == OutboxSpec => []ClaimsAreDisjoint
<1>1. OutboxInv => ClaimsAreDisjoint
  BY DEF OutboxInv
<1> QED BY <1>1, OutboxInvariant, PTL

(* A duplicate event is always the trace of a fault, one fault each.       *)
THEOREM DuplicatesNeedFaults == OutboxSpec => []CopiesNeedFaults
<1>1. OutboxInv => CopiesNeedFaults
  BY DEF OutboxInv, CopyBudget, CopiesNeedFaults, OutboxTypeOK
<1> QED BY <1>1, OutboxInvariant, PTL

(* The outbox implements the promise: only stored orders are announced,    *)
(* and what is stored or announced stays so.                               *)
THEOREM OutboxImplementsAnnouncements == OutboxSpec => Promise!AnnouncementsSpec
<1>1. OutboxInit => Promise!AnnouncementsInit
  BY DEF OutboxInit, Promise!AnnouncementsInit
<1>2. OutboxInv /\ [OutboxNext]_outboxVars
        => [Promise!AnnouncementsNext]_(Promise!announcementVars)
  <2> SUFFICES ASSUME OutboxInv, [OutboxNext]_outboxVars
               PROVE  \/ Promise!AnnouncementsNext
                      \/ UNCHANGED <<orders, {o \in Orders : copies[o] > 0}>>
    BY DEF Promise!announcementVars
  <2> USE DEF createVars, relayVars
  <2>1. CASE UNCHANGED <<orders, copies>>
    BY <2>1
  <2>2. ASSUME NEW o \in Orders, CommitCreate(o) PROVE Promise!Store(o)
    BY <2>2 DEF CommitCreate, Promise!Store
  <2>3. ASSUME NEW r \in Relays, NEW o \in Orders, IsNext(r, o), UNCHANGED orders,
               copies' = [copies EXCEPT ![o] = @ + 1]
        PROVE  Promise!Announce(o)
    <3>1. o \in orders
      BY <2>3 DEF OutboxInv, OutboxTypeOK, OrderIffEvent, ClaimsArePending, IsNext
    <3>2. {n \in Orders : copies'[n] > 0} = {n \in Orders : copies[n] > 0} \union {o}
      BY <2>3 DEF OutboxInv, OutboxTypeOK
    <3> QED BY <2>3, <3>1, <3>2 DEF Promise!Announce
  <2>4. \/ UNCHANGED <<orders, copies>>
        \/ \E o \in Orders : CommitCreate(o)
        \/ \E r \in Relays, o \in Orders :
             /\ IsNext(r, o) /\ UNCHANGED orders
             /\ copies' = [copies EXCEPT ![o] = @ + 1]
    BY DEF OutboxNext, outboxVars, CreateWithOutbox, ProcessOnce, InsertOrder, InsertEvent,
           AbortCreate, StartRelay, StopRelay, ClaimBatch, CommitRound, RollbackRound,
           PublishEvent, EventHasNoTopic, PublishFails, PublishRetries, MarkSent,
           IncrementRetryCount, NextEvent, EndTransaction
  <2> QED BY <2>1, <2>2, <2>3, <2>4 DEF Promise!AnnouncementsNext
<1> QED BY <1>1, <1>2, OutboxInvariant, PTL
        DEF OutboxSpec, Promise!AnnouncementsSpec
=============================================================================
