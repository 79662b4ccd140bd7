------------------------ MODULE KafkaConsumerProofs ------------------------
(***************************************************************************)
(* What the consumer loop guarantees for every group, every topic, every   *)
(* number of attempts and every number of faults.                          *)
(***************************************************************************)
EXTENDS KafkaConsumer, FiniteSetTheorems, TLAPS

(* Before the first record everything holds trivially.                     *)
LEMMA InitInv == ConsumerInit => ConsumerInv
BY MembersAssumption, MaxRetryAssumption, BoundsAssumption
   DEF ConsumerInit, ConsumerInv, TypeOK, CommittedAreSettled, SettledBelow, HeldInOrder,
       CommitIsSettled, ReaderSkipsNothing, OwnersRun, Settled, Records, NoRecord, Steps,
       HoldsRecord

(* The type invariant holds in every state.                                *)
LEMMA TypeStep == TypeOK /\ [ConsumerNext]_consumerVars => TypeOK'
<1> SUFFICES ASSUME TypeOK, [ConsumerNext]_consumerVars PROVE TypeOK'
  OBVIOUS
<1> USE MembersAssumption, MaxRetryAssumption, BoundsAssumption
        DEF TypeOK, Records, Steps, HoldsRecord, NoRecord, brokerVars, memberVars
<1>0. Fault => faults' \in 0 .. MaxFaults
  BY DEF Fault
<1>1. CASE UNCHANGED consumerVars
  BY <1>1 DEF consumerVars
<1>2. ASSUME NEW p \in Partitions, NEW m \in Messages, Produce(p, m) PROVE TypeOK'
  BY <1>2 DEF Produce
<1>3. ASSUME NEW p \in Partitions, NEW c \in Members, AssignOrphan(p, c) \/ Rebalance(p, c)
      PROVE TypeOK'
  <2>1. Assign(p, c) /\ faults' \in 0 .. MaxFaults
    BY <1>3 DEF AssignOrphan, Rebalance, Fault
  <2> QED BY <2>1 DEF Assign
<1>4. ASSUME NEW c \in Members, Start(c) \/ Cancel(c) \/ Crash(c) PROVE TypeOK'
  <2>1. CASE Start(c)
    BY <2>1 DEF Start
  <2>2. CASE Cancel(c)
    <3>1. cancelled' \in [Members -> BOOLEAN] /\ faults' \in 0 .. MaxFaults
      BY <1>0, <2>2 DEF Cancel
    <3> QED BY <2>2, <3>1 DEF Cancel
  <2>3. CASE Crash(c)
    <3>1. owner' \in [Partitions -> Members \union {NoMember}] /\ faults' \in 0 .. MaxFaults
      BY <1>0, <2>3 DEF Crash, Release
    <3>2. /\ pc' \in [Members -> Steps] /\ current' \in [Members -> Records \union {NoRecord}]
          /\ attempt' \in [Members -> 0 .. MaxRetry]
      BY <2>3 DEF Crash
    <3>3. \A d \in Members :
            /\ IF pc'[d] \in HoldsRecord THEN current'[d] \in Records ELSE current'[d] = NoRecord
            /\ pc'[d] = "backoff" => attempt'[d] < MaxRetry
      BY <2>3 DEF Crash
    <3> QED BY <2>3, <3>1, <3>2, <3>3, SMTT(30) DEF Crash
  <2> QED BY <1>4, <2>1, <2>2, <2>3
<1>5. ASSUME NEW c \in Members, HandlerReturns(c) PROVE TypeOK'
  <2>1. CASE HandlerSucceeds(c)
    BY <2>1 DEF HandlerSucceeds
  <2>2. CASE HandlerFails(c)
    BY <2>2 DEF HandlerFails
  <2> QED BY <1>5, <2>1, <2>2 DEF HandlerReturns
<1>6. ASSUME NEW c \in Members, LoopStep(c) PROVE TypeOK'
  <2>1. CASE Fetch(c)
    BY <2>1 DEF Fetch
  <2>2. CASE FetchStops(c)
    BY <2>2 DEF FetchStops, Release
  <2>3. CASE BackoffElapses(c)
    BY <2>3 DEF BackoffElapses
  <2>4. CASE BackoffCancelled(c)
    BY <2>4 DEF BackoffCancelled, NextRecord
  <2>5. CASE SendToDLQ(c)
    BY <2>5 DEF SendToDLQ
  <2>6. CASE DLQCancelled(c)
    BY <2>6 DEF DLQCancelled, DLQUnsent, NextRecord
  <2>7. CASE DLQFails(c)
    <3>1. faults' \in 0 .. MaxFaults
      BY <1>0, <2>7 DEF DLQFails
    <3>2. current[c] \in Records
      BY <2>7 DEF DLQFails, DLQUnsent
    <3> QED BY <2>7, <3>1, <3>2 DEF DLQFails, DLQUnsent, NextRecord
  <2>8. CASE CommitSucceeds(c)
    <3>1. current[c] \in Partitions \X Nat
      BY <2>8 DEF CommitSucceeds
    <3>2. current[c][1] \in Partitions /\ current[c][2] + 1 \in Nat
      BY <3>1
    <3>3. committed' \in [Partitions -> Nat]
      BY <2>8, <3>2 DEF CommitSucceeds
    <3> QED BY <2>8, <3>3 DEF CommitSucceeds, NextRecord
  <2>9. CASE CommitFails(c)
    <3>1. faults' \in 0 .. MaxFaults
      BY <1>0, <2>9 DEF CommitFails
    <3> QED BY <2>9, <3>1 DEF CommitFails, NextRecord
  <2> QED BY <1>6, <2>1, <2>2, <2>3, <2>4, <2>5, <2>6, <2>7, <2>8, <2>9 DEF LoopStep
<1> QED BY <1>1, <1>2, <1>3, <1>4, <1>5, <1>6 DEF ConsumerNext, Environment

(* The sets of settled records only grow, so what was settled stays so.    *)
LEMMA SettledGrows ==
  ASSUME ConsumerNext \/ UNCHANGED consumerVars
  PROVE  /\ handled \subseteq handled'
         /\ dlq \subseteq dlq'
         /\ lost \subseteq lost'
BY DEF ConsumerNext, Environment, HandlerReturns, LoopStep, consumerVars, brokerVars,
       memberVars, Produce, Assign, AssignOrphan, Rebalance, Start, Cancel, Crash, Fetch,
       FetchStops, HandlerSucceeds, HandlerFails, BackoffElapses, BackoffCancelled,
       SendToDLQ, DLQUnsent, DLQCancelled, DLQFails, CommitSucceeds, CommitFails

(* The safety part of the invariant, for a step that leaves the members'   *)
(* hands and the broker's offsets alone.                                   *)
LEMMA QuietStep ==
  ASSUME ConsumerInv, TypeOK', UNCHANGED <<committed, owner, position, pc, current>>,
         handled \subseteq handled', dlq \subseteq dlq', lost' = lost,
         \A c \in Members : cancelled[c] => cancelled'[c]
  PROVE  ConsumerInv'
BY DEF ConsumerInv, TypeOK, CommittedAreSettled, SettledBelow, HeldInOrder,
       CommitIsSettled, ReaderSkipsNothing, OwnersRun, Settled

(* Assigning a partition restarts its reader at the committed offset, below *)
(* which everything is settled.                                            *)
LEMMA AssignStep ==
  ASSUME ConsumerInv, TypeOK', NEW p \in Partitions, NEW c \in Members, Assign(p, c)
  PROVE  ConsumerInv'
BY MembersAssumption
   DEF Assign, ConsumerInv, TypeOK, CommittedAreSettled, SettledBelow, HeldInOrder,
       CommitIsSettled, ReaderSkipsNothing, OwnersRun, Settled, memberVars

(* A member that dies or leaves gives up its partitions.                   *)
LEMMA LeaveStep ==
  ASSUME ConsumerInv, TypeOK', NEW c \in Members, Release(c),
         pc' = [pc EXCEPT ![c] = "stopped"],
         \A d \in Members \ {c} : current'[d] = current[d],
         UNCHANGED <<committed, position, cancelled, dlq, handled, lost>>
  PROVE  ConsumerInv'
<1> USE DEF ConsumerInv, TypeOK, Settled
<1>1. \A p \in Partitions, d \in Members : owner'[p] = d => d # c /\ owner[p] = d
  BY MembersAssumption DEF Release
<1>2. CommittedAreSettled'
  BY DEF CommittedAreSettled, SettledBelow
<1>3. \A d \in Members : pc'[d] # "stopped" => pc'[d] = pc[d] /\ current'[d] = current[d]
  OBVIOUS
<1>4. HeldInOrder'
  BY <1>3 DEF HeldInOrder, SettledBelow, HoldsRecord
<1>5. CommitIsSettled'
  BY <1>3 DEF CommitIsSettled
<1>6. \A d \in Members \ {c} : pc'[d] = pc[d] /\ current'[d] = current[d]
  OBVIOUS
<1>7. OwnersRun'
  BY <1>1, <1>6 DEF OwnersRun
<1> HIDE DEF TypeOK
<1>8. ReaderSkipsNothing'
  BY <1>1, <1>6 DEF ReaderSkipsNothing
<1> QED BY <1>2, <1>4, <1>5, <1>7, <1>8

(* A record leaves a member's hands when it is settled, or when ctx is     *)
(* cancelled and the member will commit nothing more.                      *)
LEMMA DropStep ==
  ASSUME ConsumerInv, TypeOK', NEW c \in Members, NextRecord(c), pc[c] \in HoldsRecord,
         cancelled[c] \/ current[c] \in Settled',
         handled \subseteq handled', dlq \subseteq dlq', lost \subseteq lost',
         ~DlqMayFail => lost' = lost,
         UNCHANGED <<owner, position>>,
         CommittedAreSettled'
  PROVE  ConsumerInv'
<1> USE DEF ConsumerInv, TypeOK, NextRecord, Settled
<1>1. \A d \in Members \ {c} : pc'[d] = pc[d] /\ current'[d] = current[d]
  OBVIOUS
<1>2. pc'[c] = "fetching" /\ "fetching" \notin HoldsRecord
  BY DEF HoldsRecord
<1>3. HeldInOrder' /\ CommitIsSettled'
  BY <1>1, <1>2 DEF HeldInOrder, CommitIsSettled, SettledBelow
<1>4. ReaderSkipsNothing'
  <2> SUFFICES ASSUME NEW p \in Partitions, NEW d \in Members, owner'[p] = d, ~cancelled'[d],
                      NEW i \in 0 .. position'[p] - 1
               PROVE  <<p, i>> \in Settled' \/ current'[d] = <<p, i>>
    BY DEF ReaderSkipsNothing
  <2>1. <<p, i>> \in Settled \/ current[d] = <<p, i>>
    BY DEF ReaderSkipsNothing
  <2>2. Settled \subseteq Settled'
    OBVIOUS
  <2>3. CASE d = c
    BY <2>1, <2>2, <2>3
  <2>4. CASE d # c
    BY <2>1, <2>2, <2>4, <1>1
  <2> QED BY <2>3, <2>4
<1>5. OwnersRun'
  BY <1>1, <1>2 DEF OwnersRun
<1> QED BY <1>3, <1>4, <1>5

(* A member fetches the first record its reader has not passed.            *)
LEMMA FetchStep ==
  ASSUME ConsumerInv, TypeOK', NEW c \in Members, Fetch(c)
  PROVE  ConsumerInv'
<1> USE DEF ConsumerInv, TypeOK, Settled
<1>1. PICK p \in Partitions :
        /\ owner[p] = c
        /\ current' = [current EXCEPT ![c] = <<p, position[p]>>]
        /\ position' = [position EXCEPT ![p] = @ + 1]
  BY DEF Fetch
<1>2. /\ pc[c] = "fetching" /\ pc' = [pc EXCEPT ![c] = "handling"]
      /\ UNCHANGED <<committed, owner, cancelled, dlq, handled, lost>>
  BY DEF Fetch
<1>3. ~cancelled[c] => \A q \in Partitions : owner[q] = c => SettledBelow(q, position[q])
  <2>1. current[c] = NoRecord
    BY <1>2 DEF HoldsRecord
  <2>2. \A q \in Partitions, i \in Nat : NoRecord # <<q, i>>
    BY DEF NoRecord
  <2>3. ASSUME NEW q \in Partitions, owner[q] = c, ~cancelled[c], NEW i \in 0 .. position[q] - 1
        PROVE  <<q, i>> \in Settled
    <3>1. i \in Nat /\ (<<q, i>> \in Settled \/ current[c] = <<q, i>>)
      BY <2>3 DEF ReaderSkipsNothing
    <3> QED BY <3>1, <2>1, <2>2
  <2> QED BY <2>3 DEF SettledBelow
<1>4. CommittedAreSettled'
  BY <1>2 DEF CommittedAreSettled, SettledBelow
<1>5. HeldInOrder' /\ CommitIsSettled'
  <2>1. ASSUME NEW d \in Members, d # c
        PROVE  pc'[d] = pc[d] /\ current'[d] = current[d]
    BY <1>1, <1>2, <2>1
  <2>2. pc'[c] = "handling" /\ current'[c] = <<p, position[p]>>
    BY <1>1, <1>2
  <2>3. Settled' = Settled
    BY <1>2
  <2>4. ~cancelled[c] => SettledBelow(p, position[p])
    BY <1>1, <1>3
  <2>5. HeldInOrder'
    <3> SUFFICES ASSUME NEW d \in Members,
                        pc'[d] \in HoldsRecord, ~cancelled'[d] \/ pc'[d] = "commit"
                 PROVE  \A i \in 0 .. current'[d][2] - 1 : <<current'[d][1], i>> \in Settled'
      BY DEF HeldInOrder, SettledBelow, HoldsRecord
    <3>1. CASE d = c
      BY <1>2, <2>2, <2>3, <2>4, <3>1 DEF SettledBelow
    <3>2. CASE d # c
      BY <1>2, <2>1, <2>3, <3>2 DEF HeldInOrder, SettledBelow
    <3> QED BY <3>1, <3>2
  <2>6. CommitIsSettled'
    BY <2>1, <2>2, <2>3 DEF CommitIsSettled
  <2> QED BY <2>5, <2>6
<1>6. ReaderSkipsNothing'
  <2> SUFFICES ASSUME NEW q \in Partitions, NEW d \in Members, owner[q] = d, ~cancelled[d],
                      NEW i \in 0 .. position'[q] - 1
               PROVE  <<q, i>> \in Settled \/ current'[d] = <<q, i>>
    BY <1>2 DEF ReaderSkipsNothing
  <2>1. CASE d = c
    <3>1. i \in 0 .. position[q] - 1 \/ (q = p /\ i = position[p])
      BY <1>1
    <3>2. current'[c] = <<p, position[p]>>
      BY <1>1
    <3> QED BY <1>3, <2>1, <3>1, <3>2 DEF SettledBelow
  <2>2. CASE d # c
    <3>1. position'[q] = position[q] /\ current'[d] = current[d]
      BY <1>1, <2>2
    <3> HIDE DEF TypeOK
    <3> QED BY <3>1 DEF ReaderSkipsNothing
  <2> QED BY <2>1, <2>2
<1>7. OwnersRun'
  BY <1>2 DEF OwnersRun
<1> QED BY <1>2, <1>4, <1>5, <1>6, <1>7

(* The handler, or the dead letter topic, settles the record a live member *)
(* is about to commit.                                                     *)
LEMMA SettleStep ==
  ASSUME ConsumerInv, TypeOK', NEW c \in Members, pc[c] \in HoldsRecord, ~cancelled[c],
         pc' = [pc EXCEPT ![c] = "commit"], current[c] \in handled' \union dlq',
         handled \subseteq handled', dlq \subseteq dlq',
         UNCHANGED <<committed, owner, position, current, cancelled, lost>>
  PROVE  ConsumerInv'
BY DEF ConsumerInv, TypeOK, Settled, CommittedAreSettled, HeldInOrder, CommitIsSettled,
       ReaderSkipsNothing, OwnersRun, SettledBelow, HoldsRecord, Steps

(* A member moves between two steps at which it holds its record.          *)
LEMMA HoldStep ==
  ASSUME ConsumerInv, TypeOK', NEW c \in Members, NEW s \in HoldsRecord \ {"commit"},
         pc[c] \in HoldsRecord \ {"commit"}, pc' = [pc EXCEPT ![c] = s],
         UNCHANGED <<committed, owner, position, current, cancelled, dlq, handled, lost>>
  PROVE  ConsumerInv'
BY DEF ConsumerInv, TypeOK, Settled, CommittedAreSettled, HeldInOrder, CommitIsSettled,
       ReaderSkipsNothing, OwnersRun, SettledBelow, HoldsRecord, Steps

(* Every step of the group keeps the invariant.                            *)
LEMMA InvStep == ConsumerInv /\ [ConsumerNext]_consumerVars => ConsumerInv'
<1> SUFFICES ASSUME ConsumerInv, [ConsumerNext]_consumerVars PROVE ConsumerInv'
  OBVIOUS
<1>1. TypeOK'
  BY TypeStep DEF ConsumerInv
<1>2. /\ handled \subseteq handled'
      /\ dlq \subseteq dlq'
      /\ lost \subseteq lost'
  BY SettledGrows
<1> USE DEF brokerVars, memberVars
<1>3. CASE UNCHANGED consumerVars
  BY <1>1, <1>3, QuietStep DEF consumerVars
<1>4. ASSUME NEW p \in Partitions, NEW m \in Messages, Produce(p, m) PROVE ConsumerInv'
  BY <1>1, <1>4, QuietStep DEF Produce
<1>5. ASSUME NEW p \in Partitions, NEW c \in Members, AssignOrphan(p, c) \/ Rebalance(p, c)
      PROVE ConsumerInv'
  BY <1>1, <1>5, AssignStep DEF AssignOrphan, Rebalance
<1>6. ASSUME NEW c \in Members, Start(c) \/ Cancel(c) \/ Crash(c) PROVE ConsumerInv'
  <2>1. CASE Start(c)
    BY <1>1, <2>1 DEF Start, ConsumerInv, TypeOK, Settled, CommittedAreSettled, HeldInOrder,
       CommitIsSettled, ReaderSkipsNothing, OwnersRun, SettledBelow, HoldsRecord
  <2>2. CASE Cancel(c)
    BY <1>1, <2>2, QuietStep DEF Cancel, ConsumerInv, TypeOK
  <2>3. CASE Crash(c)
    BY <1>1, <2>3, LeaveStep DEF Crash, ConsumerInv, TypeOK
  <2> QED BY <1>6, <2>1, <2>2, <2>3
<1>7. ASSUME NEW c \in Members, HandlerReturns(c) PROVE ConsumerInv'
  <2>1. CASE HandlerSucceeds(c)
    BY <1>1, <2>1, SettleStep DEF HandlerSucceeds, HoldsRecord, Steps
  <2>2. CASE HandlerFails(c)
    <3> DEFINE s == IF attempt[c] < MaxRetry THEN "backoff" ELSE "dlq"
    <3>1. s \in HoldsRecord \ {"commit"} /\ pc' = [pc EXCEPT ![c] = s]
      BY <2>2 DEF HandlerFails, HoldsRecord, Steps
    <3> HIDE DEF s
    <3> QED BY <1>1, <2>2, <3>1, HoldStep DEF HandlerFails, HoldsRecord, Steps
  <2> QED BY <1>7, <2>1, <2>2 DEF HandlerReturns
<1>8. ASSUME NEW c \in Members, LoopStep(c) PROVE ConsumerInv'
  <2> USE DEF HoldsRecord, Steps
  <2>1. CASE Fetch(c)
    BY <1>1, <2>1, FetchStep
  <2>2. CASE FetchStops(c)
    BY <1>1, <2>2, LeaveStep DEF FetchStops
  <2>3. CASE BackoffElapses(c)
    BY <1>1, <2>3, HoldStep DEF BackoffElapses
  <2>4. CASE BackoffCancelled(c)
    <3>1. CommittedAreSettled'
      BY <2>4 DEF BackoffCancelled, ConsumerInv, CommittedAreSettled, SettledBelow, Settled
    <3> QED BY <1>1, <1>2, <2>4, <3>1, DropStep DEF BackoffCancelled
  <2>5. CASE SendToDLQ(c)
    BY <1>1, <2>5, SettleStep DEF SendToDLQ
  <2>6. CASE DLQCancelled(c)
    <3>1. CommittedAreSettled'
      BY <1>2, <2>6 DEF DLQCancelled, DLQUnsent, ConsumerInv, CommittedAreSettled,
                        SettledBelow, Settled
    <3> QED BY <1>1, <1>2, <2>6, <3>1, DropStep DEF DLQCancelled, DLQUnsent
  <2>7. CASE DLQFails(c)
    <3>1. CommittedAreSettled'
      BY <1>2, <2>7 DEF DLQFails, DLQUnsent, ConsumerInv, CommittedAreSettled,
                        SettledBelow, Settled
    <3>2. current[c] \in Settled'
      BY <2>7 DEF DLQFails, Settled
    <3> QED BY <1>1, <1>2, <2>7, <3>1, <3>2, DropStep DEF DLQFails, DLQUnsent
  <2>8. CASE CommitSucceeds(c) \/ CommitFails(c)
    <3>1. /\ pc[c] = "commit" /\ NextRecord(c)
          /\ UNCHANGED <<owner, position, dlq, handled, lost>>
          /\ \/ committed' = [committed EXCEPT ![current[c][1]] = current[c][2] + 1]
             \/ UNCHANGED committed
      BY <2>8 DEF CommitSucceeds, CommitFails
    <3>2. current[c] \in Settled /\ SettledBelow(current[c][1], current[c][2])
      BY <3>1 DEF ConsumerInv, CommitIsSettled, HeldInOrder
    <3>3. current[c] \in Partitions \X Nat
      BY <3>1 DEF ConsumerInv, TypeOK, Records
    <3>4. PICK p \in Partitions, o \in Nat : current[c] = <<p, o>>
      BY <3>3
    <3>5. SettledBelow(p, o + 1)
      BY <3>2, <3>4 DEF SettledBelow
    <3>6. CommittedAreSettled'
      <4> SUFFICES ASSUME NEW q \in Partitions, NEW i \in 0 .. committed'[q] - 1
                   PROVE  <<q, i>> \in Settled
        BY <3>1 DEF CommittedAreSettled, SettledBelow, Settled
      <4>1. CASE committed'[q] = committed[q]
        BY <4>1 DEF ConsumerInv, CommittedAreSettled, SettledBelow
      <4>2. CASE committed'[q] # committed[q]
        <5>1. q = p /\ committed'[q] = o + 1
          BY <3>1, <3>4, <4>2 DEF ConsumerInv, TypeOK
        <5> QED BY <5>1, <3>5 DEF SettledBelow
      <4> QED BY <4>1, <4>2
    <3>7. current[c] \in Settled'
      BY <3>1, <3>2 DEF Settled
    <3> QED BY <1>1, <1>2, <3>1, <3>6, <3>7, DropStep
  <2> QED BY <1>8, <2>1, <2>2, <2>3, <2>4, <2>5, <2>6, <2>7, <2>8 DEF LoopStep
<1> QED BY <1>3, <1>4, <1>5, <1>6, <1>7, <1>8 DEF ConsumerNext, Environment

(* Every reachable state of the group satisfies the inductive invariant.   *)
THEOREM ConsumerInvariant == ConsumerSpec => []ConsumerInv
BY InitInv, InvStep, PTL DEF ConsumerSpec

(* Type correctness of the consumer group.                                 *)
THEOREM TypeCorrect == ConsumerSpec => []TypeOK
<1>1. ConsumerInv => TypeOK
  BY DEF ConsumerInv
<1> QED BY <1>1, ConsumerInvariant, PTL

(* The committed offset never passes a record that was neither handled nor *)
(* dead lettered nor given up with an error (consumer.go: Consume).        *)
THEOREM NoSilentSkip == ConsumerSpec => []CommittedAreSettled
<1>1. ConsumerInv => CommittedAreSettled
  BY DEF ConsumerInv
<1> QED BY <1>1, ConsumerInvariant, PTL

(* If the dead letter publish never fails, at-least-once processing holds: *)
(* everything below the committed offset was handled or dead lettered.     *)
THEOREM AtLeastOnce == ConsumerSpec => []NothingLostWithoutDlqFailure
<1>1. ConsumerInv => NothingLostWithoutDlqFailure
  BY DEF ConsumerInv, CommittedAreSettled, SettledBelow, Settled, NothingLostWithoutDlqFailure
<1> QED BY <1>1, ConsumerInvariant, PTL

-----------------------------------------------------------------------------
(* The log only grows, so that what a member holds stays what it was.      *)
LEMMA LogGrows ==
    ASSUME TypeOK, [ConsumerNext]_consumerVars, NEW p \in Partitions
    PROVE  /\ Len(log[p]) \in Nat
           /\ Len(log'[p]) >= Len(log[p])
           /\ \A i \in 1 .. Len(log[p]) : log'[p][i] = log[p][i]
<1>1. log[p] \in Seq(Messages) /\ log \in [Partitions -> Seq(Messages)]
  BY DEF TypeOK
<1>2. CASE UNCHANGED log
  BY <1>1, <1>2
<1>3. ASSUME NEW q \in Partitions, NEW m \in Messages, Produce(q, m)
      PROVE /\ Len(log'[p]) >= Len(log[p])
            /\ \A i \in 1 .. Len(log[p]) : log'[p][i] = log[p][i]
  <2>1. log'[p] = IF p = q THEN Append(log[p], m) ELSE log[p]
    BY <1>1, <1>3 DEF Produce
  <2> QED BY <1>1, <2>1
<1>4. ASSUME Environment PROVE UNCHANGED log
  BY <1>4 DEF Environment, AssignOrphan, Rebalance, Assign, Start, Cancel, Crash, brokerVars
<1>5. ASSUME NEW c \in Members, HandlerReturns(c) \/ LoopStep(c) PROVE UNCHANGED log
  BY <1>5 DEF HandlerReturns, HandlerSucceeds, HandlerFails, LoopStep, Fetch, FetchStops,
     BackoffElapses, BackoffCancelled, SendToDLQ, DLQCancelled, DLQFails, DLQUnsent,
     CommitSucceeds, CommitFails, brokerVars
<1> QED BY <1>1, <1>2, <1>3, <1>4, <1>5 DEF ConsumerNext, consumerVars, brokerVars

(* A member that keeps its record keeps its message, and it stays in the   *)
(* log.                                                                    *)
LEMMA MessageStays ==
    ASSUME TypeOK, HeldIsInLog, [ConsumerNext]_consumerVars,
           NEW c \in Members, pc[c] \in HoldsRecord, current'[c] = current[c]
    PROVE  /\ MessageOf(c)' = MessageOf(c)
           /\ current'[c][2] < Len(log'[current'[c][1]])
<1>1. /\ current[c] \in Records
      /\ current[c][2] < Len(log[current[c][1]])
  BY DEF TypeOK, HeldIsInLog
<1> DEFINE p == current[c][1]
           o == current[c][2]
<1>2. p \in Partitions /\ o \in Nat
  BY <1>1 DEF Records
<1>3. /\ Len(log[p]) \in Nat /\ Len(log'[p]) \in Nat
      /\ Len(log'[p]) >= Len(log[p])
      /\ \A i \in 1 .. Len(log[p]) : log'[p][i] = log[p][i]
  <2>1. TypeOK'
    BY TypeStep
  <2> HIDE DEF p
  <2>2. log'[p] \in Seq(Messages)
    BY <1>2, <2>1 DEF TypeOK
  <2>3. Len(log'[p]) \in Nat
    BY <2>2
  <2>4. /\ Len(log[p]) \in Nat
        /\ Len(log'[p]) >= Len(log[p])
        /\ \A i \in 1 .. Len(log[p]) : log'[p][i] = log[p][i]
    BY <1>2, LogGrows
  <2> QED BY <2>3, <2>4
<1>4. o + 1 \in 1 .. Len(log[p])
  BY <1>1, <1>2, <1>3
<1> QED BY <1>1, <1>2, <1>3, <1>4 DEF MessageOf

(* Only Fetch gives a member a record, and it takes it from the log.       *)
LEMMA HeldStep ==
    TypeOK /\ HeldIsInLog /\ [ConsumerNext]_consumerVars => HeldIsInLog'
<1> SUFFICES ASSUME TypeOK, HeldIsInLog, [ConsumerNext]_consumerVars,
                    NEW c \in Members, pc'[c] \in HoldsRecord
             PROVE  current'[c][2] < Len(log'[current'[c][1]])
  BY DEF HeldIsInLog
<1>1. CASE pc[c] \in HoldsRecord /\ current'[c] = current[c]
  BY <1>1, MessageStays
<1>2. CASE Fetch(c)
  <2>1. PICK p \in Partitions :
          position[p] < Len(log[p]) /\ current' = [current EXCEPT ![c] = <<p, position[p]>>]
    BY <1>2 DEF Fetch
  <2>2. current'[c] = <<p, position[p]>> /\ log' = log
    BY <1>2, <2>1 DEF Fetch, TypeOK
  <2> QED BY <2>1, <2>2
<1>3. (pc[c] \in HoldsRecord /\ current'[c] = current[c]) \/ Fetch(c)
  <2> USE DEF TypeOK, HoldsRecord, Steps, brokerVars, memberVars
  <2>1. CASE UNCHANGED consumerVars
    BY <2>1 DEF consumerVars
  <2>2. ASSUME NEW p \in Partitions, NEW m \in Messages, Produce(p, m)
        PROVE pc[c] \in HoldsRecord /\ current'[c] = current[c]
    BY <2>2 DEF Produce
  <2>3. ASSUME Environment PROVE pc[c] \in HoldsRecord /\ current'[c] = current[c]
    BY <2>3 DEF Environment, AssignOrphan, Rebalance, Assign, Start, Cancel, Crash
  <2>4. ASSUME NEW d \in Members, HandlerReturns(d)
        PROVE pc[c] \in HoldsRecord /\ current'[c] = current[c]
    BY <2>4 DEF HandlerReturns, HandlerSucceeds, HandlerFails
  <2>5. ASSUME NEW d \in Members, LoopStep(d), ~Fetch(d)
        PROVE pc[c] \in HoldsRecord /\ current'[c] = current[c]
    <3>1. CASE FetchStops(d) \/ BackoffElapses(d) \/ SendToDLQ(d)
      BY <3>1 DEF FetchStops, BackoffElapses, SendToDLQ
    <3>2. CASE BackoffCancelled(d) \/ DLQCancelled(d) \/ DLQFails(d) \/ CommitSucceeds(d)
               \/ CommitFails(d)
      BY <3>2 DEF BackoffCancelled, DLQCancelled, DLQFails, DLQUnsent, CommitSucceeds,
         CommitFails, NextRecord
    <3> QED BY <2>5, <3>1, <3>2 DEF LoopStep
  <2>6. ASSUME NEW d \in Members, Fetch(d)
        PROVE (pc[c] \in HoldsRecord /\ current'[c] = current[c]) \/ Fetch(c)
    BY <2>6 DEF Fetch
  <2> QED BY <2>1, <2>2, <2>3, <2>4, <2>5, <2>6 DEF ConsumerNext
<1> QED BY <1>1, <1>2, <1>3

(* A member keeps a record of a partition it has lost only if the partition *)
(* was taken from it by a rebalance, which takes it from one member.       *)
LEMMA StraysStep ==
    TypeOK /\ StraysNeedFaults /\ [ConsumerNext]_consumerVars => StraysNeedFaults'
<1> SUFFICES ASSUME TypeOK, StraysNeedFaults, [ConsumerNext]_consumerVars,
                    NEW p \in Partitions
             PROVE  Cardinality(Strays(p)') <= faults'
  BY DEF StraysNeedFaults
<1>1. IsFiniteSet(Strays(p)) /\ Cardinality(Strays(p)) \in Nat
  <2>1. Strays(p) \in SUBSET Members
    BY DEF Strays
  <2> QED BY <2>1, GroupAssumption, FS_Subset, FS_CardinalityType
<1>2. Cardinality(Strays(p)) <= faults /\ faults \in Int
  BY BoundsAssumption DEF StraysNeedFaults, TypeOK
<1>3. ASSUME Strays(p)' \subseteq Strays(p), faults' \in {faults, faults + 1}
      PROVE  Cardinality(Strays(p)') <= faults'
  <2>1. Cardinality(Strays(p)') \in Nat /\ Cardinality(Strays(p)') <= Cardinality(Strays(p))
    BY <1>1, <1>3, FS_Subset, FS_CardinalityType
  <2> QED BY <1>1, <1>2, <1>3, <2>1
<1>4. ASSUME Strays(p)' \subseteq Strays(p) \union {owner[p]}, faults' = faults + 1
      PROVE  Cardinality(Strays(p)') <= faults'
  <2>1. /\ IsFiniteSet(Strays(p) \union {owner[p]})
        /\ Cardinality(Strays(p) \union {owner[p]}) \in Nat
        /\ Cardinality(Strays(p) \union {owner[p]}) <= Cardinality(Strays(p)) + 1
    BY <1>1, FS_AddElement, FS_CardinalityType
  <2>2. /\ Cardinality(Strays(p)') \in Nat
        /\ Cardinality(Strays(p)') <= Cardinality(Strays(p) \union {owner[p]})
    BY <1>4, <2>1, FS_Subset, FS_CardinalityType
  <2> QED BY <1>1, <1>2, <1>4, <2>1, <2>2
<1> USE DEF brokerVars, memberVars
<1>5. CASE UNCHANGED consumerVars
  BY <1>3, <1>5 DEF consumerVars, Strays
<1>6. ASSUME NEW q \in Partitions, NEW m \in Messages, Produce(q, m)
      PROVE  Cardinality(Strays(p)') <= faults'
  BY <1>3, <1>6 DEF Produce, Strays
<1>7. ASSUME NEW q \in Partitions, NEW c \in Members, AssignOrphan(q, c)
      PROVE  Cardinality(Strays(p)') <= faults'
  <2>1. Strays(p)' \subseteq Strays(p)
    BY <1>7, MembersAssumption DEF AssignOrphan, Assign, Strays, TypeOK
  <2> QED BY <1>3, <1>7, <2>1 DEF AssignOrphan
<1>8. ASSUME NEW q \in Partitions, NEW c \in Members, Rebalance(q, c)
      PROVE  Cardinality(Strays(p)') <= faults'
  <2>1. Strays(p)' \subseteq Strays(p) \union {owner[p]}
    BY <1>8 DEF Rebalance, Assign, Strays, TypeOK
  <2> QED BY <1>4, <1>8, <2>1 DEF Rebalance, Fault
<1>9. ASSUME NEW c \in Members, Start(c) \/ Cancel(c) \/ Crash(c)
      PROVE  Cardinality(Strays(p)') <= faults'
  <2>1. Strays(p)' \subseteq Strays(p)
    <3>1. CASE Start(c)
      BY <3>1 DEF Start, Strays, TypeOK, HoldsRecord
    <3>2. CASE Cancel(c)
      BY <3>2 DEF Cancel, Strays
    <3>3. CASE Crash(c)
      BY <3>3, MembersAssumption DEF Crash, Release, Strays, TypeOK, HoldsRecord
    <3> QED BY <1>9, <3>1, <3>2, <3>3
  <2>2. faults' \in {faults, faults + 1}
    BY <1>9 DEF Start, Cancel, Crash, Fault
  <2> QED BY <1>3, <2>1, <2>2
<1>10. ASSUME NEW c \in Members, HandlerReturns(c) PROVE Cardinality(Strays(p)') <= faults'
  <2>1. Strays(p)' \subseteq Strays(p)
    BY <1>10 DEF HandlerReturns, HandlerSucceeds, HandlerFails, Strays, TypeOK, HoldsRecord, Steps
  <2> QED BY <1>3, <1>10, <2>1 DEF HandlerReturns, HandlerSucceeds, HandlerFails
<1>11. ASSUME NEW c \in Members, LoopStep(c) PROVE Cardinality(Strays(p)') <= faults'
  <2>1. Strays(p)' \subseteq Strays(p)
    <3> USE DEF Strays, TypeOK, HoldsRecord, Steps
    <3>1. CASE Fetch(c)
      <4>1. PICK q \in Partitions :
              owner[q] = c /\ current' = [current EXCEPT ![c] = <<q, position[q]>>]
        BY <3>1 DEF Fetch
      <4>2. UNCHANGED owner /\ pc' = [pc EXCEPT ![c] = "handling"]
        BY <3>1 DEF Fetch
      <4> QED BY <4>1, <4>2
    <3>2. CASE FetchStops(c)
      BY <3>2, MembersAssumption DEF FetchStops, Release
    <3>3. CASE BackoffElapses(c) \/ SendToDLQ(c)
      BY <3>3 DEF BackoffElapses, SendToDLQ
    <3>4. CASE BackoffCancelled(c) \/ DLQCancelled(c) \/ DLQFails(c) \/ CommitSucceeds(c)
               \/ CommitFails(c)
      <4>1. NextRecord(c) /\ UNCHANGED owner
        BY <3>4 DEF BackoffCancelled, DLQCancelled, DLQFails, DLQUnsent, CommitSucceeds,
           CommitFails
      <4> QED BY <4>1 DEF NextRecord
    <3> QED BY <1>11, <3>1, <3>2, <3>3, <3>4 DEF LoopStep
  <2>2. faults' \in {faults, faults + 1}
    BY <1>11 DEF LoopStep, Fetch, FetchStops, BackoffElapses, BackoffCancelled, SendToDLQ,
       DLQCancelled, DLQFails, DLQUnsent, CommitSucceeds, CommitFails, Fault
  <2> QED BY <1>3, <2>1, <2>2
<1> QED BY <1>5, <1>6, <1>7, <1>8, <1>9, <1>10, <1>11 DEF ConsumerNext, Environment
=============================================================================
