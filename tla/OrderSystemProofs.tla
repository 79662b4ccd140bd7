------------------------- MODULE OrderSystemProofs -------------------------
(***************************************************************************)
(* The composed order system for every number of requests, members,        *)
(* partitions and faults: its payment part is Payment, and no payment is   *)
(* ever made for an order whose row is not committed.                      *)
(***************************************************************************)
EXTENDS OrderSystem, PaymentProofs

(* Requests, expiring keys and the calls of the store are invisible to      *)
(* Payment; every other step is one of its own.                             *)
LEMMA PaymentPart == [SystemNext]_systemVars => [PaymentNext]_paymentVars
<1> SUFFICES ASSUME [SystemNext]_systemVars PROVE [PaymentNext]_paymentVars
  OBVIOUS
<1>1. CASE UNCHANGED systemVars
  BY <1>1 DEF systemVars
<1>2. ASSUME NEW o \in Orders, RelayPublishes(o) PROVE PaymentNext
  BY <1>2, MessagesAssumption DEF RelayPublishes, PaymentNext
<1>3. ASSUME NEW o \in Orders, NEW k \in Clients, CreateOrder(k, o) \/ GetOrderByID(k, o)
      PROVE UNCHANGED paymentVars
  BY <1>3 DEF CreateOrder, GetOrderByID, Request
<1>4. ASSUME NEW o \in Orders, ExpireKey(o) PROVE UNCHANGED paymentVars
  BY <1>4 DEF ExpireKey
<1>5. ASSUME NEW k \in Clients, Respond(k) \/ RequestDies(k) PROVE UNCHANGED paymentVars
  BY <1>5 DEF Respond, CommitOrder, RequestStep, RequestDies
<1>6. ASSUME NEW c \in Members, PaymentStep(c) PROVE [PaymentNext]_paymentVars
  <2>1. CASE RefreshCache(c) \/ RefreshFails(c)
    BY <2>1 DEF RefreshCache, RefreshFails
  <2>2. CASE StartUpdate(c) \/ ChangeRow(c) \/ UpdateFails(c) \/ OutsideStore(c)
    <3>1. HandleOrderCreated(c)
      BY <2>2 DEF StartUpdate, ChangeRow, UpdateFails, OutsideStore, HandleOrderCreated
    <3> QED BY <3>1 DEF PaymentNext
  <2> QED BY <1>6, <2>1, <2>2 DEF PaymentStep
<1>7. ASSUME NEW c \in Members,
             PaymentLoop(c) \/ PaymentStart(c) \/ PaymentCancel(c) \/ PaymentDies(c)
      PROVE PaymentNext
  BY <1>7 DEF PaymentLoop, PaymentStart, PaymentCancel, PaymentDies, PaymentNext
<1>8. ASSUME NEW p \in Partitions, NEW c \in Members, PaymentAssign(p, c) PROVE PaymentNext
  BY <1>8 DEF PaymentAssign, PaymentNext
<1> QED BY <1>1, <1>2, <1>3, <1>4, <1>5, <1>6, <1>7, <1>8 DEF SystemNext

(* With the API, the cached store and the relay around it the payment       *)
(* service is still the one of Payment, and keeps all it promises.          *)
THEOREM SystemRunsPayment == SystemSpec => PaymentSpec
<1>1. SystemInit => PaymentInit
  BY DEF SystemInit
<1> QED BY <1>1, PaymentPart, PTL DEF SystemSpec, PaymentSpec

(* The writes of the handler stay in order in the composed system as well.  *)
THEOREM SystemKeepsPaymentInv == SystemSpec => []PaymentInv
BY SystemRunsPayment, PaymentInvariant, PTL

-----------------------------------------------------------------------------
(* Every order in the topic is committed.                                   *)
LogIsPlaced ==
    \A p \in Partitions : \A i \in 1 .. Len(log[p]) :
        log[p][i] \in Orders => log[p][i] \in placed

(* Rows are never deleted.                                                  *)
LEMMA PlacedGrows == [SystemNext]_systemVars => placed \subseteq placed'
<1> SUFFICES ASSUME [SystemNext]_systemVars PROVE placed \subseteq placed'
  OBVIOUS
<1>1. ASSUME NEW k \in Clients, CommitOrder(k) PROVE placed \subseteq placed'
  BY <1>1 DEF CommitOrder, Outbox!Store
<1>2. ASSUME NEW k \in Clients, RequestStep(k) \/ RequestDies(k) PROVE UNCHANGED placed
  BY <1>2 DEF RequestStep, RequestDies
<1>3. ASSUME NEW k \in Clients, NEW o \in Orders, CreateOrder(k, o) \/ GetOrderByID(k, o)
      PROVE UNCHANGED placed
  BY <1>3 DEF CreateOrder, GetOrderByID, Request
<1>4. ASSUME NEW o \in Orders, RelayPublishes(o) \/ ExpireKey(o) PROVE UNCHANGED placed
  BY <1>4 DEF RelayPublishes, ExpireKey, storeVars
<1>5. ASSUME NEW c \in Members, PaymentStep(c) PROVE UNCHANGED placed
  BY <1>5 DEF PaymentStep, StartUpdate, ChangeRow, RefreshCache, RefreshFails, UpdateFails,
     OutsideStore, storeVars
<1>6. ASSUME NEW c \in Members,
             PaymentLoop(c) \/ PaymentStart(c) \/ PaymentCancel(c) \/ PaymentDies(c)
      PROVE UNCHANGED placed
  BY <1>6 DEF PaymentLoop, PaymentStart, PaymentCancel, PaymentDies, storeVars
<1>7. ASSUME NEW p \in Partitions, NEW c \in Members, PaymentAssign(p, c)
      PROVE UNCHANGED placed
  BY <1>7 DEF PaymentAssign, storeVars
<1>8. CASE UNCHANGED systemVars
  BY <1>8 DEF systemVars, storeVars
<1> QED BY <1>1, <1>2, <1>3, <1>4, <1>5, <1>6, <1>7, <1>8 DEF SystemNext, Respond

(* Only the relay writes to the topic, and only what the outbox promised.   *)
LEMMA OnlyRelayPublishes ==
    ASSUME [SystemNext]_systemVars
    PROVE  \/ UNCHANGED log
           \/ \E o \in Orders : o \in placed /\ Produce(PartitionOf[o], o)
<1>1. ASSUME NEW o \in Orders, RelayPublishes(o)
      PROVE o \in placed /\ Produce(PartitionOf[o], o)
  BY <1>1 DEF RelayPublishes, PublishOrderEvent, Outbox!Announce
<1>2. ASSUME NEW o \in Orders, ExpireKey(o) PROVE UNCHANGED log
  BY <1>2 DEF ExpireKey, paymentVars, consumerVars, brokerVars
<1>3. ASSUME NEW k \in Clients, NEW o \in Orders, CreateOrder(k, o) \/ GetOrderByID(k, o)
      PROVE UNCHANGED log
  BY <1>3 DEF CreateOrder, GetOrderByID, Request, paymentVars, consumerVars, brokerVars
<1>4. ASSUME NEW k \in Clients, Respond(k) \/ RequestDies(k) PROVE UNCHANGED log
  BY <1>4 DEF Respond, CommitOrder, RequestStep, RequestDies, paymentVars, consumerVars,
     brokerVars
<1>5. ASSUME NEW c \in Members, PaymentStep(c) PROVE UNCHANGED log
  BY <1>5 DEF PaymentStep, StartUpdate, ChangeRow, RefreshCache, RefreshFails, UpdateFails,
     OutsideStore, DrawOutcome, UpdateStatus, HandlerError, IgnoreDuplicate, Publish,
     MarkProcessed, HandlerSucceeds, HandlerFails, paymentVars, consumerVars, brokerVars
<1>6. ASSUME NEW c \in Members, PaymentLoop(c) PROVE UNCHANGED log
  BY <1>6 DEF PaymentLoop, ServiceLoop, LoopStep, Fetch, FetchStops, BackoffElapses,
     BackoffCancelled, SendToDLQ, DLQCancelled, DLQFails, DLQUnsent, CommitSucceeds,
     CommitFails, brokerVars
<1>7. ASSUME NEW c \in Members, PaymentStart(c) \/ PaymentCancel(c) \/ PaymentDies(c)
      PROVE UNCHANGED log
  BY <1>7 DEF PaymentStart, PaymentCancel, PaymentDies, ServiceStart, ServiceCancel,
     CrashService, Start, Cancel, Crash, brokerVars
<1>8. ASSUME NEW p \in Partitions, NEW c \in Members, PaymentAssign(p, c)
      PROVE UNCHANGED log
  BY <1>8 DEF PaymentAssign, ServiceAssign, AssignOrphan, Assign
<1>9. CASE UNCHANGED systemVars
  BY <1>9 DEF systemVars, paymentVars, consumerVars, brokerVars
<1> QED BY <1>1, <1>2, <1>3, <1>4, <1>5, <1>6, <1>7, <1>8, <1>9 DEF SystemNext

(* No step breaks this: what is appended to the topic is committed.        *)
LEMMA LogIsPlacedStep ==
    PaymentInv /\ LogIsPlaced /\ [SystemNext]_systemVars => LogIsPlaced'
<1> SUFFICES ASSUME PaymentInv, LogIsPlaced, [SystemNext]_systemVars PROVE LogIsPlaced'
  OBVIOUS
<1>1. placed \subseteq placed'
  BY PlacedGrows
<1>2. log \in [Partitions -> Seq(Messages)]
  BY DEF PaymentInv, PaymentTypeOK, TypeOK
<1>3. CASE UNCHANGED log
  BY <1>1, <1>3 DEF LogIsPlaced
<1>4. ASSUME NEW o \in Orders, o \in placed, Produce(PartitionOf[o], o) PROVE LogIsPlaced'
  <2>1. ASSUME NEW p \in Partitions, NEW i \in 1 .. Len(log'[p])
        PROVE log'[p][i] = o \/ (i \in 1 .. Len(log[p]) /\ log'[p][i] = log[p][i])
    <3>1. log[p] \in Seq(Messages)
          /\ log'[p] = IF p = PartitionOf[o] THEN Append(log[p], o) ELSE log[p]
      BY <1>2, <1>4 DEF Produce
    <3> QED BY <2>1, <3>1
  <2> QED BY <1>1, <1>4, <2>1 DEF LogIsPlaced
<1> QED BY <1>3, <1>4, OnlyRelayPublishes

(* The handler never runs into the missing row of order_repo.go:99: however *)
(* often events are relayed, redelivered or retried, the order of an event  *)
(* in progress has a committed row, which UpdateStatus finds.               *)
THEOREM UpdatesAlwaysFindTheirRow == SystemSpec => []UpdatesFindTheirRow
<1>1. SystemInit => LogIsPlaced
  BY DEF SystemInit, PaymentInit, ConsumerInit, LogIsPlaced
<1>2. SystemSpec => []LogIsPlaced
  BY <1>1, LogIsPlacedStep, SystemKeepsPaymentInv, PTL DEF SystemSpec
<1>3. PaymentInv /\ LogIsPlaced => UpdatesFindTheirRow
  <2> SUFFICES ASSUME PaymentInv, LogIsPlaced, NEW c \in Members, stage[c] # Idle
               PROVE  row[MessageOf(c)] # Absent
    BY DEF UpdatesFindTheirRow
  <2>1. /\ MessageOf(c) \in Orders /\ current[c] \in Records
        /\ current[c][2] < Len(log[current[c][1]])
        /\ status \in [Orders -> Outcomes \union {"pending"}]
        /\ log \in [Partitions -> Seq(Messages)]
    BY DEF PaymentInv, PaymentTypeOK, HeldIsInLog, TypeOK, HoldsRecord, Steps
  <2>2. /\ current[c][1] \in Partitions
        /\ current[c][2] + 1 \in 1 .. Len(log[current[c][1]])
    BY <2>1 DEF Records
  <2>3. MessageOf(c) \in placed
    BY <2>1, <2>2 DEF MessageOf, LogIsPlaced
  <2>4. row[MessageOf(c)] = status[MessageOf(c)]
    BY <2>1, <2>3 DEF row
  <2> QED BY <2>1, <2>4, NoRowAssumption
<1> QED BY <1>2, <1>3, SystemKeepsPaymentInv, PTL

(* With one payment process the row of a processed order and the outcome    *)
(* announced last agree in the composed system as well, where the update is *)
(* a call of the cached store that requests and expiring keys interleave.   *)
THEOREM SystemKeepsLastOutcome ==
    ASSUME OneMember
    PROVE  SystemSpec => []StatusIsLastAnnounced
BY SystemRunsPayment, LastOutcomeStands, PTL

-----------------------------------------------------------------------------
(* The store of the composed system.                                        *)

Callers == Members \union Clients
Methods == {"none", "CreateWithOutbox", "GetByID", "UpdateStatus"}
Operations == {"none", "insert", "lookup", "update", "read", "warm"}

(* A payment handler that is about to write the row of its order is inside  *)
(* UpdateStatus of the store, and nowhere else.                             *)
UpdatesAreInStore ==
    /\ call \in [Callers -> Methods] /\ step \in [Callers -> Operations]
    /\ \A c \in Members :
        stage[c] = "update" => call[c] = "UpdateStatus" /\ step[c] = "update"

StoreOperation == Store!RepositoryNext \/ UNCHANGED Store!repositoryVars

(* Payment changes the status of an order, the API its place in the table;  *)
(* the row the two amount to changes only where the store says so.          *)
LEMMA StoreStep ==
    ASSUME PaymentInv, UpdatesAreInStore, [SystemNext]_systemVars
    PROVE  StoreOperation
<1> USE DEF StoreOperation, Store!RepositoryNext
<1>0. UNCHANGED <<status, storeVars>> => UNCHANGED Store!repositoryVars
  BY DEF storeVars, Store!repositoryVars, Store!callVars, row
<1>1. CASE UNCHANGED systemVars
  BY <1>0, <1>1 DEF systemVars, paymentVars, serviceVars
<1>2. ASSUME NEW o \in Orders, RelayPublishes(o) PROVE StoreOperation
  BY <1>0, <1>2 DEF RelayPublishes, PublishOrderEvent, serviceVars
<1>3. ASSUME NEW o \in Orders, ExpireKey(o) PROVE StoreOperation
  BY <1>3 DEF ExpireKey
<1>4. ASSUME NEW k \in Clients, NEW o \in Orders, CreateOrder(k, o) \/ GetOrderByID(k, o)
      PROVE StoreOperation
  BY <1>4 DEF CreateOrder, GetOrderByID, Store!Begin
<1>5. ASSUME NEW k \in Clients, Respond(k) \/ RequestDies(k) PROVE StoreOperation
  BY <1>5 DEF Respond, CommitOrder, RequestStep, RequestDies, Store!Operation
<1>6. ASSUME NEW c \in Members, PaymentStep(c) PROVE StoreOperation
  <2>1. CASE StartUpdate(c)
    <3>1. MessageOf(c) \in Orders /\ Store!BeginUpdate(c, MessageOf(c), outcome'[c])
      BY <2>1 DEF StartUpdate, DrawOutcome
    <3>2. outcome'[c] \in Store!Statuses
      BY <3>1 DEF Store!BeginUpdate, Store!Statuses
    <3> QED BY <3>1, <3>2 DEF Store!Begin
  <2>2. CASE ChangeRow(c) \/ RefreshCache(c) \/ RefreshFails(c) \/ UpdateFails(c)
    BY <2>2 DEF ChangeRow, RefreshCache, RefreshFails, UpdateFails, Store!Operation
  <2>3. CASE OutsideStore(c)
    <3>1. stage[c] # "update"
      BY <2>3 DEF OutsideStore, UpdatesAreInStore, Store!NoCall
    <3>2. UNCHANGED <<status, storeVars>>
      BY <2>3, <3>1 DEF OutsideStore, IgnoreDuplicate, Publish, MarkProcessed, HandlerError,
         serviceVars
    <3> QED BY <1>0, <3>2
  <2> QED BY <1>6, <2>1, <2>2, <2>3 DEF PaymentStep
<1>7. ASSUME NEW c \in Members, PaymentDies(c) PROVE StoreOperation
  BY <1>0, <1>7 DEF PaymentDies, CrashService
<1>8. ASSUME NEW c \in Members, PaymentLoop(c) \/ PaymentStart(c) \/ PaymentCancel(c)
      PROVE StoreOperation
  BY <1>0, <1>8 DEF PaymentLoop, PaymentStart, PaymentCancel, ServiceLoop, ServiceStart,
     ServiceCancel, serviceVars
<1>9. ASSUME NEW p \in Partitions, NEW c \in Members, PaymentAssign(p, c)
      PROVE StoreOperation
  BY <1>0, <1>9 DEF PaymentAssign, ServiceAssign, serviceVars
<1> QED BY <1>1, <1>2, <1>3, <1>4, <1>5, <1>6, <1>7, <1>8, <1>9 DEF SystemNext

(* A step of another caller does not touch a payment handler's call.        *)
LEMMA OthersKeepCalls ==
    ASSUME UpdatesAreInStore, NEW k \in Callers,
           \/ \E o \in Orders : Store!BeginCreate(k, o) \/ Store!BeginGet(k, o)
           \/ Store!Operation(k) \/ Store!CallerDies(k)
    PROVE  /\ call' \in [Callers -> Methods] /\ step' \in [Callers -> Operations]
           /\ \A c \in Callers : c # k => call'[c] = call[c] /\ step'[c] = step[c]
<1> USE DEF UpdatesAreInStore, Methods, Operations, Store!Enter, Store!Leave, Store!Goto,
        Store!NoCall
<1>1. CASE \E o \in Orders : Store!BeginCreate(k, o) \/ Store!BeginGet(k, o)
  BY <1>1 DEF Store!BeginCreate, Store!BeginGet
<1>2. CASE Store!InsertRow(k) \/ Store!UpdateRow(k) \/ Store!ReadRow(k) \/ Store!CacheMiss(k)
  BY <1>2 DEF Store!InsertRow, Store!UpdateRow, Store!ReadRow, Store!CacheMiss
<1>3. CASE \/ Store!CacheHit(k) \/ Store!DatabaseFails(k) \/ Store!WriteUnanswered(k)
           \/ Store!WarmCache(k) \/ Store!WarmFails(k) \/ Store!CallerDies(k)
  BY <1>3 DEF Store!CacheHit, Store!DatabaseFails, Store!WriteUnanswered, Store!WarmCache,
     Store!WarmFails, Store!CallerDies
<1> QED BY <1>1, <1>2, <1>3 DEF Store!Operation

(* A handler enters UpdateStatus when the outcome is drawn, and leaves the   *)
(* stage with the write, with an error or with its process.                 *)
LEMMA UpdatesAreInStoreStep ==
    ASSUME PaymentInv, UpdatesAreInStore, [SystemNext]_systemVars
    PROVE  UpdatesAreInStore'
<1> USE DEF UpdatesAreInStore
<1>1. CASE UNCHANGED <<stage, call, step>>
  BY <1>1
<1>2. ASSUME NEW k \in Clients, NEW o \in Orders, CreateOrder(k, o) \/ GetOrderByID(k, o)
      PROVE UpdatesAreInStore'
  <2>1. k \in Callers /\ k \notin Members /\ Members \subseteq Callers
    BY ClientsAssumption DEF Callers
  <2>2. UNCHANGED stage
    BY <1>2 DEF CreateOrder, GetOrderByID, Request, paymentVars, serviceVars
  <2>3. Store!BeginCreate(k, o) \/ Store!BeginGet(k, o)
    BY <1>2 DEF CreateOrder, GetOrderByID
  <2> QED BY <2>1, <2>2, <2>3, OthersKeepCalls
<1>3. ASSUME NEW k \in Clients, Respond(k) \/ RequestDies(k) PROVE UpdatesAreInStore'
  <2>1. k \in Callers /\ k \notin Members /\ Members \subseteq Callers
    BY ClientsAssumption DEF Callers
  <2>2. UNCHANGED stage
    BY <1>3 DEF Respond, CommitOrder, RequestStep, RequestDies, paymentVars, serviceVars
  <2>3. Store!Operation(k) \/ Store!CallerDies(k)
    BY <1>3 DEF Respond, CommitOrder, RequestStep, RequestDies, Store!Operation
  <2> QED BY <2>1, <2>2, <2>3, OthersKeepCalls
<1>4. ASSUME NEW c \in Members, StartUpdate(c) PROVE UpdatesAreInStore'
  <2>1. /\ call' = [call EXCEPT ![c] = "UpdateStatus"]
        /\ step' = [step EXCEPT ![c] = "update"]
        /\ stage' = [stage EXCEPT ![c] = "update"]
    BY <1>4 DEF StartUpdate, DrawOutcome, Store!BeginUpdate, Store!Enter
  <2>2. stage \in [Members -> {Idle, "update", "publish", "mark"}]
    BY DEF PaymentInv, PaymentTypeOK
  <2> QED BY <2>1, <2>2 DEF Callers, Methods, Operations
<1>5. ASSUME NEW c \in Members,
             \/ ChangeRow(c) \/ UpdateFails(c)
             \/ RefreshCache(c) \/ RefreshFails(c)
             \/ PaymentDies(c) /\ Store!CallerDies(c)
      PROVE UpdatesAreInStore'
  <2>1. /\ call' \in [Callers -> Methods] /\ step' \in [Callers -> Operations]
        /\ \A d \in Callers : d # c => call'[d] = call[d] /\ step'[d] = step[d]
    <3>1. Store!Operation(c) \/ Store!CallerDies(c)
      BY <1>5 DEF ChangeRow, UpdateFails, RefreshCache, RefreshFails, Store!Operation
    <3> QED BY <3>1, OthersKeepCalls DEF Callers
  <2>2. stage \in [Members -> {Idle, "update", "publish", "mark"}]
    BY DEF PaymentInv, PaymentTypeOK
  <2>3. stage'[c] # "update"
    <3>1. CASE ChangeRow(c)
      BY <2>2, <3>1 DEF ChangeRow, UpdateStatus
    <3>2. CASE UpdateFails(c) \/ PaymentDies(c)
      BY <2>2, <3>2 DEF UpdateFails, HandlerError, PaymentDies, CrashService, Return, Idle
    <3>3. CASE RefreshCache(c) \/ RefreshFails(c)
      <4>1. step[c] # "update"
        BY <3>3 DEF RefreshCache, RefreshFails, Store!ReadRow, Store!WarmCache, Store!WarmFails
      <4>2. UNCHANGED stage
        BY <3>3 DEF RefreshCache, RefreshFails, paymentVars, serviceVars
      <4> QED BY <4>1, <4>2
    <3> QED BY <1>5, <3>1, <3>2, <3>3
  <2>4. \A d \in Members : d # c => stage'[d] = stage[d]
    BY <1>5, <2>2 DEF ChangeRow, UpdateStatus, UpdateFails, HandlerError, PaymentDies,
       CrashService, Return, RefreshCache, RefreshFails, paymentVars, serviceVars
  <2> QED BY <2>1, <2>3, <2>4 DEF Callers
<1>6. ASSUME NEW c \in Members,
             OutsideStore(c) \/ (PaymentDies(c) /\ UNCHANGED storeVars)
      PROVE UpdatesAreInStore'
  <2>1. UNCHANGED <<call, step>>
    BY <1>6 DEF OutsideStore, storeVars
  <2>2. stage \in [Members -> {Idle, "update", "publish", "mark"}]
    BY DEF PaymentInv, PaymentTypeOK
  <2>3. \A d \in Members : stage'[d] = "update" => stage[d] = "update"
    BY <1>6, <2>2 DEF OutsideStore, IgnoreDuplicate, Publish, MarkProcessed, HandlerError,
       PaymentDies, CrashService, Return, Idle, serviceVars
  <2> QED BY <2>1, <2>3
<1>7. ASSUME NEW o \in Orders, RelayPublishes(o) \/ ExpireKey(o) PROVE UpdatesAreInStore'
  BY <1>7 DEF RelayPublishes, PublishOrderEvent, ExpireKey, Store!Expire, Store!callVars,
     storeVars, paymentVars, serviceVars
<1>8. ASSUME NEW c \in Members, PaymentLoop(c) \/ PaymentStart(c) \/ PaymentCancel(c)
      PROVE UpdatesAreInStore'
  BY <1>8 DEF PaymentLoop, PaymentStart, PaymentCancel, ServiceLoop, ServiceStart,
     ServiceCancel, storeVars, serviceVars
<1>9. ASSUME NEW p \in Partitions, NEW c \in Members, PaymentAssign(p, c)
      PROVE UpdatesAreInStore'
  BY <1>9 DEF PaymentAssign, ServiceAssign, storeVars, serviceVars
<1>10. CASE UNCHANGED systemVars
  BY <1>1, <1>10 DEF systemVars, paymentVars, serviceVars, storeVars
<1>11. ASSUME NEW c \in Members, PaymentStep(c) \/ PaymentDies(c) PROVE UpdatesAreInStore'
  BY <1>4, <1>5, <1>6, <1>11 DEF PaymentStep, PaymentDies
<1> QED BY <1>2, <1>3, <1>7, <1>8, <1>9, <1>10, <1>11 DEF SystemNext

(* The composed system implements the cached repository: whatever requests, *)
(* payment handlers, errors and crashes do, row, cache and calls change by   *)
(* the operations of CachedOrderRepository and in no other way.             *)
THEOREM SystemImplementsStore == SystemSpec => Store!RepositorySpec
<1>1. SystemInit => Store!RepositoryInit
  BY DEF SystemInit, Store!RepositoryInit, row
<1>2. SystemInit => UpdatesAreInStore
  BY DEF SystemInit, PaymentInit, UpdatesAreInStore, Callers, Methods,
     Operations, Store!NoCall, Idle
<1>3. PaymentInv /\ UpdatesAreInStore /\ [SystemNext]_systemVars
        => UpdatesAreInStore' /\ [Store!RepositoryNext]_Store!repositoryVars
  BY UpdatesAreInStoreStep, StoreStep DEF StoreOperation
<1> QED BY <1>1, <1>2, <1>3, SystemKeepsPaymentInv, PTL DEF SystemSpec, Store!RepositorySpec

(* The invariant of the repository, for the row that Payment and the API    *)
(* keep between them: RepositoryInvariant once more, under the refinement.  *)
LEMMA StoreInvStep ==
    ASSUME Store!RepositoryInv, StoreOperation
    PROVE  Store!RepositoryInv'
<1> USE NoRowAssumption
    DEF Store!RepositoryInv, Store!RepositoryTypeOK, Store!CacheHoldsCommittedOrders,
        Store!Statuses, Store!NoCall, Outcomes
<1>1. CASE UNCHANGED Store!repositoryVars
  BY <1>1 DEF Store!repositoryVars, Store!callVars
<1>2. ASSUME NEW o \in Orders, Store!Expire(o) PROVE Store!RepositoryInv'
  BY <1>2 DEF Store!Expire, Store!callVars
<1>3. ASSUME NEW c \in Callers, Store!Begin(c) PROVE Store!RepositoryInv'
  <2>1. PICK o \in Orders, method \in Methods \ {"none"}, first \in {"insert", "lookup", "update"},
             s \in Store!Statuses \union {Absent} :
          /\ Store!Enter(c, method, first, o, s)
          /\ first \in {"insert", "update"} => s # Absent
    BY <1>3 DEF Store!Begin, Store!BeginCreate, Store!BeginGet, Store!BeginUpdate, Methods
  <2>2. Store!RepositoryTypeOK'
    BY <1>3, <2>1 DEF Store!Enter, Methods, Callers
  <2>3. Store!CacheHoldsCommittedOrders'
    BY <2>1 DEF Store!Enter, Callers
  <2> QED BY <2>2, <2>3
<1>4. ASSUME NEW c \in Callers, Store!Operation(c) \/ Store!CallerDies(c)
      PROVE Store!RepositoryInv'
  <2> USE DEF Callers
  <2>1. CASE Store!InsertRow(c)
    BY <2>1 DEF Store!InsertRow, Store!Goto
  <2>2. CASE Store!UpdateRow(c)
    BY <2>2 DEF Store!UpdateRow, Store!Goto
  <2>3. CASE Store!ReadRow(c)
    BY <2>3 DEF Store!ReadRow, Store!Goto
  <2>4. CASE Store!CacheMiss(c)
    BY <2>4 DEF Store!CacheMiss, Store!Goto
  <2>5. CASE Store!WriteUnanswered(c)
    BY <2>5 DEF Store!WriteUnanswered, Store!Leave
  <2>6. CASE Store!WarmCache(c)
    BY <2>6 DEF Store!WarmCache, Store!Leave
  <2>7. CASE Store!CacheHit(c) \/ Store!DatabaseFails(c) \/ Store!WarmFails(c) \/ Store!CallerDies(c)
    BY <2>7 DEF Store!CacheHit, Store!DatabaseFails, Store!WarmFails, Store!CallerDies,
       Store!Leave
  <2> QED BY <1>4, <2>1, <2>2, <2>3, <2>4, <2>5, <2>6, <2>7 DEF Store!Operation
<1> QED BY <1>1, <1>2, <1>3, <1>4 DEF StoreOperation, Store!RepositoryNext, Callers

(* No phantoms in the composed system: a copy in the cache, and one about to *)
(* be written, is of an order that is committed, so GetOrderByID answers     *)
(* from the cache for such orders only.                                     *)
THEOREM SystemHasNoPhantoms == SystemSpec => []Store!CacheHoldsCommittedOrders
<1>1. Store!RepositoryInit => Store!RepositoryInv
  BY DEF Store!RepositoryInit, Store!RepositoryInv, Store!RepositoryTypeOK,
     Store!CacheHoldsCommittedOrders, Store!Statuses, Store!NoCall
<1>2. Store!RepositoryInv /\ [Store!RepositoryNext]_Store!repositoryVars => Store!RepositoryInv'
  BY StoreInvStep DEF StoreOperation
<1>3. Store!RepositoryInv => Store!CacheHoldsCommittedOrders
  BY DEF Store!RepositoryInv
<1> QED BY <1>1, <1>2, <1>3, SystemImplementsStore, PTL DEF Store!RepositorySpec
=============================================================================
