-------------------------- MODULE OrderStoreProofs --------------------------
(***************************************************************************)
(* The cache never holds a phantom: StoreInv is an invariant of the cached *)
(* repository, for any orders, goroutines and numbers of calls.            *)
(***************************************************************************)
EXTENDS OrderStore, TLAPS

(* At first there are no rows, no copies and no calls.                     *)
LEMMA RepositoryInitInv == RepositoryInit => RepositoryInv
BY DEF RepositoryInit, RepositoryInv, RepositoryTypeOK, CacheHoldsCommittedOrders, Statuses,
   NoCall

(* A call starts.                                                          *)
LEMMA BeginInv ==
    ASSUME RepositoryInv, NEW c \in Callers, Begin(c)
    PROVE  RepositoryInv'
<1> USE AbsentAssumption DEF RepositoryInv, RepositoryTypeOK, CacheHoldsCommittedOrders,
        Statuses, NoCall
<1>1. PICK o \in Orders, method \in {"CreateWithOutbox", "GetByID", "UpdateStatus"},
           first \in {"insert", "lookup", "update"}, s \in Statuses \union {Absent} :
        /\ Enter(c, method, first, o, s)
        /\ first \in {"insert", "update"} => s # Absent
  BY DEF Begin, BeginCreate, BeginGet, BeginUpdate
<1>2. RepositoryTypeOK'
  BY <1>1 DEF Enter
<1>3. CacheHoldsCommittedOrders'
  BY <1>1 DEF Enter
<1> QED BY <1>2, <1>3

(* A call goes on, or its process dies.                                    *)
LEMMA OperationInv ==
    ASSUME RepositoryInv, NEW c \in Callers, Operation(c) \/ CallerDies(c)
    PROVE  RepositoryInv'
<1> USE AbsentAssumption DEF RepositoryInv, RepositoryTypeOK, CacheHoldsCommittedOrders,
        Statuses, NoCall
<1>1. CASE InsertRow(c)
  BY <1>1 DEF InsertRow, Goto
<1>2. CASE UpdateRow(c)
  BY <1>2 DEF UpdateRow, Goto
<1>3. CASE ReadRow(c)
  BY <1>3 DEF ReadRow, Goto
<1>4. CASE CacheMiss(c)
  BY <1>4 DEF CacheMiss, Goto
<1>5. CASE WriteUnanswered(c)
  BY <1>5 DEF WriteUnanswered, Leave
<1>6. CASE WarmCache(c)
  BY <1>6 DEF WarmCache, Leave
<1>7. CASE CacheHit(c) \/ DatabaseFails(c) \/ WarmFails(c) \/ CallerDies(c)
  BY <1>7 DEF CacheHit, DatabaseFails, WarmFails, CallerDies, Leave
<1> QED BY <1>1, <1>2, <1>3, <1>4, <1>5, <1>6, <1>7 DEF Operation

(* A key expires.                                                          *)
LEMMA ExpireInv ==
    ASSUME RepositoryInv, NEW o \in Orders, Expire(o)
    PROVE  RepositoryInv'
BY DEF RepositoryInv, RepositoryTypeOK, CacheHoldsCommittedOrders, Expire, callVars

(* No phantom, however often the repository is called: whatever fails, goes *)
(* unanswered or dies, the cache holds committed orders only, and so does a *)
(* call that is about to write to it.                                       *)
THEOREM RepositoryInvariant == RepositorySpec => []RepositoryInv
<1>1. RepositoryInv /\ [RepositoryNext]_repositoryVars => RepositoryInv'
  <2> SUFFICES ASSUME RepositoryInv, [RepositoryNext]_repositoryVars PROVE RepositoryInv'
    OBVIOUS
  <2>1. CASE UNCHANGED repositoryVars
    BY <2>1 DEF repositoryVars, callVars, RepositoryInv, RepositoryTypeOK,
       CacheHoldsCommittedOrders
  <2> QED BY <2>1, BeginInv, OperationInv, ExpireInv DEF RepositoryNext
<1> QED BY <1>1, RepositoryInitInv, PTL DEF RepositorySpec

(* The goroutines of a run are the repository with their calls counted.     *)
LEMMA StoreIsRepository == StoreSpec => RepositorySpec
<1>1. StoreInit => RepositoryInit
  BY DEF StoreInit
<1>2. [StoreNext]_storeVars => [RepositoryNext]_repositoryVars
  BY DEF StoreNext, RepositoryNext, storeVars
<1> QED BY <1>1, <1>2, PTL DEF StoreSpec, RepositorySpec

(* StoreInv, the invariant of the runs, in every reachable state.           *)
THEOREM StoreInvariant == StoreSpec => []StoreInv
<1> DEFINE Counted == calls \in [Callers -> 0 .. MaxCalls]
<1>1. StoreInit => Counted
  BY CallsAssumption DEF StoreInit
<1>2. Counted /\ [StoreNext]_storeVars => Counted'
  <2> SUFFICES ASSUME Counted, [StoreNext]_storeVars PROVE Counted'
    OBVIOUS
  <2>1. ASSUME NEW c \in Callers, calls[c] < MaxCalls, calls' = [calls EXCEPT ![c] = @ + 1]
        PROVE  Counted'
    BY <2>1, CallsAssumption
  <2> QED BY <2>1 DEF StoreNext, storeVars
<1>3. StoreSpec => []Counted
  BY <1>1, <1>2, PTL DEF StoreSpec
<1>4. RepositoryInv /\ Counted => StoreInv
  BY DEF StoreInv
<1> QED BY <1>3, <1>4, StoreIsRepository, RepositoryInvariant, PTL
=============================================================================
