----------------------------- MODULE OrderStore -----------------------------
(***************************************************************************)
(* CachedOrderRepository: a proxy that keeps a copy of each order's row in *)
(* Redis.  The order service creates and reads orders, the payment service *)
(* updates their status; every call is a sequence of separate database and *)
(* Redis operations, and calls of different processes interleave.          *)
(*                                                                         *)
(* The key of an order expires ten minutes after it was last written.  A   *)
(* Redis error never fails a call; a database error always does.           *)
(***************************************************************************)
EXTENDS Integers, FiniteSets

CONSTANTS
    Orders,         \* order ids
    Callers,        \* goroutines that call the repository
    Updaters,       \* those of the payment service, which call UpdateStatus
    Absent,         \* no row, no cached copy
    MayFail,        \* whether commands can fail and processes die
    MaxCalls        \* bound: calls per goroutine

ASSUME CallersAssumption == Updaters \subseteq Callers
ASSUME AbsentAssumption == Absent \notin Orders \union {"pending", "paid", "cancelled"}
ASSUME FailureAssumption == MayFail \in BOOLEAN
ASSUME CallsAssumption == MaxCalls \in Nat

VARIABLES
    row,      \* orders.status of each committed row
    cache,    \* the status in the JSON at key order:<id>
    call,     \* the call each goroutine is in
    step,     \* its next operation
    subject,  \* the order it is about
    order,    \* the row the call has in memory
    calls     \* how many calls each goroutine has made

callVars == <<call, step, subject, order>>
repositoryVars == <<row, cache, callVars>>
storeVars == <<repositoryVars, calls>>

Statuses == {"pending", "paid", "cancelled"}
NoCall == "none"

RepositoryInit ==
    /\ row = [o \in Orders |-> Absent]
    /\ cache = [o \in Orders |-> Absent]
    /\ call = [c \in Callers |-> NoCall]
    /\ step = [c \in Callers |-> NoCall]
    /\ subject = [c \in Callers |-> Absent]
    /\ order = [c \in Callers |-> Absent]

StoreInit == RepositoryInit /\ calls = [c \in Callers |-> 0]

\* A goroutine enters a method for order o; s is the status it will write.
Enter(c, method, first, o, s) ==
    /\ call[c] = NoCall
    /\ call' = [call EXCEPT ![c] = method]
    /\ step' = [step EXCEPT ![c] = first]
    /\ subject' = [subject EXCEPT ![c] = o]
    /\ order' = [order EXCEPT ![c] = s]
    /\ UNCHANGED <<row, cache>>

\* The method returns.
Leave(c) ==
    /\ call' = [call EXCEPT ![c] = NoCall]
    /\ step' = [step EXCEPT ![c] = NoCall]
    /\ subject' = [subject EXCEPT ![c] = Absent]
    /\ order' = [order EXCEPT ![c] = Absent]

Goto(c, next) ==
    /\ step' = [step EXCEPT ![c] = next]
    /\ UNCHANGED <<call, subject>>

-----------------------------------------------------------------------------
(* The methods.                                                            *)

\* CreateWithOutbox makes a new order id and inserts the row.
BeginCreate(c, o) ==
    /\ c \notin Updaters
    /\ row[o] = Absent
    /\ \A d \in Callers : subject[d] # o
    /\ Enter(c, "CreateWithOutbox", "insert", o, "pending")

\* Mutant: the cache is written although the insert failed.
InsertRowUnchecked(c) ==
    /\ step[c] = "insert"
    /\ row' \in {row, [row EXCEPT ![subject[c]] = order[c]]}
    /\ Goto(c, "warm")
    /\ UNCHANGED <<cache, order>>

InsertRow(c) ==
    /\ step[c] = "insert"
    /\ row' = [row EXCEPT ![subject[c]] = order[c]]
    /\ Goto(c, "warm")
    /\ UNCHANGED <<cache, order>>

\* GetByID looks the order up in Redis first.
BeginGet(c, o) == c \notin Updaters /\ Enter(c, "GetByID", "lookup", o, Absent)

CacheHit(c) ==
    /\ step[c] = "lookup"
    /\ cache[subject[c]] # Absent
    /\ Leave(c)
    /\ UNCHANGED <<row, cache>>

\* redis.Nil, or a Redis error, which is only logged.
CacheMiss(c) ==
    /\ step[c] = "lookup"
    /\ cache[subject[c]] = Absent \/ MayFail
    /\ Goto(c, "read")
    /\ UNCHANGED <<row, cache, order>>

\* UpdateStatus updates the row, then reads it back.
BeginUpdate(c, o, s) ==
    /\ c \in Updaters
    /\ s \in {"paid", "cancelled"}
    /\ Enter(c, "UpdateStatus", "update", o, s)

UpdateRow(c) ==
    /\ step[c] = "update"
    /\ row[subject[c]] # Absent
    /\ row' = [row EXCEPT ![subject[c]] = order[c]]
    /\ Goto(c, "read")
    /\ UNCHANGED <<cache, order>>

\* dbRepo.GetByID, for both callers.
ReadRow(c) ==
    /\ step[c] = "read"
    /\ row[subject[c]] # Absent
    /\ order' = [order EXCEPT ![c] = row[subject[c]]]
    /\ Goto(c, "warm")
    /\ UNCHANGED <<row, cache>>

\* The database has no such row or answers with an error: the method returns it.
DatabaseFails(c) ==
    /\ step[c] \in {"insert", "update", "read"}
    /\ MayFail \/ (step[c] # "insert" /\ row[subject[c]] = Absent)
    /\ Leave(c)
    /\ UNCHANGED <<row, cache>>

\* The write takes effect and its answer is lost: the method returns an error for
\* an order that is stored.
WriteUnanswered(c) ==
    /\ MayFail
    /\ \/ step[c] = "insert"
       \/ step[c] = "update" /\ row[subject[c]] # Absent
    /\ row' = [row EXCEPT ![subject[c]] = order[c]]
    /\ Leave(c)
    /\ UNCHANGED cache

\* SetOrder; a method whose database calls succeeded ends with it.
WarmCache(c) ==
    /\ step[c] = "warm"
    /\ cache' = [cache EXCEPT ![subject[c]] = order[c]]
    /\ Leave(c)
    /\ UNCHANGED row

WarmFails(c) ==
    /\ step[c] = "warm"
    /\ MayFail
    /\ Leave(c)
    /\ UNCHANGED <<row, cache>>

\* The process dies: what the call had in memory is gone.
CallerDies(c) ==
    /\ call[c] # NoCall
    /\ MayFail
    /\ Leave(c)
    /\ UNCHANGED <<row, cache>>

\* Mutant: SET without an expiration.
ExpireNever(o) == FALSE

\* The key's ten minutes are over.
Expire(o) ==
    /\ cache[o] # Absent
    /\ cache' = [cache EXCEPT ![o] = Absent]
    /\ UNCHANGED <<row, callVars>>

Operation(c) ==
    \/ InsertRow(c) \/ CacheHit(c) \/ CacheMiss(c) \/ UpdateRow(c) \/ ReadRow(c)
    \/ DatabaseFails(c) \/ WriteUnanswered(c) \/ WarmCache(c) \/ WarmFails(c)

Begin(c) ==
    \E o \in Orders :
        \/ BeginCreate(c, o) \/ BeginGet(c, o)
        \/ \E s \in Statuses : BeginUpdate(c, o, s)

\* The repository, however often it is called ...
RepositoryNext ==
    \/ \E c \in Callers : Begin(c) \/ Operation(c) \/ CallerDies(c)
    \/ \E o \in Orders : Expire(o)

RepositorySpec == RepositoryInit /\ [][RepositoryNext]_repositoryVars

\* ... and with a bound on the calls.
StoreNext ==
    \/ \E c \in Callers :
        /\ calls[c] < MaxCalls
        /\ calls' = [calls EXCEPT ![c] = @ + 1]
        /\ Begin(c)
    \/ /\ UNCHANGED calls
       /\ \/ \E c \in Callers : Operation(c) \/ CallerDies(c)
          \/ \E o \in Orders : Expire(o)

StoreSpec == StoreInit /\ [][StoreNext]_storeVars

\* A call returns, and a key that nobody rewrites expires.
FairStoreSpec ==
    /\ StoreSpec
    /\ \A c \in Callers : WF_storeVars(Operation(c) /\ UNCHANGED calls)
    /\ \A o \in Orders : WF_storeVars(Expire(o) /\ UNCHANGED calls)

-----------------------------------------------------------------------------
(* Properties.                                                             *)

RepositoryTypeOK ==
    /\ row \in [Orders -> Statuses \union {Absent}]
    /\ cache \in [Orders -> Statuses \union {Absent}]
    /\ call \in [Callers -> {NoCall, "CreateWithOutbox", "GetByID", "UpdateStatus"}]
    /\ step \in [Callers -> {NoCall, "insert", "lookup", "update", "read", "warm"}]
    /\ subject \in [Callers -> Orders \union {Absent}]
    /\ order \in [Callers -> Statuses \union {Absent}]
    /\ \A c \in Callers :
        /\ (call[c] = NoCall) <=> (subject[c] = Absent)
        /\ (call[c] = NoCall) <=> (step[c] = NoCall)
        /\ step[c] \in {"insert", "update", "warm"} => order[c] # Absent

\* No phantom: a cached order, or one about to be cached, is a committed one.
CacheHoldsCommittedOrders ==
    /\ \A o \in Orders : cache[o] # Absent => row[o] # Absent
    /\ \A c \in Callers : step[c] = "warm" => row[subject[c]] # Absent

\* Both are preserved together by every step.
RepositoryInv == RepositoryTypeOK /\ CacheHoldsCommittedOrders

StoreInv == RepositoryInv /\ calls \in [Callers -> 0 .. MaxCalls]

Coherent(o) == cache[o] \in {Absent, row[o]}

\* A stale copy does not stay: once the calls are over it expires, and nothing
\* brings it back.
StaleIsTransient == \A o \in Orders : <>[]Coherent(o)

\* cached_order_repo.go:77-78 says that cache and database agree after UpdateStatus
\* has returned.
AgreeAfterUpdate ==
    \A o \in Orders :
        (\A c \in Updaters : subject[c] # o) => Coherent(o)
=============================================================================
