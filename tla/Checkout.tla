------------------------------ MODULE Checkout ------------------------------
(***************************************************************************)
(* Checkout in the shop of go_redis: OrderService.CreateOrder takes a      *)
(* Redis lock per user that expires by itself, snapshots the cart, sells   *)
(* the items in one PostgreSQL transaction with row locks, and then clears *)
(* the cart, adds points to the leaderboard and publishes a notification,  *)
(* before a deferred script gives the lock back.                           *)
(*                                                                         *)
(* A product that does not exist behaves as one with no stock: in both     *)
(* cases CreateOrder returns before it writes.                             *)
(***************************************************************************)
EXTENDS Integers, FiniteSetsExt

CONSTANTS
    Users,
    Products,
    Requests,       \* calls of CreateOrder; each creates at most one order
    UserOf,         \* the user a call is made for
    InitialStock,   \* products.stock as seeded
    Nobody,         \* holder of a free lock
    NoProduct,      \* a transaction that waits for no row
    MaxAdded,       \* bound: units of a product a user ever adds to the cart
    MaxFaults       \* bound: failed calls, crashes, locks that expire in use

ASSUME UserOfAssumption == UserOf \in [Requests -> Users]
ASSUME StockAssumption == InitialStock \in [Products -> Nat]
ASSUME NamesAssumption == Nobody \notin Requests /\ NoProduct \notin Products
ASSUME CheckoutBounds == MaxAdded \in Nat /\ MaxFaults \in Nat

VARIABLES
    cart,      \* Redis hash cart:<user>
    added,     \* history: units each user ever added to the cart
    lock,      \* Redis key lock:order:<user>: the call whose value it holds
    stock,     \* committed products.stock
    ordered,   \* the calls whose order is committed
    scored,    \* the calls that added points to the leaderboard
    notified,  \* the calls that published to notif:orders
    pc,        \* where each call is in CreateOrder
    items,     \* its snapshot of the cart
    todo,      \* products its transaction has yet to sell
    want,      \* product whose row its transaction waits for
    rowLock,   \* the call whose transaction holds a product's row
    faults     \* how many faults have happened

redisVars == <<cart, added, lock>>
tableVars == <<stock, ordered, rowLock>>
rewardVars == <<scored, notified>>
callVars == <<items, todo, want>>
checkoutVars == <<redisVars, tableVars, rewardVars, callVars, pc, faults>>

NoItems == [p \in Products |-> 0]

Fault == faults < MaxFaults /\ faults' = faults + 1

Goto(r, step) == pc' = [pc EXCEPT ![r] = step]

CheckoutInit ==
    /\ cart = [u \in Users |-> NoItems]
    /\ added = [u \in Users |-> NoItems]
    /\ lock = [u \in Users |-> Nobody]
    /\ stock = InitialStock
    /\ ordered = {}
    /\ scored = {}
    /\ notified = {}
    /\ pc = [r \in Requests |-> "idle"]
    /\ items = [r \in Requests |-> NoItems]
    /\ todo = [r \in Requests |-> {}]
    /\ want = [r \in Requests |-> NoProduct]
    /\ rowLock = [p \in Products |-> Nobody]
    /\ faults = 0

-----------------------------------------------------------------------------
(* The cart and the lock.                                                  *)

\* CartService.AddToCart: HINCRBY.
AddToCart(u, p) ==
    /\ added[u][p] < MaxAdded
    /\ cart' = [cart EXCEPT ![u][p] = @ + 1]
    /\ added' = [added EXCEPT ![u][p] = @ + 1]
    /\ UNCHANGED <<lock, tableVars, rewardVars, callVars, pc, faults>>

\* Mutant: SET without NX.
AcquireLockBySet(r) ==
    /\ pc[r] = "idle"
    /\ lock' = [lock EXCEPT ![UserOf[r]] = r]
    /\ Goto(r, "cart")
    /\ UNCHANGED <<cart, added, tableVars, rewardVars, callVars, faults>>

\* SETNX succeeds.
AcquireLock(r) ==
    /\ pc[r] = "idle"
    /\ lock[UserOf[r]] = Nobody
    /\ lock' = [lock EXCEPT ![UserOf[r]] = r]
    /\ Goto(r, "cart")
    /\ UNCHANGED <<cart, added, tableVars, rewardVars, callVars, faults>>

\* SETNX finds the key: "another order is processing".
LockIsBusy(r) ==
    /\ pc[r] = "idle"
    /\ lock[UserOf[r]] # Nobody
    /\ Goto(r, "done")
    /\ UNCHANGED <<redisVars, tableVars, rewardVars, callVars, faults>>

\* SETNX returns an error, whether or not it took effect: CreateOrder returns it
\* before the release is deferred.
LockUnanswered(r) ==
    /\ pc[r] = "idle"
    /\ Fault
    /\ lock' \in {lock, [lock EXCEPT ![UserOf[r]] = IF @ = Nobody THEN r ELSE @]}
    /\ Goto(r, "done")
    /\ UNCHANGED <<cart, added, tableVars, rewardVars, callVars>>

\* Mutant: the key is set without a TTL.
ExpireLockNever(u) == FALSE

\* The key expires.  For a call that is still running that is a fault: it has
\* taken longer than the 30 seconds of the lock.
ExpireLock(u) ==
    /\ lock[u] # Nobody
    /\ IF pc[lock[u]] = "done" THEN UNCHANGED faults ELSE Fault
    /\ lock' = [lock EXCEPT ![u] = Nobody]
    /\ UNCHANGED <<cart, added, tableVars, rewardVars, callVars, pc>>

\* CartService.GetCart; an empty cart ends the call.
GetCart(r) ==
    /\ pc[r] = "cart"
    /\ LET content == cart[UserOf[r]] IN
        /\ items' = [items EXCEPT ![r] = content]
        /\ todo' = [todo EXCEPT ![r] = {p \in Products : content[p] > 0}]
        /\ Goto(r, IF content = NoItems THEN "release" ELSE "selling")
    /\ UNCHANGED <<redisVars, tableVars, rewardVars, want, faults>>

-----------------------------------------------------------------------------
(* The transaction.                                                        *)

\* Mutant: an error path leaves the transaction open.
ReleaseNoRows(r) == UNCHANGED rowLock

ReleaseRows(r) == rowLock' = [p \in Products |-> IF rowLock[p] = r THEN Nobody ELSE rowLock[p]]

\* Mutant: the transaction waits on after it was rolled back.
EndTransactionKeepsWant(r) ==
    /\ ReleaseRows(r)
    /\ todo' = [todo EXCEPT ![r] = {}]
    /\ UNCHANGED <<items, want>>

\* Its row locks are released; todo and want mean nothing any more.
EndTransaction(r) ==
    /\ ReleaseRows(r)
    /\ todo' = [todo EXCEPT ![r] = {}]
    /\ want' = [want EXCEPT ![r] = NoProduct]
    /\ UNCHANGED items

\* SELECT ... FOR UPDATE is sent, for the items in the order of a Go map.
FindByIDForUpdate(r, p) ==
    /\ pc[r] = "selling"
    /\ want[r] = NoProduct
    /\ p \in todo[r]
    /\ want' = [want EXCEPT ![r] = p]
    /\ UNCHANGED <<redisVars, tableVars, rewardVars, pc, items, todo, faults>>

\* Mutant: the row is read without FOR UPDATE.
SellItemUnlocked(r, p) ==
    /\ want[r] = p
    /\ p \in Products
    /\ stock[p] >= items[r][p]
    /\ todo' = [todo EXCEPT ![r] = @ \ {p}]
    /\ want' = [want EXCEPT ![r] = NoProduct]
    /\ UNCHANGED <<redisVars, tableVars, rewardVars, pc, items, faults>>

\* The row lock is granted, the stock suffices, and DecreaseStock is executed in
\* the transaction.
SellItem(r, p) ==
    /\ want[r] = p
    /\ p \in Products
    /\ rowLock[p] = Nobody
    /\ stock[p] >= items[r][p]
    /\ rowLock' = [rowLock EXCEPT ![p] = r]
    /\ todo' = [todo EXCEPT ![r] = @ \ {p}]
    /\ want' = [want EXCEPT ![r] = NoProduct]
    /\ UNCHANGED <<redisVars, stock, ordered, rewardVars, pc, items, faults>>

\* Mutant: the transaction commits what it has sold so far.
InsufficientStockCommits(r, p) ==
    /\ want[r] = p
    /\ p \in Products
    /\ rowLock[p] = Nobody
    /\ stock[p] < items[r][p]
    /\ stock' = [q \in Products |-> IF q \in todo[r] THEN stock[q] ELSE stock[q] - items[r][q]]
    /\ EndTransaction(r)
    /\ Goto(r, "release")
    /\ UNCHANGED <<redisVars, ordered, rewardVars, faults>>

\* Mutant: the error of the transaction is not checked.
InsufficientStockIgnored(r, p) ==
    /\ want[r] = p
    /\ p \in Products
    /\ rowLock[p] = Nobody
    /\ stock[p] < items[r][p]
    /\ EndTransaction(r)
    /\ Goto(r, "clearing")
    /\ UNCHANGED <<redisVars, stock, ordered, rewardVars, faults>>

\* The row lock is granted and the stock does not suffice: rollback.
InsufficientStock(r, p) ==
    /\ want[r] = p
    /\ p \in Products
    /\ rowLock[p] = Nobody
    /\ stock[p] < items[r][p]
    /\ EndTransaction(r)
    /\ Goto(r, "release")
    /\ UNCHANGED <<redisVars, stock, ordered, rewardVars, faults>>

\* PostgreSQL finds calls that wait for each other and aborts one of them.
AbortDeadlock(r) ==
    /\ \E S \in SUBSET Requests :
        /\ r \in S
        /\ \A s \in S : want[s] # NoProduct /\ rowLock[want[s]] \in S
    /\ EndTransaction(r)
    /\ Goto(r, "release")
    /\ UNCHANGED <<redisVars, stock, ordered, rewardVars, faults>>

\* The order is inserted and the transaction committed: the decrements count.
TakeStock(r) ==
    /\ pc[r] = "selling"
    /\ todo[r] = {}
    /\ stock' = [p \in Products |-> stock[p] - items[r][p]]
    /\ ordered' = ordered \union {r}
    /\ EndTransaction(r)

CommitOrder(r) ==
    /\ TakeStock(r)
    /\ Goto(r, "clearing")
    /\ UNCHANGED <<redisVars, rewardVars, faults>>

\* The answer to COMMIT is lost: the order stands and the caller gets an error.
CommitUnanswered(r) ==
    /\ TakeStock(r)
    /\ Fault
    /\ Goto(r, "release")
    /\ UNCHANGED <<redisVars, rewardVars>>

-----------------------------------------------------------------------------
(* After the commit.                                                       *)

ClearCart(r) ==
    /\ pc[r] = "clearing"
    /\ cart' = [cart EXCEPT ![UserOf[r]] = NoItems]
    /\ Goto(r, "scoring")
    /\ UNCHANGED <<added, lock, tableVars, rewardVars, callVars, faults>>

AddScore(r) ==
    /\ pc[r] = "scoring"
    /\ scored' = scored \union {r}
    /\ Goto(r, "notifying")
    /\ UNCHANGED <<redisVars, tableVars, notified, callVars, faults>>

PublishOrderCreated(r) ==
    /\ pc[r] = "notifying"
    /\ notified' = notified \union {r}
    /\ Goto(r, "release")
    /\ UNCHANGED <<redisVars, tableVars, scored, callVars, faults>>

\* A Redis command takes effect and its answer is lost: the rest is not done.
RewardUnanswered(r) ==
    /\ Fault
    /\ \/ /\ pc[r] = "clearing"
          /\ cart' = [cart EXCEPT ![UserOf[r]] = NoItems]
          /\ UNCHANGED rewardVars
       \/ /\ pc[r] = "scoring"
          /\ scored' = scored \union {r}
          /\ UNCHANGED <<cart, notified>>
       \/ /\ pc[r] = "notifying"
          /\ notified' = notified \union {r}
          /\ UNCHANGED <<cart, scored>>
    /\ Goto(r, "release")
    /\ UNCHANGED <<added, lock, tableVars, callVars>>

\* A call of Redis or PostgreSQL fails without effect: CreateOrder returns the
\* error, and an open transaction is rolled back.
CallFails(r) ==
    /\ pc[r] \in {"cart", "selling", "clearing", "scoring", "notifying"}
    /\ Fault
    /\ EndTransaction(r)
    /\ Goto(r, "release")
    /\ UNCHANGED <<redisVars, stock, ordered, rewardVars>>

\* Mutant: DEL without comparing the value.
ReleaseAnyLock(r) ==
    /\ pc[r] = "release"
    /\ lock' = [lock EXCEPT ![UserOf[r]] = Nobody]
    /\ Goto(r, "done")
    /\ UNCHANGED <<cart, added, tableVars, rewardVars, callVars, faults>>

\* The deferred script deletes the key if it still holds this call's value.
ReleaseLock(r) ==
    /\ pc[r] = "release"
    /\ lock' = [lock EXCEPT ![UserOf[r]] = IF @ = r THEN Nobody ELSE @]
    /\ Goto(r, "done")
    /\ UNCHANGED <<cart, added, tableVars, rewardVars, callVars, faults>>

\* The process dies, or the script fails: the lock stays until it expires.
Crash(r) ==
    /\ pc[r] \notin {"idle", "done"}
    /\ Fault
    /\ EndTransaction(r)
    /\ Goto(r, "done")
    /\ UNCHANGED <<redisVars, stock, ordered, rewardVars>>

-----------------------------------------------------------------------------
Selling(r) ==
    \/ \E p \in Products : FindByIDForUpdate(r, p) \/ SellItem(r, p) \/ InsufficientStock(r, p)
    \/ AbortDeadlock(r) \/ CommitOrder(r) \/ CommitUnanswered(r)

CreateOrder(r) ==
    \/ AcquireLock(r) \/ LockIsBusy(r) \/ LockUnanswered(r) \/ GetCart(r)
    \/ Selling(r)
    \/ ClearCart(r) \/ AddScore(r) \/ PublishOrderCreated(r)
    \/ RewardUnanswered(r) \/ CallFails(r) \/ ReleaseLock(r)

CheckoutNext ==
    \/ \E u \in Users, p \in Products : AddToCart(u, p)
    \/ \E u \in Users : ExpireLock(u)
    \/ \E r \in Requests : CreateOrder(r) \/ Crash(r)

CheckoutSpec == CheckoutInit /\ [][CheckoutNext]_checkoutVars

\* A call goes on, and a key with a TTL is gone in the end.
FairCheckoutSpec ==
    /\ CheckoutSpec
    /\ \A r \in Requests : WF_checkoutVars(CreateOrder(r))
    /\ \A u \in Users : WF_checkoutVars(ExpireLock(u))

-----------------------------------------------------------------------------
(* Properties.                                                             *)

CheckoutSteps ==
    {"idle", "cart", "selling", "clearing", "scoring", "notifying", "release", "done"}

Quantities == [Products -> Nat]

CheckoutTypeOK ==
    /\ cart \in [Users -> Quantities]
    /\ added \in [Users -> Quantities]
    /\ lock \in [Users -> Requests \union {Nobody}]
    /\ stock \in [Products -> Int]
    /\ ordered \subseteq Requests
    /\ scored \subseteq Requests
    /\ notified \subseteq Requests
    /\ pc \in [Requests -> CheckoutSteps]
    /\ items \in [Requests -> Quantities]
    /\ todo \in [Requests -> SUBSET Products]
    /\ want \in [Requests -> Products \union {NoProduct}]
    /\ rowLock \in [Products -> Requests \union {Nobody}]
    /\ faults \in 0 .. MaxFaults
    /\ \A r \in Requests : want[r] # NoProduct => pc[r] = "selling" /\ want[r] \in todo[r]

\* Stock never goes below zero, however many carts compete for a product: the check
\* and the decrement are separate statements that the row lock holds together.
NoOversell == \A p \in Products : stock[p] >= 0

\* The units of a product that some calls have in their carts, each call's numbered.
UnitsOf(calls, p) == UNION {{r} \X (1 .. items[r][p]) : r \in calls}

Units(calls, p) == Cardinality(UnitsOf(calls, p))

\* What left the stock is what the committed orders contain, to the unit.
StockMatchesOrders ==
    \A p \in Products : stock[p] + Units(ordered, p) = InitialStock[p]

OrdersOf(u) == {r \in ordered : UserOf[r] = u}

\* order_service.go:47 says the lock keeps two checkouts at the same time from
\* taking the same cart out of the inventory twice.
CartOrderedOnce ==
    \A u \in Users, p \in Products : Units(OrdersOf(u), p) <= added[u][p]

\* The claim holds as long as nothing fails and no lock expires in use.
CartOrderedOnceWithoutFaults == faults = 0 => CartOrderedOnce

\* Orders whose call is over and never notified anyone.
Unannounced == {r \in ordered \ notified : pc[r] \in {"release", "done"}}

\* What CreateOrder does outside its transaction follows a committed order: nothing
\* leaves a cart, no points and no notification are given without one, in this order.
\* An order whose call is over goes without them only if something failed, and one
\* fault costs one order its notification.
EffectsFollowOrders ==
    /\ \A u \in Users : cart[u] # added[u] => OrdersOf(u) # {}
    /\ notified \subseteq scored
    /\ scored \subseteq ordered
    /\ Cardinality(Unannounced) <= faults

\* The lock of a call that is still at work is taken away by a fault only: no other
\* call, late or not, releases it.
LockIsRespected ==
    [][\A r \in Requests :
        /\ lock[UserOf[r]] = r
        /\ pc[r] \notin {"release", "done"}
        /\ lock'[UserOf[r]] # r
        => faults' > faults]_checkoutVars

\* Every call ends, whatever rows it has to wait for.
EveryCheckoutEnds ==
    \A r \in Requests : pc[r] = "cart" ~> pc[r] = "done"

\* A crash never locks a user out for good.
LockIsFreed == \A u \in Users : []<>(lock[u] = Nobody)

\* The checkout keeps the promise of Inventory.
Promise == INSTANCE Inventory WITH left <- stock, sold <- ordered

KeepsInventory == Promise!InventorySpec

\* The rest of the inductive invariant: a call that has yet to commit has no order,
\* and holds the row of every product it has sold, with the stock to cover it.
SellingIsCovered ==
    \A r \in Requests :
        /\ pc[r] \in {"idle", "cart", "selling"} => r \notin ordered
        /\ pc[r] = "selling" =>
            /\ \E p \in Products : items[r][p] > 0
            /\ \A p \in Products \ todo[r] :
                items[r][p] > 0 => rowLock[p] = r /\ items[r][p] <= stock[p]

\* A call reaches the steps after the transaction with its order committed, and the
\* last of them with its points given.
EffectsAreDue ==
    /\ \A r \in Requests :
        /\ pc[r] \in {"clearing", "scoring", "notifying"} => r \in ordered
        /\ pc[r] = "notifying" => r \in scored
    /\ IsFiniteSet(Unannounced)

\* Only finitely much was ever ordered.
OrdersAreFinite == \A p \in Products : IsFiniteSet(UnitsOf(ordered, p))

\* As long as nothing fails, a call at work has its user's lock, ...
CallsHoldTheirLock ==
    faults = 0 => \A r \in Requests : pc[r] \notin {"idle", "done"} => lock[UserOf[r]] = r

\* ... so that nobody else clears the cart it sells from, ...
CartCoversItems ==
    faults = 0 => \A r \in Requests : pc[r] \in {"selling", "clearing"} =>
        \A p \in Products : items[r][p] <= cart[UserOf[r]][p]

\* ... and what was ordered, without the cart that is yet to be cleared, and what is in
\* the cart was added to it.
Uncleared(u) == {r \in OrdersOf(u) : pc[r] = "clearing"}

CartIsBalanced ==
    faults = 0 => \A u \in Users, p \in Products :
        Units(OrdersOf(u) \ Uncleared(u), p) + cart[u][p] <= added[u][p]

CheckoutInv ==
    /\ CheckoutTypeOK
    /\ NoOversell
    /\ SellingIsCovered
    /\ EffectsFollowOrders
    /\ EffectsAreDue
    /\ StockMatchesOrders
    /\ OrdersAreFinite
    /\ CallsHoldTheirLock
    /\ CartCoversItems
    /\ CartIsBalanced
=============================================================================
