--------------------------- MODULE CheckoutProofs ---------------------------
(***************************************************************************)
(* What the checkout guarantees about the stock, for every number of       *)
(* users, products, calls and faults.                                      *)
(***************************************************************************)
EXTENDS Checkout, FiniteSetTheorems, TLAPS

(* No call has started, and the seeded stock is not negative.              *)
LEMMA CheckoutInitInv == CheckoutInit => CheckoutInv
<1> SUFFICES ASSUME CheckoutInit PROVE CheckoutInv
  OBVIOUS
<1>1. CheckoutTypeOK /\ NoOversell /\ SellingIsCovered
  BY StockAssumption, UserOfAssumption, CheckoutBounds
     DEF CheckoutInit, CheckoutTypeOK, NoOversell, SellingIsCovered, NoItems, Quantities,
         CheckoutSteps
<1>2. Unannounced = {}
  BY DEF CheckoutInit, Unannounced
<1>3. EffectsFollowOrders /\ EffectsAreDue
  BY <1>2, FS_EmptySet DEF CheckoutInit, EffectsFollowOrders, EffectsAreDue
<1>4. \A S : S = {} => \A p : UnitsOf(S, p) = {}
  BY DEF UnitsOf
<1>5. StockMatchesOrders /\ OrdersAreFinite /\ CartIsBalanced
  <2>1. \A p : UnitsOf({}, p) = {} /\ Units({}, p) = 0
    BY <1>4, FS_EmptySet DEF Units
  <2>2. \A u \in Users : OrdersOf(u) \ Uncleared(u) = {}
    BY DEF CheckoutInit, OrdersOf
  <2>3. StockMatchesOrders /\ OrdersAreFinite
    BY <2>1, StockAssumption, FS_EmptySet
       DEF CheckoutInit, StockMatchesOrders, OrdersAreFinite
  <2>4. \A u \in Users, p \in Products : Units(OrdersOf(u) \ Uncleared(u), p) = 0
    BY <2>1, <2>2
  <2>5. \A u \in Users, p \in Products : cart[u][p] = 0 /\ added[u][p] = 0
    BY DEF CheckoutInit, NoItems
  <2>6. CartIsBalanced
    BY <2>4, <2>5 DEF CartIsBalanced
  <2> QED BY <2>3, <2>6
<1>6. CallsHoldTheirLock /\ CartCoversItems
  BY DEF CheckoutInit, CallsHoldTheirLock, CartCoversItems
<1> QED BY <1>1, <1>3, <1>5, <1>6 DEF CheckoutInv

(* A step outside of any transaction, which takes no call into one or past *)
(* one and leaves the rows alone, keeps what is said about the stock.      *)
LEMMA OutsideStep ==
  ASSUME CheckoutInv, UNCHANGED <<stock, ordered, rowLock, items, todo>>,
         \A r \in Requests :
            /\ pc'[r] = "selling" => pc[r] = "selling"
            /\ pc'[r] \in {"idle", "cart"} => pc[r] \in {"idle", "cart"}
  PROVE  NoOversell' /\ SellingIsCovered'
BY DEF CheckoutInv, NoOversell, SellingIsCovered

(* A transaction that is rolled back leaves the rows of all others.        *)
LEMMA RollbackStep ==
  ASSUME CheckoutInv, NEW r \in Requests, EndTransaction(r), UNCHANGED <<stock, ordered>>,
         NEW step \in {"release", "done"}, Goto(r, step)
  PROVE  NoOversell' /\ SellingIsCovered'
<1>1. NoOversell'
  BY DEF CheckoutInv, NoOversell
<1>2. ASSUME NEW s \in Requests, s # r
      PROVE  /\ pc'[s] = pc[s] /\ items'[s] = items[s] /\ todo'[s] = todo[s]
             /\ \A p \in Products : rowLock[p] = s => rowLock'[p] = s
  BY <1>2 DEF CheckoutInv, CheckoutTypeOK, EndTransaction, ReleaseRows, Goto
<1>3. pc'[r] = step
  BY DEF CheckoutInv, CheckoutTypeOK, Goto
<1>4. SellingIsCovered'
  BY <1>2, <1>3 DEF CheckoutInv, SellingIsCovered
<1> QED BY <1>1, <1>4

(* The type invariant holds in every state.                                *)
LEMMA CheckoutTypeStep ==
  CheckoutInv /\ [CheckoutNext]_checkoutVars => CheckoutTypeOK'
<1> SUFFICES ASSUME CheckoutInv, [CheckoutNext]_checkoutVars PROVE CheckoutTypeOK'
  OBVIOUS
<1> USE UserOfAssumption, CheckoutBounds, NamesAssumption
        DEF CheckoutInv, CheckoutTypeOK, CheckoutSteps, Quantities, NoItems, Goto, Fault,
            redisVars, tableVars, rewardVars, callVars
<1>1. CASE UNCHANGED checkoutVars
  BY <1>1 DEF checkoutVars
<1>2. ASSUME NEW u \in Users, NEW p \in Products, AddToCart(u, p) PROVE CheckoutTypeOK'
  BY <1>2 DEF AddToCart
<1>3. ASSUME NEW u \in Users, ExpireLock(u) PROVE CheckoutTypeOK'
  <2>1. faults' \in 0 .. MaxFaults
    BY <1>3 DEF ExpireLock
  <2> QED BY <1>3, <2>1 DEF ExpireLock
<1>4. ASSUME NEW r \in Requests, EndTransaction(r), Goto(r, "release") \/ Goto(r, "done")
             \/ Goto(r, "clearing"),
             UNCHANGED redisVars, UNCHANGED rewardVars, stock' \in [Products -> Int],
             ordered' \subseteq Requests, faults' \in 0 .. MaxFaults
      PROVE  CheckoutTypeOK'
  <2>1. /\ want' \in [Requests -> Products \union {NoProduct}]
        /\ todo' \in [Requests -> SUBSET Products]
        /\ rowLock' \in [Products -> Requests \union {Nobody}]
        /\ pc' \in [Requests -> CheckoutSteps]
    <3>1. want' \in [Requests -> Products \union {NoProduct}]
      BY <1>4 DEF EndTransaction
    <3>2. todo' \in [Requests -> SUBSET Products]
      BY <1>4 DEF EndTransaction
    <3>3. rowLock' \in [Products -> Requests \union {Nobody}]
      BY <1>4 DEF EndTransaction, ReleaseRows
    <3>4. pc' \in [Requests -> CheckoutSteps]
      BY <1>4
    <3> QED BY <3>1, <3>2, <3>3, <3>4
  <2>2. ASSUME NEW s \in Requests, want'[s] # NoProduct
        PROVE  pc'[s] = "selling" /\ want'[s] \in todo'[s]
    BY <1>4, <2>2 DEF EndTransaction
  <2>3. UNCHANGED <<items, cart, added, lock, scored, notified>>
    BY <1>4 DEF EndTransaction
  <2> QED BY <1>4, <2>1, <2>2, <2>3
<1>5. ASSUME NEW r \in Requests, Crash(r) \/ CallFails(r) PROVE CheckoutTypeOK'
  <2>1. /\ UNCHANGED <<stock, ordered>> /\ faults' \in 0 .. MaxFaults
        /\ EndTransaction(r) /\ (Goto(r, "release") \/ Goto(r, "done"))
        /\ UNCHANGED redisVars /\ UNCHANGED rewardVars
    BY <1>5 DEF Crash, CallFails
  <2>2. stock' \in [Products -> Int] /\ ordered' \subseteq Requests
    BY <2>1
  <2> HIDE DEF Goto, CheckoutTypeOK
  <2> QED BY <1>4, <2>1, <2>2
<1>6. ASSUME NEW r \in Requests, AcquireLock(r) \/ LockIsBusy(r) PROVE CheckoutTypeOK'
  <2>1. CASE AcquireLock(r)
    BY <2>1 DEF AcquireLock
  <2>2. CASE LockIsBusy(r)
    BY <2>2 DEF LockIsBusy
  <2> QED BY <1>6, <2>1, <2>2
<1>7. ASSUME NEW r \in Requests, LockUnanswered(r) PROVE CheckoutTypeOK'
  <2>1. lock' \in [Users -> Requests \union {Nobody}]
    BY <1>7 DEF LockUnanswered
  <2> QED BY <1>7, <2>1 DEF LockUnanswered
<1>8. ASSUME NEW r \in Requests, GetCart(r) PROVE CheckoutTypeOK'
  <2>1. cart[UserOf[r]] \in Quantities
    OBVIOUS
  <2>2. want[r] = NoProduct
    BY <1>8 DEF GetCart
  <2> QED BY <1>8, <2>1, <2>2 DEF GetCart
<1>9. ASSUME NEW r \in Requests, Selling(r) PROVE CheckoutTypeOK'
  <2>1. ASSUME NEW p \in Products, FindByIDForUpdate(r, p) PROVE CheckoutTypeOK'
    <3>1. \A s \in Requests : want'[s] = IF s = r THEN p ELSE want[s]
      BY <2>1 DEF FindByIDForUpdate
    <3>2. want' \in [Requests -> Products \union {NoProduct}]
      BY <2>1 DEF FindByIDForUpdate
    <3> QED BY <2>1, <3>1, <3>2 DEF FindByIDForUpdate
  <2>2. ASSUME NEW p \in Products, SellItem(r, p) PROVE CheckoutTypeOK'
    <3>1. /\ \A s \in Requests : want'[s] = IF s = r THEN NoProduct ELSE want[s]
          /\ \A s \in Requests : s # r => todo'[s] = todo[s]
      BY <2>2 DEF SellItem
    <3>2. /\ want' \in [Requests -> Products \union {NoProduct}]
          /\ todo' \in [Requests -> SUBSET Products]
          /\ rowLock' \in [Products -> Requests \union {Nobody}]
      BY <2>2 DEF SellItem
    <3> QED BY <2>2, <3>1, <3>2 DEF SellItem
  <2>3. ASSUME NEW p \in Products, InsufficientStock(r, p) PROVE CheckoutTypeOK'
    BY <1>4, <2>3 DEF InsufficientStock
  <2>4. CASE AbortDeadlock(r)
    BY <1>4, <2>4 DEF AbortDeadlock
  <2>5. CASE CommitOrder(r) \/ CommitUnanswered(r)
    <3>1. /\ stock' \in [Products -> Int]
          /\ ordered' \subseteq Requests
          /\ EndTransaction(r)
          /\ UNCHANGED redisVars /\ UNCHANGED rewardVars
      BY <2>5 DEF CommitOrder, CommitUnanswered, TakeStock
    <3>2. /\ Goto(r, "release") \/ Goto(r, "clearing")
          /\ faults' \in 0 .. MaxFaults
      BY <2>5 DEF CommitOrder, CommitUnanswered
    <3> HIDE DEF Goto, CheckoutTypeOK
    <3> QED BY <1>4, <3>1, <3>2
  <2> QED BY <1>9, <2>1, <2>2, <2>3, <2>4, <2>5 DEF Selling
<1>10. ASSUME NEW r \in Requests, ClearCart(r) \/ AddScore(r) \/ PublishOrderCreated(r)
       PROVE  CheckoutTypeOK'
  <2>1. CASE ClearCart(r)
    BY <2>1 DEF ClearCart
  <2>2. CASE AddScore(r)
    BY <2>2 DEF AddScore
  <2>3. CASE PublishOrderCreated(r)
    BY <2>3 DEF PublishOrderCreated
  <2> QED BY <1>10, <2>1, <2>2, <2>3
<1>11. ASSUME NEW r \in Requests, RewardUnanswered(r) PROVE CheckoutTypeOK'
  <2>1. /\ cart' \in [Users -> Quantities]
        /\ scored' \subseteq Requests /\ notified' \subseteq Requests
        /\ pc[r] # "selling"
    BY <1>11 DEF RewardUnanswered
  <2> QED BY <1>11, <2>1 DEF RewardUnanswered
<1>12. ASSUME NEW r \in Requests, ReleaseLock(r) PROVE CheckoutTypeOK'
  BY <1>12 DEF ReleaseLock
<1> QED BY <1>1, <1>2, <1>3, <1>5, <1>6, <1>7, <1>8, <1>9, <1>10, <1>11, <1>12
     DEF CheckoutNext, CreateOrder

(* The cart becomes the call's snapshot, and all of it is yet to be sold.  *)
LEMMA GetCartStep ==
  ASSUME CheckoutInv, NEW r \in Requests, GetCart(r)
  PROVE  NoOversell' /\ SellingIsCovered'
<1> USE UserOfAssumption DEF CheckoutInv, CheckoutTypeOK, Quantities, Goto
<1>1. NoOversell'
  BY DEF NoOversell, GetCart, tableVars
<1> DEFINE content == cart[UserOf[r]]
<1>2. content \in [Products -> Nat]
  OBVIOUS
<1>3. content # NoItems => \E p \in Products : content[p] > 0
  <2> SUFFICES ASSUME \A p \in Products : ~(content[p] > 0) PROVE content = NoItems
    OBVIOUS
  <2>1. \A p \in Products : content[p] = 0
    BY <1>2
  <2> QED BY <1>2, <2>1 DEF NoItems
<1>4. /\ items'[r] = content
      /\ \A p \in Products \ todo'[r] : ~(content[p] > 0)
      /\ pc[r] = "cart"
      /\ pc'[r] = IF content = NoItems THEN "release" ELSE "selling"
  BY DEF GetCart
<1>5. \A s \in Requests : s # r =>
        pc'[s] = pc[s] /\ items'[s] = items[s] /\ todo'[s] = todo[s]
  BY DEF GetCart
<1>6. UNCHANGED <<stock, ordered, rowLock>>
  BY DEF GetCart, tableVars
<1> HIDE DEF content, CheckoutTypeOK
<1>7. SellingIsCovered'
  BY <1>3, <1>4, <1>5, <1>6 DEF SellingIsCovered
<1> QED BY <1>1, <1>7

(* A sold product is covered by the stock that was read under its lock.    *)
LEMMA SellItemStep ==
  ASSUME CheckoutInv, NEW r \in Requests, NEW p \in Products, SellItem(r, p)
  PROVE  NoOversell' /\ SellingIsCovered'
<1> USE DEF CheckoutInv, CheckoutTypeOK, Quantities
<1>1. /\ UNCHANGED <<stock, ordered, pc, items>>
      /\ rowLock[p] = Nobody /\ stock[p] >= items[r][p]
      /\ rowLock' = [rowLock EXCEPT ![p] = r]
      /\ todo' = [todo EXCEPT ![r] = @ \ {p}]
  BY DEF SellItem
<1>2. NoOversell'
  BY <1>1 DEF NoOversell
<1>3. /\ rowLock'[p] = r
      /\ \A q \in Products : q # p => rowLock'[q] = rowLock[q]
      /\ \A s \in Requests : todo'[s] = IF s = r THEN todo[r] \ {p} ELSE todo[s]
      /\ items[r][p] <= stock[p]
  BY <1>1
<1>4. \A s \in Requests : rowLock[p] # s
  BY <1>1, NamesAssumption
<1> HIDE DEF CheckoutTypeOK
<1>5. SellingIsCovered'
  BY <1>1, <1>3, <1>4 DEF SellingIsCovered
<1> QED BY <1>2, <1>5

(* A commit takes no more than its row locks cover, and nothing from a row *)
(* another call has locked.                                                *)
LEMMA TakeStockStep ==
  ASSUME CheckoutInv, NEW r \in Requests, TakeStock(r),
         NEW step \in {"release", "clearing"}, Goto(r, step)
  PROVE  NoOversell' /\ SellingIsCovered'
<1> USE DEF CheckoutInv, CheckoutTypeOK, Quantities
<1>1. /\ pc[r] = "selling" /\ todo[r] = {}
      /\ stock' = [p \in Products |-> stock[p] - items[r][p]]
      /\ ordered' = ordered \union {r}
  BY DEF TakeStock
<1>2. \A s \in Requests : s # r =>
        /\ pc'[s] = pc[s] /\ items'[s] = items[s] /\ todo'[s] = todo[s]
        /\ \A p \in Products : rowLock[p] = s => rowLock'[p] = s
  BY DEF TakeStock, EndTransaction, ReleaseRows, Goto
<1>3. \A p \in Products : items[r][p] > 0 => rowLock[p] = r /\ items[r][p] <= stock[p]
  BY <1>1 DEF SellingIsCovered
<1>4. \A p \in Products : items[r][p] \in Nat /\ stock[p] \in Int /\ stock[p] >= 0
  BY DEF NoOversell
<1>5. \A p \in Products : stock'[p] = stock[p] - items[r][p]
  BY <1>1
<1>6. NoOversell'
  BY <1>3, <1>4, <1>5 DEF NoOversell
<1>7. \A p \in Products : rowLock[p] # r => stock'[p] = stock[p]
  BY <1>3, <1>4, <1>5
<1>8. pc'[r] = step
  BY DEF Goto
<1> HIDE DEF CheckoutTypeOK
<1>9. SellingIsCovered'
  BY <1>1, <1>2, <1>7, <1>8 DEF SellingIsCovered
<1> QED BY <1>6, <1>9

(* The orders that were never announced are counted by the faults.         *)
LEMMA UnannouncedStep ==
  ASSUME CheckoutInv, NEW r,
         \/ Unannounced' \subseteq Unannounced /\ faults' \in {faults, faults + 1}
         \/ Unannounced' \subseteq Unannounced \union {r} /\ faults' = faults + 1
  PROVE  IsFiniteSet(Unannounced') /\ Cardinality(Unannounced') <= faults'
<1> DEFINE A == Unannounced
           B == Unannounced'
<1>1. IsFiniteSet(A) /\ Cardinality(A) <= faults /\ faults \in Nat
  BY CheckoutBounds DEF CheckoutInv, CheckoutTypeOK, EffectsFollowOrders, EffectsAreDue
<1>2. Cardinality(A) \in Nat
  BY <1>1, FS_CardinalityType
<1>3. /\ IsFiniteSet(A \union {r})
      /\ Cardinality(A \union {r}) \in {Cardinality(A), Cardinality(A) + 1}
  BY <1>1, FS_AddElement
<1>4. CASE B \subseteq A /\ faults' \in {faults, faults + 1}
  <2>1. IsFiniteSet(B) /\ Cardinality(B) <= Cardinality(A) /\ Cardinality(B) \in Nat
    BY <1>1, <1>4, FS_Subset, FS_CardinalityType
  <2> HIDE DEF A, B
  <2>2. Cardinality(B) <= faults'
    BY <1>1, <1>2, <1>4, <2>1
  <2> QED BY <2>1, <2>2 DEF B
<1>5. CASE B \subseteq A \union {r} /\ faults' = faults + 1
  <2>1. /\ IsFiniteSet(B) /\ Cardinality(B) <= Cardinality(A \union {r})
        /\ Cardinality(B) \in Nat
    BY <1>3, <1>5, FS_Subset, FS_CardinalityType
  <2> HIDE DEF A, B
  <2>2. Cardinality(B) <= faults'
    BY <1>1, <1>2, <1>3, <1>5, <2>1
  <2> QED BY <2>1, <2>2 DEF B
<1> QED BY <1>4, <1>5

(* A step of one call keeps what is said about the effects, if it gives    *)
(* none before what they follow, and if an order whose call it ends is     *)
(* announced or the step is a fault.                                       *)
LEMMA EffectsKept ==
  ASSUME CheckoutInv, NEW r \in Requests,
         ordered \subseteq ordered', ordered' \subseteq ordered \union {r},
         scored \subseteq scored', scored' \subseteq scored \union {r},
         notified \subseteq notified', notified' \subseteq notified \union {r},
         r \in scored' => r \in ordered', r \in notified' => r \in scored',
         \A s \in Requests \ {r} : pc'[s] = pc[s],
         pc'[r] \in {"clearing", "scoring", "notifying"} => r \in ordered',
         pc'[r] = "notifying" => r \in scored',
         \A u \in Users : \/ cart'[u] = cart[u] /\ added'[u] = added[u]
                          \/ u = UserOf[r] /\ r \in ordered',
         \/ faults' = faults + 1
         \/ faults' = faults /\ (r \in Unannounced' => r \in Unannounced)
  PROVE  EffectsFollowOrders' /\ EffectsAreDue'
<1>1. /\ \A u \in Users : cart[u] # added[u] => OrdersOf(u) # {}
      /\ notified \subseteq scored /\ scored \subseteq ordered /\ ordered \subseteq Requests
      /\ \A s \in Requests : /\ pc[s] \in {"clearing", "scoring", "notifying"} => s \in ordered
                             /\ pc[s] = "notifying" => s \in scored
  BY DEF CheckoutInv, CheckoutTypeOK, EffectsFollowOrders, EffectsAreDue
<1>2. \A u \in Users : cart'[u] # added'[u] => OrdersOf(u)' # {}
  BY <1>1 DEF OrdersOf
<1>3. Unannounced' \subseteq Unannounced \union {r}
  BY <1>1 DEF Unannounced
<1>4. IsFiniteSet(Unannounced') /\ Cardinality(Unannounced') <= faults'
  BY <1>3, UnannouncedStep
<1>5. notified' \subseteq scored' /\ scored' \subseteq ordered'
  BY <1>1
<1>6. \A s \in Requests : /\ pc'[s] \in {"clearing", "scoring", "notifying"} => s \in ordered'
                          /\ pc'[s] = "notifying" => s \in scored'
  BY <1>1
<1> QED BY <1>2, <1>4, <1>5, <1>6 DEF EffectsFollowOrders, EffectsAreDue

(* What happens outside of any call gives no effects.                      *)
LEMMA EffectsOutside ==
  ASSUME CheckoutInv, UNCHANGED <<ordered, scored, notified, pc>>,
         faults' \in {faults, faults + 1},
         \A u \in Users : cart'[u] # added'[u] => cart[u] # added[u]
  PROVE  EffectsFollowOrders' /\ EffectsAreDue'
<1>1. Unannounced' = Unannounced
  BY DEF Unannounced
<1>2. IsFiniteSet(Unannounced') /\ Cardinality(Unannounced') <= faults'
  BY <1>1, UnannouncedStep
<1> QED BY <1>2 DEF CheckoutInv, EffectsFollowOrders, EffectsAreDue, OrdersOf

(* No action gives an effect too early, or leaves one out without a fault. *)
LEMMA EffectsStep ==
  ASSUME CheckoutInv, [CheckoutNext]_checkoutVars
  PROVE  EffectsFollowOrders' /\ EffectsAreDue'
<1> DEFINE Kept == EffectsFollowOrders' /\ EffectsAreDue'
<1> USE DEF redisVars, tableVars, rewardVars, callVars
<1>1. /\ CheckoutTypeOK /\ pc \in [Requests -> CheckoutSteps]
      /\ \A u \in Users : cart[u] # added[u] => OrdersOf(u) # {}
      /\ notified \subseteq scored /\ scored \subseteq ordered
      /\ \A r \in Requests :
            /\ pc[r] \in {"clearing", "scoring", "notifying"} => r \in ordered
            /\ pc[r] = "notifying" => r \in scored
            /\ pc[r] \in {"idle", "cart", "selling"} => r \notin ordered
            /\ want[r] # NoProduct => pc[r] = "selling"
  BY DEF CheckoutInv, CheckoutTypeOK, EffectsFollowOrders, EffectsAreDue, SellingIsCovered
<1>2. CASE UNCHANGED checkoutVars
  BY <1>2, EffectsOutside DEF checkoutVars
<1>3. ASSUME NEW u \in Users, NEW p \in Products, AddToCart(u, p) PROVE Kept
  <2>1. \A w \in Users : cart[w] = added[w] => cart'[w] = added'[w]
    BY <1>1, <1>3 DEF AddToCart, CheckoutTypeOK
  <2> QED BY <1>3, <2>1, EffectsOutside DEF AddToCart
<1>4. ASSUME NEW u \in Users, ExpireLock(u) PROVE Kept
  BY <1>4, EffectsOutside DEF ExpireLock, Fault
(* A call that gives nothing and has no order yet, or is not over yet.     *)
<1>5. ASSUME NEW r \in Requests, NEW step \in CheckoutSteps, Goto(r, step),
             UNCHANGED <<cart, added, ordered, scored, notified>>,
             step \notin {"clearing", "scoring", "notifying"},
             \/ faults' = faults + 1
             \/ faults' = faults /\ (r \notin ordered \/ pc[r] = "release")
      PROVE  Kept
  <2>1. pc'[r] = step /\ \A s \in Requests \ {r} : pc'[s] = pc[s]
    BY <1>1, <1>5 DEF Goto
  <2>2. r \in Unannounced' => r \in Unannounced \/ faults' = faults + 1
    BY <1>5 DEF Unannounced
  <2> QED BY <1>1, <1>5, <2>1, <2>2, EffectsKept
<1>6. ASSUME NEW r \in Requests,
             AcquireLock(r) \/ LockIsBusy(r) \/ LockUnanswered(r) \/ GetCart(r)
      PROVE  Kept
  <2>1. UNCHANGED <<cart, added, ordered, scored, notified>>
    BY <1>6 DEF AcquireLock, LockIsBusy, LockUnanswered, GetCart
  <2>2. /\ r \notin ordered
        /\ faults' \in {faults, faults + 1}
        /\ Goto(r, "cart") \/ Goto(r, "done") \/ Goto(r, "release") \/ Goto(r, "selling")
    BY <1>1, <1>6 DEF AcquireLock, LockIsBusy, LockUnanswered, GetCart, Fault
  <2> HIDE DEF Kept
  <2> QED BY <1>5, <2>1, <2>2 DEF CheckoutSteps
<1>7. ASSUME NEW r \in Requests, NEW p \in Products,
             FindByIDForUpdate(r, p) \/ SellItem(r, p)
      PROVE  Kept
  BY <1>7, EffectsOutside DEF FindByIDForUpdate, SellItem
<1>8. ASSUME NEW r \in Requests, AbortDeadlock(r) \/ \E p \in Products : InsufficientStock(r, p)
      PROVE  Kept
  <2>1. /\ UNCHANGED <<cart, added, ordered, scored, notified, faults>>
        /\ Goto(r, "release")
    BY <1>8 DEF AbortDeadlock, InsufficientStock
  <2>2. want[r] # NoProduct
    BY <1>8, NamesAssumption DEF AbortDeadlock, InsufficientStock
  <2>3. r \notin ordered
    BY <1>1, <2>2
  <2> HIDE DEF Kept
  <2> QED BY <1>5, <2>1, <2>3 DEF CheckoutSteps
<1>9. ASSUME NEW r \in Requests, NEW step \in {"clearing", "release"}, TakeStock(r), Goto(r, step),
             UNCHANGED redisVars, UNCHANGED rewardVars,
             \/ faults' = faults + 1
             \/ faults' = faults /\ step = "clearing"
      PROVE  Kept
  <2>1. pc'[r] = step /\ \A s \in Requests \ {r} : pc'[s] = pc[s]
    BY <1>1, <1>9 DEF Goto
  <2>2. ordered' = ordered \union {r}
    BY <1>9 DEF TakeStock
  <2>3. r \in Unannounced' => step # "clearing"
    BY <2>1 DEF Unannounced
  <2> QED BY <1>1, <1>9, <2>1, <2>2, <2>3, EffectsKept
<1>10. ASSUME NEW r \in Requests, CommitOrder(r) \/ CommitUnanswered(r) PROVE Kept
  <2> HIDE DEF Kept
  <2> QED BY <1>9, <1>10 DEF CommitOrder, CommitUnanswered, Fault
(* The effects themselves, with or without an answer.                      *)
<1>11. ASSUME NEW r \in Requests, ClearCart(r) PROVE Kept
  <2>1. pc'[r] = "scoring" /\ \A s \in Requests \ {r} : pc'[s] = pc[s]
    BY <1>1, <1>11 DEF ClearCart, Goto
  <2>2. /\ UNCHANGED <<added, ordered, scored, notified, faults>>
        /\ cart' = [cart EXCEPT ![UserOf[r]] = NoItems] /\ r \in ordered
    BY <1>1, <1>11 DEF ClearCart
  <2>3. \A u \in Users : u # UserOf[r] => cart'[u] = cart[u]
    BY <1>1, <2>2 DEF CheckoutTypeOK
  <2>4. r \notin Unannounced'
    BY <2>1 DEF Unannounced
  <2> QED BY <1>1, <2>1, <2>2, <2>3, <2>4, EffectsKept
<1>12. ASSUME NEW r \in Requests, AddScore(r) PROVE Kept
  <2>1. pc'[r] = "notifying" /\ \A s \in Requests \ {r} : pc'[s] = pc[s]
    BY <1>1, <1>12 DEF AddScore, Goto
  <2>2. /\ UNCHANGED <<cart, added, ordered, notified, faults>>
        /\ scored' = scored \union {r} /\ r \in ordered
    BY <1>1, <1>12 DEF AddScore
  <2>3. r \notin Unannounced'
    BY <2>1 DEF Unannounced
  <2> QED BY <1>1, <2>1, <2>2, <2>3, EffectsKept
<1>13. ASSUME NEW r \in Requests, PublishOrderCreated(r) PROVE Kept
  <2>1. pc'[r] = "release" /\ \A s \in Requests \ {r} : pc'[s] = pc[s]
    BY <1>1, <1>13 DEF PublishOrderCreated, Goto
  <2>2. /\ UNCHANGED <<cart, added, ordered, scored, faults>>
        /\ notified' = notified \union {r} /\ r \in scored
    BY <1>1, <1>13 DEF PublishOrderCreated
  <2>3. r \notin Unannounced'
    BY <2>2 DEF Unannounced
  <2> QED BY <1>1, <2>1, <2>2, <2>3, EffectsKept
<1>14. ASSUME NEW r \in Requests, RewardUnanswered(r) PROVE Kept
  <2>1. pc'[r] = "release" /\ \A s \in Requests \ {r} : pc'[s] = pc[s]
    BY <1>1, <1>14 DEF RewardUnanswered, Goto
  <2>2. UNCHANGED <<added, ordered>> /\ faults' = faults + 1 /\ r \in ordered
    BY <1>1, <1>14 DEF RewardUnanswered, Fault
  <2>3. \A u \in Users : u # UserOf[r] => cart'[u] = cart[u]
    BY <1>1, <1>14 DEF RewardUnanswered, CheckoutTypeOK
  <2>4. /\ scored' \in {scored, scored \union {r}}
        /\ notified' = notified \/ (notified' = notified \union {r} /\ r \in scored)
    BY <1>1, <1>14 DEF RewardUnanswered
  <2> QED BY <1>1, <2>1, <2>2, <2>3, <2>4, EffectsKept
<1>15. ASSUME NEW r \in Requests, CallFails(r) \/ Crash(r) PROVE Kept
  <2>1. /\ UNCHANGED <<cart, added, ordered, scored, notified>>
        /\ faults' = faults + 1 /\ (Goto(r, "release") \/ Goto(r, "done"))
    BY <1>15 DEF CallFails, Crash, Fault
  <2> HIDE DEF Kept
  <2> QED BY <1>5, <2>1 DEF CheckoutSteps
<1>16. ASSUME NEW r \in Requests, ReleaseLock(r) PROVE Kept
  <2>1. /\ UNCHANGED <<cart, added, ordered, scored, notified, faults>>
        /\ Goto(r, "done") /\ pc[r] = "release"
    BY <1>16 DEF ReleaseLock
  <2> HIDE DEF Kept
  <2> QED BY <1>5, <2>1 DEF CheckoutSteps
<1> QED BY <1>2, <1>3, <1>4, <1>6, <1>7, <1>8, <1>10, <1>11, <1>12, <1>13, <1>14, <1>15,
           <1>16 DEF CheckoutNext, CreateOrder, Selling

-----------------------------------------------------------------------------
(* Counting units.  What some calls have in their snapshots f of a cart, as *)
(* a set; UnitsOf is that set for the items of the moment.                 *)
Bundle(f, S, p) == UNION {{r} \X (1 .. f[r][p]) : r \in S}

(* What UnitsOf and Units say of the items of the moment.                  *)
LEMMA UnitsAreBundles ==
  ASSUME NEW S, NEW p
  PROVE  UnitsOf(S, p) = Bundle(items, S, p) /\ Units(S, p) = Cardinality(Bundle(items, S, p))
BY DEF UnitsOf, Units, Bundle

(* It depends on the snapshots of these calls only, ...                    *)
LEMMA SameBundle ==
  ASSUME NEW f, NEW g, NEW S, NEW p, \A r \in S : f[r] = g[r]
  PROVE  Bundle(f, S, p) = Bundle(g, S, p)
BY DEF Bundle

(* ... grows with the calls, ...                                           *)
LEMMA PartOfBundle ==
  ASSUME NEW f, NEW S, NEW T, NEW p, S \subseteq T, IsFiniteSet(Bundle(f, T, p))
  PROVE  /\ IsFiniteSet(Bundle(f, S, p))
         /\ Cardinality(Bundle(f, S, p)) \in Nat /\ Cardinality(Bundle(f, T, p)) \in Nat
         /\ Cardinality(Bundle(f, S, p)) <= Cardinality(Bundle(f, T, p))
<1>1. Bundle(f, S, p) \subseteq Bundle(f, T, p)
  BY DEF Bundle
<1> QED BY <1>1, FS_Subset, FS_CardinalityType

(* ... has as many elements for one call as that call has units, ...       *)
LEMMA NumberedUnits ==
  ASSUME NEW r, NEW n \in Nat
  PROVE  IsFiniteSet({r} \X (1 .. n)) /\ Cardinality({r} \X (1 .. n)) = n
<1>1. IsFiniteSet({r}) /\ Cardinality({r}) = 1
  BY FS_Singleton
<1>2. IsFiniteSet(1 .. n) /\ Cardinality(1 .. n) = IF 1 > n THEN 0 ELSE n - 1 + 1
  BY FS_Interval
<1>3. Cardinality(1 .. n) = n
  BY <1>2
<1>4. /\ IsFiniteSet({r} \X (1 .. n))
      /\ Cardinality({r} \X (1 .. n)) = Cardinality({r}) * Cardinality(1 .. n)
  BY <1>1, <1>2, FS_Product
<1> QED BY <1>1, <1>3, <1>4

(* ... and by the items of the call that joins.                            *)
LEMMA BundleGrows ==
  ASSUME NEW f, NEW S, NEW p, NEW r, r \notin S, NEW n \in Nat, n = f[r][p],
         NEW T, T = S \union {r}, IsFiniteSet(Bundle(f, S, p)),
         NEW k \in Nat, k = Cardinality(Bundle(f, S, p))
  PROVE  IsFiniteSet(Bundle(f, T, p)) /\ Cardinality(Bundle(f, T, p)) = k + n
<1> DEFINE A == Bundle(f, S, p)
           B == {r} \X (1 .. n)
<1>1. Bundle(f, T, p) = A \union B /\ A \intersect B = {}
  BY DEF Bundle
<1>2. IsFiniteSet(B) /\ Cardinality(B) = n
  BY NumberedUnits
<1>3. IsFiniteSet(A) /\ Cardinality(A) = k
  OBVIOUS
<1> HIDE DEF A, B
<1>4. /\ IsFiniteSet(A \union B)
      /\ Cardinality(A \union B) = Cardinality(A) + Cardinality(B) - Cardinality(A \intersect B)
  BY <1>2, <1>3, FS_Union
<1>5. Cardinality(A \intersect B) = 0
  BY <1>1, FS_EmptySet
<1>6. Cardinality(A \union B) = k + n
  BY <1>2, <1>3, <1>4, <1>5
<1> QED BY <1>1, <1>4, <1>6

(* No step changes what an ordered call has sold; one that changes the      *)
(* stock is the commit of an order.                                        *)
LEMMA OrdersStand ==
  ASSUME CheckoutInv, [CheckoutNext]_checkoutVars
  PROVE  /\ \A s \in ordered : items'[s] = items[s]
         /\ (\E r \in Requests : TakeStock(r)) \/ UNCHANGED <<stock, ordered>>
<1>1. UNCHANGED items \/ \E r \in Requests : GetCart(r)
  BY DEF CheckoutNext, CreateOrder, Selling, AddToCart, ExpireLock, AcquireLock, LockIsBusy,
         LockUnanswered, FindByIDForUpdate, SellItem, InsufficientStock, AbortDeadlock,
         CommitOrder, CommitUnanswered, TakeStock, EndTransaction, ClearCart, AddScore,
         PublishOrderCreated, RewardUnanswered, CallFails, ReleaseLock, Crash, checkoutVars,
         callVars
<1>2. ASSUME NEW r \in Requests, GetCart(r)
      PROVE  \A s \in ordered : items'[s] = items[s]
  BY <1>2 DEF GetCart, CheckoutInv, CheckoutTypeOK, SellingIsCovered
<1>3. (\E r \in Requests : TakeStock(r)) \/ UNCHANGED <<stock, ordered>>
  BY DEF CheckoutNext, CreateOrder, Selling, AddToCart, ExpireLock, AcquireLock, LockIsBusy,
         LockUnanswered, GetCart, FindByIDForUpdate, SellItem, InsufficientStock,
         AbortDeadlock, CommitOrder, CommitUnanswered, ClearCart, AddScore,
         PublishOrderCreated, RewardUnanswered, CallFails, ReleaseLock, Crash,
         checkoutVars, redisVars, tableVars, rewardVars, callVars
<1> QED BY <1>1, <1>2, <1>3

(* What is left of i units when the calls S have theirs.                   *)
Balanced(left, f, S, p, i) ==
    /\ left \in Int
    /\ IsFiniteSet(Bundle(f, S, p))
    /\ left + Cardinality(Bundle(f, S, p)) = i

(* A call that sells what it has in its snapshot keeps the balance.        *)
LEMMA SaleBalances ==
  ASSUME NEW f, NEW S, NEW p, NEW r, NEW T, NEW i, NEW s \in Int, NEW t \in Int,
         r \notin S, T = S \union {r}, f[r][p] \in Nat, t = s - f[r][p],
         Balanced(s, f, S, p, i)
  PROVE  Balanced(t, f, T, p, i)
<1>1. IsFiniteSet(Bundle(f, S, p)) /\ s + Cardinality(Bundle(f, S, p)) = i
  BY DEF Balanced
<1>2. PICK n \in Nat : n = f[r][p]
  OBVIOUS
<1>3. PICK k \in Nat : k = Cardinality(Bundle(f, S, p))
  BY <1>1, FS_CardinalityType
<1>4. IsFiniteSet(Bundle(f, T, p)) /\ Cardinality(Bundle(f, T, p)) = k + n
  BY <1>1, <1>2, <1>3, BundleGrows
<1>5. t + (k + n) = s + k
  BY <1>2
<1> QED BY <1>1, <1>3, <1>4, <1>5 DEF Balanced

(* The commit takes from the stock what the new order contains, and no      *)
(* other step changes either.                                              *)
LEMMA StockStep ==
  ASSUME CheckoutInv, [CheckoutNext]_checkoutVars
  PROVE  StockMatchesOrders' /\ OrdersAreFinite'
<1>1. \A s \in ordered : items'[s] = items[s]
  BY OrdersStand
<1>2. ASSUME NEW p \in Products
      PROVE  /\ Balanced(stock[p], items, ordered, p, InitialStock[p])
             /\ Bundle(items', ordered, p) = Bundle(items, ordered, p)
  <2>1. stock[p] \in Int
    BY DEF CheckoutInv, CheckoutTypeOK
  <2>2. IsFiniteSet(UnitsOf(ordered, p)) /\ stock[p] + Units(ordered, p) = InitialStock[p]
    BY DEF CheckoutInv, StockMatchesOrders, OrdersAreFinite
  <2> QED BY <1>1, <2>1, <2>2, UnitsAreBundles, SameBundle DEF Balanced
<1>3. SUFFICES ASSUME NEW p \in Products
               PROVE  Balanced(stock'[p], items', ordered', p, InitialStock[p])
  BY DEF StockMatchesOrders, OrdersAreFinite, Units, UnitsOf, Balanced, Bundle
<1>4. CASE UNCHANGED <<stock, ordered>>
  BY <1>2, <1>4 DEF Balanced
<1>5. ASSUME NEW r \in Requests, TakeStock(r)
      PROVE  Balanced(stock'[p], items', ordered', p, InitialStock[p])
  <2>1. /\ r \notin ordered /\ ordered' = ordered \union {r} /\ items' = items
        /\ stock' = [q \in Products |-> stock[q] - items[r][q]]
    BY <1>5 DEF TakeStock, EndTransaction, CheckoutInv, SellingIsCovered
  <2>2. items[r][p] \in Nat /\ stock[p] \in Int
    BY DEF CheckoutInv, CheckoutTypeOK, Quantities
  <2>3. stock'[p] = stock[p] - items[r][p] /\ stock'[p] \in Int
    BY <2>1, <2>2
  <2>4. r \notin ordered /\ ordered' = ordered \union {r}
    BY <2>1
  <2>5. Balanced(stock[p], items, ordered, p, InitialStock[p])
    BY <1>2
  <2>6. Balanced(stock'[p], items, ordered', p, InitialStock[p])
    BY <2>2, <2>3, <2>4, <2>5, SaleBalances
  <2> QED BY <2>1, <2>6
<1> QED BY <1>4, <1>5, OrdersStand

-----------------------------------------------------------------------------
(* Carts, as long as nothing has failed.  What a user's calls have ordered, *)
(* without the one whose cart is yet to be cleared, and the cart together  *)
(* are no more than was ever added.                                        *)
Settled(u) == OrdersOf(u) \ Uncleared(u)

Fits(f, S, p, c, a) ==
    /\ IsFiniteSet(Bundle(f, S, p))
    /\ Cardinality(Bundle(f, S, p)) + c <= a

(* A call that clears the cart it has ordered leaves room for its units.   *)
LEMMA ClearingFits ==
  ASSUME NEW f, NEW S, NEW p, NEW r, NEW T, NEW c \in Nat, NEW a \in Nat,
         r \notin S, T = S \union {r}, f[r][p] \in Nat, f[r][p] <= c, Fits(f, S, p, c, a)
  PROVE  Fits(f, T, p, 0, a)
<1>1. IsFiniteSet(Bundle(f, S, p)) /\ Cardinality(Bundle(f, S, p)) + c <= a
  BY DEF Fits
<1>2. PICK n \in Nat : n = f[r][p]
  OBVIOUS
<1>3. PICK k \in Nat : k = Cardinality(Bundle(f, S, p))
  BY <1>1, FS_CardinalityType
<1>4. IsFiniteSet(Bundle(f, T, p)) /\ Cardinality(Bundle(f, T, p)) = k + n
  BY <1>1, <1>2, <1>3, BundleGrows
<1>5. (k + n) + 0 <= a
  BY <1>1, <1>2, <1>3
<1> QED BY <1>4, <1>5 DEF Fits

(* The invariant in these terms.                                           *)
LEMMA CartsFit ==
  ASSUME CheckoutInv, faults = 0, NEW u \in Users, NEW p \in Products
  PROVE  Fits(items, Settled(u), p, cart[u][p], added[u][p])
<1>1. Units(Settled(u), p) + cart[u][p] <= added[u][p]
  BY DEF CheckoutInv, CartIsBalanced, Settled
<1>2. IsFiniteSet(Bundle(items, ordered, p)) /\ Settled(u) \subseteq ordered
  BY UnitsAreBundles DEF CheckoutInv, OrdersAreFinite, Settled, OrdersOf
<1>3. IsFiniteSet(Bundle(items, Settled(u), p))
  BY <1>2, PartOfBundle
<1> QED BY <1>1, <1>3, UnitsAreBundles DEF Fits

(* No cart is ordered twice: a call that is yet to clear it covers its      *)
(* items with it, and there is only one such call.                         *)
LEMMA OrderedOnce ==
  ASSUME CheckoutInv, faults = 0, NEW u \in Users, NEW p \in Products
  PROVE  Units(OrdersOf(u), p) <= added[u][p]
<1>0. cart[u][p] \in Nat /\ added[u][p] \in Nat
  BY DEF CheckoutInv, CheckoutTypeOK, Quantities
<1>1. \E c \in Nat : Fits(items, OrdersOf(u), p, c, added[u][p])
  <2>1. CASE Uncleared(u) = {}
    <3>1. Settled(u) = OrdersOf(u)
      BY <2>1 DEF Settled
    <3> QED BY <1>0, <3>1, CartsFit
  <2>2. ASSUME NEW r \in Uncleared(u) PROVE Fits(items, OrdersOf(u), p, 0, added[u][p])
    <3>1. r \in Requests /\ UserOf[r] = u /\ pc[r] = "clearing" /\ r \in OrdersOf(u)
      BY DEF Uncleared, OrdersOf, CheckoutInv, CheckoutTypeOK
    <3>2. \A s \in Uncleared(u) : s = r
      BY <3>1 DEF Uncleared, OrdersOf, CheckoutInv, CheckoutTypeOK, CallsHoldTheirLock
    <3>3. r \notin Settled(u) /\ OrdersOf(u) = Settled(u) \union {r}
      BY <3>1, <3>2 DEF Settled
    <3>4. items[r][p] \in Nat /\ items[r][p] <= cart[u][p]
      BY <3>1 DEF CheckoutInv, CheckoutTypeOK, Quantities, CartCoversItems
    <3>5. Fits(items, Settled(u), p, cart[u][p], added[u][p])
      BY CartsFit
    <3> QED BY <1>0, <3>3, <3>4, <3>5, ClearingFits
  <2> QED BY <2>1, <2>2
<1>2. PICK c \in Nat : /\ IsFiniteSet(Bundle(items, OrdersOf(u), p))
                       /\ Cardinality(Bundle(items, OrdersOf(u), p)) + c <= added[u][p]
  BY <1>1 DEF Fits
<1>3. PICK k \in Nat : k = Cardinality(Bundle(items, OrdersOf(u), p))
  BY <1>2, FS_CardinalityType
<1>4. k <= added[u][p]
  BY <1>0, <1>2, <1>3
<1> QED BY <1>3, <1>4, UnitsAreBundles

(* The three parts of the invariant that speak of no faults.               *)
CartPart == CallsHoldTheirLock /\ CartCoversItems /\ CartIsBalanced

(* Most steps of a call leave lock and cart alone, take it no further than  *)
(* its commit and change no order that is settled.                         *)
LEMMA CartKept ==
  ASSUME CheckoutInv, faults = 0, UNCHANGED <<cart, added, lock, items>>,
         \A s \in Requests :
            /\ pc'[s] \notin {"idle", "done"} => pc[s] \notin {"idle", "done"}
            /\ pc'[s] \in {"selling", "clearing"} => pc[s] \in {"selling", "clearing"},
         \A u \in Users : Settled(u)' = Settled(u)
  PROVE  CartPart'
<1>1. CallsHoldTheirLock'
  BY DEF CheckoutInv, CallsHoldTheirLock
<1>2. CartCoversItems'
  BY DEF CheckoutInv, CartCoversItems
<1>3. CartIsBalanced'
  <2>1. ASSUME NEW u \in Users, NEW p \in Products
        PROVE  Units(Settled(u), p)' = Units(Settled(u), p)
    BY <2>1 DEF Units, UnitsOf
  <2> QED BY <2>1 DEF CheckoutInv, CartIsBalanced, Settled
<1> QED BY <1>1, <1>2, <1>3 DEF CartPart

(* Every step keeps the account of the carts.                              *)
LEMMA CartStep ==
  ASSUME CheckoutInv, CheckoutTypeOK', [CheckoutNext]_checkoutVars
  PROVE  CartPart'
<1> USE DEF redisVars, tableVars, rewardVars, callVars
<1>1. /\ CheckoutTypeOK /\ CallsHoldTheirLock /\ CartCoversItems /\ CartIsBalanced
      /\ pc \in [Requests -> CheckoutSteps]
      /\ lock \in [Users -> Requests \union {Nobody}]
      /\ cart \in [Users -> Quantities] /\ added \in [Users -> Quantities]
      /\ items \in [Requests -> Quantities]
      /\ ordered \subseteq Requests
      /\ \A r \in Requests : /\ UserOf[r] \in Users /\ r # Nobody
                             /\ pc[r] \in {"idle", "cart", "selling"} => r \notin ordered
                             /\ pc[r] = "clearing" => r \in ordered
                             /\ want[r] # NoProduct => pc[r] = "selling"
  BY UserOfAssumption, NamesAssumption
     DEF CheckoutInv, CheckoutTypeOK, SellingIsCovered, EffectsAreDue
<1>2. faults \in Nat
  <2>1. faults \in 0 .. MaxFaults
    BY <1>1 DEF CheckoutTypeOK
  <2> QED BY <2>1, CheckoutBounds
<1>3. SUFFICES ASSUME faults' = 0 PROVE CartPart'
  BY DEF CartPart, CallsHoldTheirLock, CartCoversItems, CartIsBalanced
<1>4. ~Fault
  BY <1>2, <1>3 DEF Fault
<1>5. UNCHANGED faults => faults = 0
  BY <1>3
<1>6. /\ \A u, s : s \in Settled(u) <=> s \in ordered /\ UserOf[s] = u /\ pc[s] # "clearing"
      /\ \A u, s : s \in Settled(u)' <=> s \in ordered' /\ UserOf[s] = u /\ pc'[s] # "clearing"
  BY DEF Settled, Uncleared, OrdersOf
<1>6a. ASSUME UNCHANGED ordered, \A s \in ordered : pc'[s] = "clearing" <=> pc[s] = "clearing"
       PROVE  \A u \in Users : Settled(u)' = Settled(u)
  BY <1>6a DEF Settled, Uncleared, OrdersOf
<1>7. ASSUME UNCHANGED <<cart, added, lock, items, ordered, pc, faults>> PROVE CartPart'
  BY <1>5, <1>7, CartKept DEF Settled, Uncleared, OrdersOf
<1>8. ASSUME NEW r \in Requests, NEW step \in CheckoutSteps \ {"selling", "clearing"},
             Goto(r, step), UNCHANGED <<cart, added, lock, items, ordered, faults>>,
             pc[r] # "clearing", step = "done" \/ pc[r] \notin {"idle", "done"}
      PROVE  CartPart'
  <2>1. pc'[r] = step /\ \A s \in Requests \ {r} : pc'[s] = pc[s]
    BY <1>1, <1>8 DEF Goto
  <2>2. \A u \in Users : Settled(u)' = Settled(u)
    BY <1>1, <1>6a, <1>8, <2>1
  <2> QED BY <1>5, <1>8, <2>1, <2>2, CartKept
<1>9. CASE UNCHANGED checkoutVars
  BY <1>7, <1>9 DEF checkoutVars
<1>10. ASSUME NEW r \in Requests, NEW p \in Products, FindByIDForUpdate(r, p) \/ SellItem(r, p)
       PROVE  CartPart'
  BY <1>7, <1>10 DEF FindByIDForUpdate, SellItem
<1>11. ASSUME NEW r \in Requests, LockIsBusy(r) \/ AddScore(r) \/ PublishOrderCreated(r)
       PROVE  CartPart'
  BY <1>8, <1>11 DEF LockIsBusy, AddScore, PublishOrderCreated, CheckoutSteps
<1>12. ASSUME NEW r \in Requests, AbortDeadlock(r) \/ \E p \in Products : InsufficientStock(r, p)
       PROVE  CartPart'
  <2>1. /\ UNCHANGED <<cart, added, lock, items, ordered, faults>>
        /\ Goto(r, "release")
    BY <1>12 DEF AbortDeadlock, InsufficientStock, EndTransaction
  <2>2. want[r] # NoProduct
    BY <1>12, NamesAssumption DEF AbortDeadlock, InsufficientStock
  <2>3. pc[r] = "selling"
    BY <1>1, <2>2
  <2> QED BY <1>8, <2>1, <2>3 DEF CheckoutSteps
<1>13. ASSUME NEW r \in Requests, CommitOrder(r) PROVE CartPart'
  <2>1. /\ UNCHANGED <<cart, added, lock, items, faults>>
        /\ pc[r] = "selling" /\ ordered' = ordered \union {r}
        /\ pc'[r] = "clearing" /\ \A s \in Requests \ {r} : pc'[s] = pc[s]
    BY <1>1, <1>13 DEF CommitOrder, TakeStock, EndTransaction, Goto
  <2>2. \A u \in Users : Settled(u)' = Settled(u)
    <3> SUFFICES ASSUME NEW u \in Users, NEW s PROVE s \in Settled(u)' <=> s \in Settled(u)
      OBVIOUS
    <3> QED BY <1>1, <2>1 DEF Settled, Uncleared, OrdersOf
  <2>3. \A s \in Requests :
          /\ pc'[s] \notin {"idle", "done"} => pc[s] \notin {"idle", "done"}
          /\ pc'[s] \in {"selling", "clearing"} => pc[s] \in {"selling", "clearing"}
    BY <2>1
  <2> QED BY <1>5, <2>1, <2>2, <2>3, CartKept
(* The other steps: first what they must do to the carts, then one by one. *)
<1>14. ASSUME faults = 0, UNCHANGED ordered, \A s \in ordered : items'[s] = items[s],
              \A u \in Users, p \in Products :
                  Fits(items, Settled(u)', p, cart'[u][p], added'[u][p])
       PROVE  CartIsBalanced'
  <2> SUFFICES ASSUME NEW u \in Users, NEW p \in Products
               PROVE  Units(Settled(u), p)' + cart'[u][p] <= added'[u][p]
    BY DEF CartIsBalanced, Settled
  <2>1. Bundle(items', Settled(u)', p) = Bundle(items, Settled(u)', p)
    BY <1>6, <1>14, SameBundle
  <2>2. Units(Settled(u), p)' = Cardinality(Bundle(items', Settled(u)', p))
    BY DEF Units, UnitsOf, Bundle
  <2> QED BY <1>14, <2>1, <2>2 DEF Fits
<1>15. ASSUME faults = 0, UNCHANGED <<cart, added, ordered>>, \A s \in ordered : items'[s] = items[s],
              \A u \in Users : Settled(u)' = Settled(u)
       PROVE  CartIsBalanced'
  BY <1>14, <1>15, CartsFit
<1>16. ASSUME NEW u \in Users, NEW q \in Products, AddToCart(u, q) PROVE CartPart'
  <2>1. UNCHANGED <<lock, items, ordered, pc, faults>> /\ faults = 0
    BY <1>5, <1>16 DEF AddToCart
  <2>2. ASSUME NEW w \in Users, NEW p \in Products
        PROVE  \E d \in Nat : cart'[w][p] = cart[w][p] + d /\ added'[w][p] = added[w][p] + d
    <3>1. cart[w][p] \in Nat /\ added[w][p] \in Nat
      BY <1>1 DEF Quantities
    <3>2. CASE w = u /\ p = q
      BY <1>1, <1>16, <3>1, <3>2 DEF AddToCart, Quantities
    <3>3. CASE ~(w = u /\ p = q)
      <4>1. cart'[w][p] = cart[w][p] /\ added'[w][p] = added[w][p]
        BY <1>1, <1>16, <3>3 DEF AddToCart, Quantities
      <4>2. /\ 0 \in Nat /\ cart'[w][p] = cart[w][p] + 0 /\ added'[w][p] = added[w][p] + 0
        BY <3>1, <4>1
      <4> QED BY <4>2
    <3> QED BY <3>2, <3>3
  <2>3. CallsHoldTheirLock'
    BY <1>1, <2>1 DEF CallsHoldTheirLock
  <2>4. CartCoversItems'
    <3> SUFFICES ASSUME NEW r \in Requests, pc[r] \in {"selling", "clearing"}, NEW p \in Products
                 PROVE  items[r][p] <= cart'[UserOf[r]][p]
      BY <2>1 DEF CartCoversItems
    <3>1. items[r][p] <= cart[UserOf[r]][p] /\ UserOf[r] \in Users
      BY <1>1, <2>1 DEF CartCoversItems
    <3>2. items[r][p] \in Nat /\ cart[UserOf[r]][p] \in Nat
      BY <1>1, <3>1 DEF Quantities
    <3>3. PICK d \in Nat : cart'[UserOf[r]][p] = cart[UserOf[r]][p] + d
      BY <2>2, <3>1
    <3> QED BY <3>1, <3>2, <3>3
  <2>5. CartIsBalanced'
    <3>1. \A w \in Users : Settled(w)' = Settled(w)
      BY <2>1 DEF Settled, Uncleared, OrdersOf
    <3>2. ASSUME NEW w \in Users, NEW p \in Products
          PROVE  Fits(items, Settled(w), p, cart'[w][p], added'[w][p])
      <4>1. /\ IsFiniteSet(Bundle(items, Settled(w), p))
            /\ Cardinality(Bundle(items, Settled(w), p)) + cart[w][p] <= added[w][p]
        BY <2>1, CartsFit DEF Fits
      <4>2. PICK k \in Nat : k = Cardinality(Bundle(items, Settled(w), p))
        BY <4>1, FS_CardinalityType
      <4>3. PICK d \in Nat : cart'[w][p] = cart[w][p] + d /\ added'[w][p] = added[w][p] + d
        BY <2>2
      <4>4. cart[w][p] \in Nat /\ added[w][p] \in Nat
        BY <1>1 DEF Quantities
      <4>5. k + cart'[w][p] <= added'[w][p]
        BY <4>1, <4>2, <4>3, <4>4
      <4> QED BY <4>1, <4>2, <4>5 DEF Fits
    <3> QED BY <1>14, <2>1, <3>1, <3>2
  <2> QED BY <2>3, <2>4, <2>5 DEF CartPart
<1>17. ASSUME NEW u \in Users, ExpireLock(u) PROVE CartPart'
  <2>1. /\ UNCHANGED <<cart, added, items, ordered, pc, faults>> /\ faults = 0
        /\ lock[u] # Nobody /\ pc[lock[u]] = "done"
        /\ lock' = [lock EXCEPT ![u] = Nobody]
    BY <1>4, <1>5, <1>17 DEF ExpireLock
  <2>2. CallsHoldTheirLock'
    BY <1>1, <2>1 DEF CallsHoldTheirLock
  <2>3. CartCoversItems'
    BY <1>1, <2>1 DEF CartCoversItems
  <2>4. CartIsBalanced'
    BY <1>15, <2>1 DEF Settled, Uncleared, OrdersOf
  <2> QED BY <2>2, <2>3, <2>4 DEF CartPart
<1>18. ASSUME NEW r \in Requests, AcquireLock(r) PROVE CartPart'
  <2>1. /\ UNCHANGED <<cart, added, items, ordered, faults>> /\ faults = 0
        /\ pc[r] = "idle" /\ lock[UserOf[r]] = Nobody
        /\ lock' = [lock EXCEPT ![UserOf[r]] = r]
        /\ pc'[r] = "cart" /\ \A s \in Requests \ {r} : pc'[s] = pc[s]
    BY <1>1, <1>5, <1>18 DEF AcquireLock, Goto
  <2>2. CallsHoldTheirLock'
    BY <1>1, <2>1 DEF CallsHoldTheirLock
  <2>3. CartCoversItems'
    BY <1>1, <2>1 DEF CartCoversItems
  <2>4. \A u \in Users : Settled(u)' = Settled(u)
    BY <1>1, <1>6a, <2>1
  <2>5. CartIsBalanced'
    BY <1>15, <2>1, <2>4
  <2> QED BY <2>2, <2>3, <2>5 DEF CartPart
<1>19. ASSUME NEW r \in Requests, GetCart(r) PROVE CartPart'
  <2>1. /\ UNCHANGED <<cart, added, lock, ordered, faults>> /\ faults = 0
        /\ pc[r] = "cart" /\ pc'[r] \in {"release", "selling"}
        /\ \A s \in Requests \ {r} : pc'[s] = pc[s] /\ items'[s] = items[s]
        /\ items'[r] = cart[UserOf[r]]
    BY <1>1, <1>5, <1>19 DEF GetCart, Goto
  <2>2. CallsHoldTheirLock'
    BY <1>1, <2>1 DEF CallsHoldTheirLock
  <2>3. CartCoversItems'
    <3>1. \A p \in Products : items'[r][p] <= cart[UserOf[r]][p]
      BY <1>1, <2>1 DEF Quantities
    <3> QED BY <1>1, <2>1, <3>1 DEF CartCoversItems
  <2>4. /\ \A u \in Users : Settled(u)' = Settled(u)
        /\ \A s \in ordered : items'[s] = items[s]
    BY <1>1, <1>6a, <2>1
  <2>5. CartIsBalanced'
    BY <1>15, <2>1, <2>4
  <2> QED BY <2>2, <2>3, <2>5 DEF CartPart
<1>20. ASSUME NEW r \in Requests, ClearCart(r) PROVE CartPart'
  <2>1. /\ UNCHANGED <<added, lock, items, ordered, faults>> /\ faults = 0
        /\ pc[r] = "clearing" /\ pc'[r] = "scoring"
        /\ \A s \in Requests \ {r} : pc'[s] = pc[s]
        /\ cart' = [cart EXCEPT ![UserOf[r]] = NoItems]
    BY <1>1, <1>5, <1>20 DEF ClearCart, Goto
  <2>2. CallsHoldTheirLock'
    BY <1>1, <2>1 DEF CallsHoldTheirLock
  <2>3. \A u \in Users \ {UserOf[r]} : cart'[u] = cart[u] /\ Settled(u)' = Settled(u)
    <3>1. \A u \in Users \ {UserOf[r]} : cart'[u] = cart[u]
      BY <1>1, <2>1
    <3>2. ASSUME NEW u \in Users \ {UserOf[r]}, NEW s
          PROVE  s \in Settled(u)' <=> s \in Settled(u)
      BY <1>1, <2>1, <3>2 DEF Settled, Uncleared, OrdersOf
    <3> QED BY <3>1, <3>2
  <2>4. /\ r \notin Settled(UserOf[r])
        /\ Settled(UserOf[r])' = Settled(UserOf[r]) \union {r}
        /\ \A p \in Products : cart'[UserOf[r]][p] = 0
    BY <1>1, <1>6, <2>1 DEF NoItems
  <2>5. CartCoversItems'
    <3>1. \A s \in Requests : pc'[s] \in {"selling", "clearing"} =>
            s # r /\ UserOf[s] # UserOf[r]
      BY <1>1, <2>1 DEF CallsHoldTheirLock
    <3> QED BY <1>1, <2>1, <2>3, <3>1 DEF CartCoversItems
  <2>6. ASSUME NEW u \in Users, NEW p \in Products
        PROVE  Fits(items, Settled(u)', p, cart'[u][p], added'[u][p])
    <3>1. Fits(items, Settled(u), p, cart[u][p], added[u][p])
      BY <2>1, CartsFit
    <3>2. CASE u # UserOf[r]
      BY <2>1, <2>3, <3>1, <3>2
    <3>3. CASE u = UserOf[r]
      <4>1. items[r][p] \in Nat /\ cart[u][p] \in Nat /\ added[u][p] \in Nat
        BY <1>1 DEF Quantities
      <4>2. items[r][p] <= cart[u][p]
        BY <1>1, <2>1, <3>3 DEF CartCoversItems
      <4>3. r \notin Settled(u) /\ Settled(u)' = Settled(u) \union {r}
        BY <2>4, <3>3
      <4>4. Fits(items, Settled(u)', p, 0, added[u][p])
        BY <3>1, <4>1, <4>2, <4>3, ClearingFits
      <4> QED BY <2>1, <2>4, <3>3, <4>4
    <3> QED BY <3>2, <3>3
  <2>7. CartIsBalanced'
    BY <1>14, <2>1, <2>6
  <2> QED BY <2>2, <2>5, <2>7 DEF CartPart
<1>21. ASSUME NEW r \in Requests, ReleaseLock(r) PROVE CartPart'
  <2>1. /\ UNCHANGED <<cart, added, items, ordered, faults>> /\ faults = 0
        /\ pc[r] = "release" /\ pc'[r] = "done"
        /\ \A s \in Requests \ {r} : pc'[s] = pc[s]
        /\ \A u \in Users : lock'[u] = lock[u] \/ lock[u] = r
    BY <1>1, <1>5, <1>21 DEF ReleaseLock, Goto
  <2>2. CallsHoldTheirLock'
    BY <1>1, <2>1 DEF CallsHoldTheirLock
  <2>3. CartCoversItems'
    BY <1>1, <2>1 DEF CartCoversItems
  <2>4. \A u \in Users : Settled(u)' = Settled(u)
    BY <1>1, <1>6a, <2>1
  <2>5. CartIsBalanced'
    BY <1>15, <2>1, <2>4
  <2> QED BY <2>2, <2>3, <2>5 DEF CartPart
<1>22. ASSUME NEW r \in Requests,
              LockUnanswered(r) \/ CommitUnanswered(r) \/ RewardUnanswered(r) \/ CallFails(r) \/ Crash(r)
       PROVE  FALSE
  BY <1>4, <1>22 DEF LockUnanswered, CommitUnanswered, RewardUnanswered, CallFails, Crash
<1> QED BY <1>9, <1>10, <1>11, <1>12, <1>13, <1>16, <1>17, <1>18, <1>19, <1>20, <1>21, <1>22
        DEF CheckoutNext, CreateOrder, Selling

(* Every step of the checkout keeps the invariant.                         *)
LEMMA CheckoutInvStep == CheckoutInv /\ [CheckoutNext]_checkoutVars => CheckoutInv'
<1> SUFFICES ASSUME CheckoutInv, [CheckoutNext]_checkoutVars
             PROVE  NoOversell' /\ SellingIsCovered'
  BY CheckoutTypeStep, EffectsStep, StockStep, CartStep DEF CheckoutInv, CartPart
<1> DEFINE Covered == NoOversell' /\ SellingIsCovered'
<1>0. pc \in [Requests -> CheckoutSteps]
  BY DEF CheckoutInv, CheckoutTypeOK
<1> USE DEF redisVars, tableVars, rewardVars, callVars
<1>1. CASE UNCHANGED checkoutVars
  BY <1>1, OutsideStep DEF checkoutVars
<1>2. ASSUME NEW u \in Users, (\E p \in Products : AddToCart(u, p)) \/ ExpireLock(u)
      PROVE  Covered
  BY <1>2, OutsideStep DEF AddToCart, ExpireLock
<1>3. ASSUME NEW r \in Requests,
             \/ AcquireLock(r) \/ LockIsBusy(r) \/ LockUnanswered(r)
             \/ ClearCart(r) \/ AddScore(r) \/ PublishOrderCreated(r)
             \/ RewardUnanswered(r) \/ ReleaseLock(r)
      PROVE  Covered
  <2>1. UNCHANGED <<stock, ordered, rowLock, items, todo>>
    BY <1>3 DEF AcquireLock, LockIsBusy, LockUnanswered, ClearCart, AddScore,
                PublishOrderCreated, RewardUnanswered, ReleaseLock
  <2>2. PICK step \in {"cart", "done", "scoring", "notifying", "release"} :
          Goto(r, step) /\ (step = "cart" => pc[r] = "idle")
    BY <1>3 DEF AcquireLock, LockIsBusy, LockUnanswered, ClearCart, AddScore,
                PublishOrderCreated, RewardUnanswered, ReleaseLock
  <2>3. \A s \in Requests :
          /\ pc'[s] = "selling" => pc[s] = "selling"
          /\ pc'[s] \in {"idle", "cart"} => pc[s] \in {"idle", "cart"}
    BY <1>0, <2>2 DEF Goto
  <2> QED BY <2>1, <2>3, OutsideStep
<1>4. ASSUME NEW r \in Requests, Crash(r) \/ CallFails(r) \/ AbortDeadlock(r) PROVE Covered
  BY <1>4, RollbackStep DEF Crash, CallFails, AbortDeadlock
<1>5. ASSUME NEW r \in Requests, NEW p \in Products,
             FindByIDForUpdate(r, p) \/ SellItem(r, p) \/ InsufficientStock(r, p)
      PROVE  Covered
  <2>1. CASE FindByIDForUpdate(r, p)
    BY <2>1, OutsideStep DEF FindByIDForUpdate
  <2>2. CASE SellItem(r, p)
    BY <2>2, SellItemStep
  <2>3. CASE InsufficientStock(r, p)
    BY <2>3, RollbackStep DEF InsufficientStock
  <2> QED BY <1>5, <2>1, <2>2, <2>3
<1>6. ASSUME NEW r \in Requests, CommitOrder(r) \/ CommitUnanswered(r) PROVE Covered
  BY <1>6, TakeStockStep DEF CommitOrder, CommitUnanswered
<1>7. ASSUME NEW r \in Requests, GetCart(r) PROVE Covered
  BY <1>7, GetCartStep
<1> QED BY <1>1, <1>2, <1>3, <1>4, <1>5, <1>6, <1>7 DEF CheckoutNext, CreateOrder, Selling

(* The inductive invariant holds in every reachable state.                 *)
THEOREM CheckoutInvariant == CheckoutSpec => []CheckoutInv
BY CheckoutInitInv, CheckoutInvStep, PTL DEF CheckoutSpec

(* No row of products.stock ever falls below zero, whoever buys what at    *)
(* the same time and whatever fails (order_service.go:86-126).             *)
THEOREM NeverOversold == CheckoutSpec => []NoOversell
<1>1. CheckoutInv => NoOversell
  BY DEF CheckoutInv
<1> QED BY <1>1, CheckoutInvariant, PTL

(* What left the stock is what the committed orders contain, to the unit,  *)
(* whichever checkouts were rolled back, died or lost an answer.           *)
THEOREM StockMatches == CheckoutSpec => []StockMatchesOrders
<1>1. CheckoutInv => StockMatchesOrders
  BY DEF CheckoutInv
<1> QED BY <1>1, CheckoutInvariant, PTL

(* order_service.go:47: the lock keeps two checkouts from taking the same   *)
(* cart out of the inventory, as long as nothing fails and no lock expires *)
(* in use; CheckoutTwice.cfg shows what one such fault does.               *)
THEOREM CartsAreOrderedOnce == CheckoutSpec => []CartOrderedOnceWithoutFaults
<1>1. CheckoutInv => CartOrderedOnceWithoutFaults
  BY OrderedOnce DEF CartOrderedOnceWithoutFaults, CartOrderedOnce
<1> QED BY <1>1, CheckoutInvariant, PTL

(* order_service.go:130-141: the cart is cleared, points are given and the *)
(* notification is published for committed orders only, in this order, and *)
(* every order whose call ended without all three is matched by a fault.   *)
THEOREM EffectsNeedOrders == CheckoutSpec => []EffectsFollowOrders
<1>1. CheckoutInv => EffectsFollowOrders
  BY DEF CheckoutInv
<1> QED BY <1>1, CheckoutInvariant, PTL

(* The script of order_service.go:64-71 and the TTL: only a fault takes    *)
(* the lock from a call at work.                                           *)
THEOREM LockStaysRespected == CheckoutSpec => LockIsRespected
<1>1. ASSUME CheckoutInv, [CheckoutNext]_checkoutVars, NEW r \in Requests,
             lock[UserOf[r]] = r, pc[r] \notin {"release", "done"}, lock'[UserOf[r]] # r
      PROVE  faults' > faults
  <2> DEFINE u == UserOf[r]
  <2>1. /\ u \in Users /\ lock \in [Users -> Requests \union {Nobody}] /\ faults \in Nat
        /\ r # Nobody
    <3>1. faults \in 0 .. MaxFaults
      BY <1>1 DEF CheckoutInv, CheckoutTypeOK
    <3>2. faults \in Nat
      BY <3>1, CheckoutBounds
    <3>3. u \in Users /\ lock \in [Users -> Requests \union {Nobody}] /\ r # Nobody
      BY <1>1, UserOfAssumption, NamesAssumption DEF CheckoutInv, CheckoutTypeOK
    <3> QED BY <3>2, <3>3
  <2>2. ASSUME NEW w \in Users, ExpireLock(w) PROVE faults' = faults + 1
    <3>1. w = u
      BY <1>1, <2>1, <2>2 DEF ExpireLock
    <3> QED BY <1>1, <2>2, <3>1 DEF ExpireLock, Fault
  <2>3. ASSUME NEW s \in Requests, AcquireLock(s) \/ LockUnanswered(s) PROVE FALSE
    BY <1>1, <2>1, <2>3 DEF AcquireLock, LockUnanswered
  <2>4. ASSUME NEW s \in Requests, ReleaseLock(s) PROVE FALSE
    BY <1>1, <2>1, <2>4 DEF ReleaseLock
  <2>5. lock' # lock
    BY <1>1
  <2>6. \/ \E w \in Users : ExpireLock(w)
        \/ \E s \in Requests : AcquireLock(s) \/ LockUnanswered(s) \/ ReleaseLock(s)
    BY <1>1, <2>5
       DEF CheckoutNext, CreateOrder, Selling, AddToCart, LockIsBusy, GetCart,
           FindByIDForUpdate, SellItem, InsufficientStock, AbortDeadlock, CommitOrder,
           CommitUnanswered, ClearCart, AddScore, PublishOrderCreated, RewardUnanswered,
           CallFails, Crash, checkoutVars, redisVars
  <2>7. faults' = faults + 1
    BY <2>2, <2>3, <2>4, <2>6
  <2> QED BY <2>1, <2>7
<1>2. CheckoutInv /\ [CheckoutNext]_checkoutVars =>
        [\A r \in Requests :
            /\ lock[UserOf[r]] = r
            /\ pc[r] \notin {"release", "done"}
            /\ lock'[UserOf[r]] # r
            => faults' > faults]_checkoutVars
  BY <1>1
<1> QED BY <1>2, CheckoutInvariant, PTL DEF CheckoutSpec, LockIsRespected

(* The checkout implements Inventory: stock changes only in the step in    *)
(* which a call places its one order, and only downwards.                  *)
THEOREM CheckoutImplementsInventory == CheckoutSpec => KeepsInventory
<1>1. CheckoutInit => Promise!InventoryInit
  BY DEF CheckoutInit, Promise!InventoryInit
<1>2. CheckoutInv /\ CheckoutInv' /\ [CheckoutNext]_checkoutVars
        => [Promise!InventoryNext]_<<stock, ordered>>
  <2> SUFFICES ASSUME CheckoutInv, CheckoutInv', [CheckoutNext]_checkoutVars
               PROVE  Promise!InventoryNext \/ UNCHANGED <<stock, ordered>>
    OBVIOUS
  <2>1. ASSUME NEW r \in Requests, TakeStock(r) PROVE Promise!Sell(r)
    <3> USE <2>1 DEF CheckoutInv, CheckoutTypeOK, Quantities, TakeStock
    <3>1. r \notin ordered /\ \E p \in Products : items[r][p] > 0
      BY DEF SellingIsCovered
    <3>2. stock' \in [Products -> Nat]
      BY DEF NoOversell
    <3>3. \A p \in Products : /\ stock'[p] <= stock[p]
                              /\ items[r][p] > 0 => stock'[p] < stock[p]
      OBVIOUS
    <3> HIDE DEF CheckoutTypeOK
    <3> QED BY <3>1, <3>2, <3>3 DEF Promise!Sell
  <2>2. \/ \E r \in Requests : TakeStock(r)
        \/ UNCHANGED <<stock, ordered>>
    BY DEF CheckoutNext, CreateOrder, Selling, AddToCart, ExpireLock, AcquireLock, LockIsBusy,
           LockUnanswered, GetCart, FindByIDForUpdate, SellItem, InsufficientStock,
           AbortDeadlock, CommitOrder, CommitUnanswered, ClearCart, AddScore,
           PublishOrderCreated, RewardUnanswered, CallFails, ReleaseLock, Crash,
           checkoutVars, redisVars, tableVars, rewardVars, callVars
  <2> QED BY <2>1, <2>2 DEF Promise!InventoryNext
<1> QED BY <1>1, <1>2, CheckoutInvariant, PTL
        DEF CheckoutSpec, KeepsInventory, Promise!InventorySpec
=============================================================================
