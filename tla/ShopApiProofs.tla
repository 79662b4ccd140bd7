--------------------------- MODULE ShopApiProofs ----------------------------
(***************************************************************************)
(* What the shop guarantees its visitors, for every number of overlapping  *)
(* requests, every length of window, limit and TTL and every failed        *)
(* command: the quota of the rate limit, the age of the product page and   *)
(* the end of a session.                                                   *)
(***************************************************************************)
EXTENDS ShopApi, FiniteSetTheorems, TLAPS

(* Windows of the clock: a window is Window long, ...                      *)
LEMMA WindowLength ==
    ASSUME NEW a \in Nat, NEW W \in Nat \ {0}
    PROVE  /\ a \div W \in Nat
           /\ W * (a \div W) <= a
           /\ a < W * (a \div W) + W
OBVIOUS

(* ... windows come in the order of time, ...                              *)
LEMMA WindowsInOrder ==
    ASSUME NEW W \in Nat \ {0}, NEW a \in Nat, NEW b \in Nat, a <= b
    PROVE  a \div W <= b \div W
<1> DEFINE q == a \div W
           r == b \div W
<1>1. q \in Nat /\ r \in Nat /\ W * q <= a /\ b < W * r + W
  BY WindowLength
<1>2. SUFFICES ASSUME r < q PROVE FALSE
  BY <1>1
<1> HIDE DEF q, r
<1>3. W * (r + 1) <= W * q
  BY <1>1, <1>2
<1>4. W * (r + 1) = W * r + W
  BY <1>1
<1> QED BY <1>1, <1>3, <1>4

(* ... and a counter that expires a Window after a moment of its window, or *)
(* later, does not do so before the window is over.                        *)
LEMMA WindowIsOver ==
    ASSUME NEW W \in Nat \ {0}, NEW t \in Nat, NEW b \in Nat, t \div W <= b \div W
    PROVE  t < b + W
<1> DEFINE q == t \div W
           r == b \div W
<1>1. q \in Nat /\ r \in Nat /\ t < W * q + W /\ W * r <= b
  BY WindowLength
<1> HIDE DEF q, r
<1>2. q <= r
  BY DEF q, r
<1>3. W * q <= W * r
  BY <1>1, <1>2
<1> QED BY <1>1, <1>3

-----------------------------------------------------------------------------
(* The constants as natural numbers.                                       *)
LEMMA ConstantTypes ==
    /\ Limit \in Nat /\ InitialStock \in Nat /\ MaxTime \in Nat
    /\ MaxRequests \in Nat /\ MaxFaults \in Nat
    /\ LoginTTL \in Nat \ {0} /\ SlideTTL \in Nat \ {0}
    /\ Window \in Nat \ {0} /\ PageTTL \in Nat \ {0}
BY TTLAssumption, BoundsAssumption

(* The window of the clock is one of Windows.                              *)
LEMMA WindowOfNow ==
    ASSUME ShopTypeOK
    PROVE  /\ CurrentWindow \in Windows /\ CurrentWindow \in Nat
           /\ \A w \in Windows : w \in Nat
<1>0. now \in 0 .. MaxTime
  BY DEF ShopTypeOK
<1>1. now \in Nat /\ MaxTime \in Nat /\ now <= MaxTime /\ Window \in Nat \ {0}
  BY <1>0, ConstantTypes
<1>2. now \div Window <= MaxTime \div Window
  BY <1>1, WindowsInOrder
<1>3. now \div Window \in Nat /\ MaxTime \div Window \in Nat
  BY <1>1, WindowLength
<1> QED BY <1>2, <1>3 DEF CurrentWindow, Windows

-----------------------------------------------------------------------------
(* Type correctness: what each action assigns.                             *)
LEMMA AnswerTypes ==
    ASSUME ShopTypeOK, NEW r \in Requests, Answer(r)
    PROVE  /\ step' \in [Requests -> Serving \union
                {"done", "lookup", "extend", "window", "count", "expire", "judge"}]
           /\ session' \in [Requests -> Sessions \union {Malformed}]
           /\ window' \in [Requests -> Windows] /\ counted' \in [Requests -> Nat]
           /\ prompt' \in [Requests -> BOOLEAN]
           /\ listed' \in [Requests -> [stock : 0 .. InitialStock + 1, at : 0 .. MaxTime]]
           /\ \A q \in Requests : step'[q] = "set" <=> listed'[q] # NotListed
<1>1. 0 \in Windows
  <2>1. MaxTime \div Window \in Nat
    BY ConstantTypes, WindowLength
  <2> QED BY <2>1 DEF Windows
<1>2. NotListed \in [stock : 0 .. InitialStock + 1, at : 0 .. MaxTime]
  BY ConstantTypes DEF NotListed
<1> QED BY <1>1, <1>2 DEF ShopTypeOK, Answer, Goto, Serving

(* Every step keeps the types; a listed stock is one the table once had.   *)
LEMMA TypeStep == ShopTypeOK /\ ListedIsAccounted /\ [ShopNext]_shopVars => ShopTypeOK'
<1> SUFFICES ASSUME ShopTypeOK, ListedIsAccounted, [ShopNext]_shopVars PROVE ShopTypeOK'
  OBVIOUS
<1> USE ConstantTypes
    DEF shopVars, sessionVars, limitVars, pageVars, requestVars, Goto
<1>1. CASE UNCHANGED shopVars
  BY <1>1 DEF ShopTypeOK
<1>2. ASSUME NEW s \in Sessions, Login(s) PROVE ShopTypeOK'
  BY <1>2 DEF Login, ShopTypeOK
<1>3. ASSUME NEW r \in Requests, NEW s \in Sessions \union {Malformed}, Arrive(r, s)
      PROVE ShopTypeOK'
  BY <1>3 DEF Arrive, ShopTypeOK
<1>4. ASSUME NEW r \in Requests, LookUpSession(r) PROVE ShopTypeOK'
  <2>1. CASE Answer(r)
    BY <1>4, <2>1, AnswerTypes DEF LookUpSession, ShopTypeOK
  <2>2. CASE ~Answer(r)
    BY <1>4, <2>2 DEF LookUpSession, ShopTypeOK
  <2> QED BY <2>1, <2>2
<1>5. ASSUME NEW r \in Requests, ExtendSession(r) PROVE ShopTypeOK'
  <2>1. now + SlideTTL \in Nat
    BY DEF ShopTypeOK
  <2>2. sessionEnds' \in [Sessions -> Nat]
    BY <1>5, <2>1 DEF ExtendSession, ShopTypeOK
  <2> QED BY <1>5, <2>2 DEF ExtendSession, ShopTypeOK
<1>6. ASSUME NEW r \in Requests, ChooseWindow(r) PROVE ShopTypeOK'
  <2>1. CASE Answer(r)
    BY <1>6, <2>1, AnswerTypes DEF ChooseWindow, ShopTypeOK
  <2>2. CASE ~Answer(r)
    <3>1. CurrentWindow \in Windows
      BY WindowOfNow
    <3> QED BY <1>6, <2>2, <3>1 DEF ChooseWindow, ShopTypeOK
  <2> QED BY <2>1, <2>2
<1>7. ASSUME NEW r \in Requests, CountRequest(r) PROVE ShopTypeOK'
  <2> DEFINE w == window[r]
             n == IF Live(countEnds[w]) THEN count[w] + 1 ELSE 1
  <2>1. w \in Windows /\ n \in Nat /\ NoExpiry \in Nat
    BY DEF ShopTypeOK, NoExpiry
  <2>2. /\ step[r] = "count"
        /\ count' = [count EXCEPT ![w] = n]
        /\ countEnds' = IF n = 1 THEN [countEnds EXCEPT ![w] = NoExpiry] ELSE countEnds
        /\ counted' = [counted EXCEPT ![r] = n]
        /\ prompt' = [prompt EXCEPT ![r] = w = CurrentWindow]
        /\ step' = [step EXCEPT ![r] = IF n = 1 THEN "expire" ELSE "judge"]
        /\ UNCHANGED <<now, sessionVars, passed, pageVars, session, window, listed, requests, faults>>
    BY <1>7 DEF CountRequest
  <2> HIDE DEF w, n
  <2> QED BY <2>1, <2>2 DEF ShopTypeOK
<1>8. ASSUME NEW r \in Requests, ExpireCounter(r) PROVE ShopTypeOK'
  BY <1>8 DEF ExpireCounter, ShopTypeOK
<1>9. ASSUME NEW r \in Requests, Judge(r) PROVE ShopTypeOK'
  <2>1. CASE Answer(r) /\ UNCHANGED passed
    BY <1>9, <2>1, AnswerTypes DEF Judge, ShopTypeOK
  <2>2. CASE ~(Answer(r) /\ UNCHANGED passed)
    <3> DEFINE n == passed[window[r]] + 1
    <3>1. passed \in [Windows -> Nat] /\ n \in Nat
      BY DEF ShopTypeOK
    <3>2. passed' = passed \/ passed' = [passed EXCEPT ![window[r]] = n]
      BY <1>9, <2>2 DEF Judge
    <3> HIDE DEF n
    <3>3. passed' \in [Windows -> Nat]
      BY <3>1, <3>2
    <3> QED BY <1>9, <2>2, <3>3 DEF Judge, ShopTypeOK, Serving
  <2> QED BY <2>1, <2>2
<1>10. ASSUME NEW r \in Requests, GetPage(r) PROVE ShopTypeOK'
  <2>1. CASE Answer(r)
    BY <1>10, <2>1, AnswerTypes DEF GetPage, ShopTypeOK
  <2>2. CASE ~Answer(r)
    BY <1>10, <2>2 DEF GetPage, ShopTypeOK, Serving
  <2> QED BY <2>1, <2>2
<1>11. ASSUME NEW r \in Requests, ListProducts(r) PROVE ShopTypeOK'
  <2> DEFINE l == [stock |-> stock, at |-> now]
  <2>1. l \in [stock : 0 .. InitialStock + 1, at : 0 .. MaxTime] /\ l # NotListed
    BY DEF ShopTypeOK, NotListed
  <2>2. listed' = [listed EXCEPT ![r] = l]
    BY <1>11 DEF ListProducts
  <2> HIDE DEF l
  <2> QED BY <1>11, <2>1, <2>2 DEF ListProducts, ShopTypeOK, Serving
<1>12. ASSUME NEW r \in Requests, SetPage(r) PROVE ShopTypeOK'
  <2>1. /\ listed[r].stock \in 0 .. InitialStock + 1 /\ listed[r].at \in 0 .. MaxTime
        /\ listed[r] # NotListed
    BY <1>12 DEF SetPage, ShopTypeOK
  <2>2. page' \in 0 .. InitialStock
    <3>1. listed[r].stock <= InitialStock
      BY <1>12 DEF SetPage, ListedIsAccounted
    <3> QED BY <1>12, <2>1, <3>1 DEF SetPage
  <2>3. slowest' \in 0 .. MaxTime /\ pageEnds' \in Nat
    BY <1>12, <2>1 DEF SetPage, ShopTypeOK
  <2> QED BY <1>12, <2>2, <2>3, AnswerTypes DEF SetPage, ShopTypeOK
<1>13. CASE Sell
  BY <1>13 DEF Sell, ShopTypeOK
<1>14. ASSUME NEW r \in Requests, RequestFails(r) PROVE ShopTypeOK'
  <2>1. faults' \in 0 .. MaxFaults
    BY <1>14 DEF RequestFails, ShopTypeOK
  <2> QED BY <1>14, <2>1, AnswerTypes DEF RequestFails, ShopTypeOK
<1>15. CASE Tick
  BY <1>15 DEF Tick, ShopTypeOK
<1> QED BY <1>1, <1>2, <1>3, <1>4, <1>5, <1>6, <1>7, <1>8, <1>9, <1>10, <1>11, <1>12, <1>13,
           <1>14, <1>15 DEF ShopNext, ServeRequest

-----------------------------------------------------------------------------
(* Only Answer and Arrive change the session a request carries, and no      *)
(* session is ever forgotten again once it has been logged in.             *)
LEMMA SessionStep ==
    ASSUME ShopInv, [ShopNext]_shopVars
    PROVE  SessionIsFound'
<1> USE ConstantTypes, SessionsAssumption
    DEF ShopInv, ShopTypeOK, shopVars, sessionVars, limitVars, pageVars, requestVars, Goto
<1>1. SessionIsFound
  OBVIOUS
<1>2. ASSUME \A s \in Sessions : sessionEnds[s] > 0 => sessionEnds'[s] > 0,
             NEW r \in Requests,
             \A q \in Requests \ {r} : step'[q] = step[q] /\ session'[q] = session[q],
             \/ step'[r] = "done"
             \/ /\ session'[r] = session[r]
                /\ step'[r] = "lookup" => step[r] = "lookup"
                /\ step'[r] \notin {"done", "lookup", "window"} => session[r] # Malformed
                /\ step'[r] \notin {"done", "lookup"} /\ session[r] # Malformed
                        => sessionEnds[session[r]] > 0
      PROVE SessionIsFound'
  BY <1>1, <1>2 DEF SessionIsFound
<1>2a. ASSUME NEW r \in Requests, Answer(r), UNCHANGED sessionEnds PROVE SessionIsFound'
  BY <1>2, <1>2a DEF Answer
<1>3. ASSUME UNCHANGED <<sessionEnds, step, session>> PROVE SessionIsFound'
  BY <1>1, <1>3 DEF SessionIsFound
<1>4. ASSUME NEW s \in Sessions, Login(s) PROVE SessionIsFound'
  BY <1>1, <1>4 DEF Login, SessionIsFound
<1>5. ASSUME NEW r \in Requests, NEW s \in Sessions \union {Malformed}, Arrive(r, s)
      PROVE SessionIsFound'
  BY <1>1, <1>5 DEF Arrive, SessionIsFound
<1>6. ASSUME NEW r \in Requests, LookUpSession(r) PROVE SessionIsFound'
  <2>1. CASE ~Answer(r)
    <3>1. /\ step[r] = "lookup" /\ now < sessionEnds[session[r]]
          /\ step' = [step EXCEPT ![r] = "extend"]
          /\ UNCHANGED <<session, sessionEnds>>
      BY <1>6, <2>1 DEF LookUpSession, Live
    <3>2. session[r] # Malformed /\ session[r] \in Sessions
      BY <1>1, <3>1 DEF SessionIsFound
    <3>3. now \in Nat /\ sessionEnds[session[r]] \in Nat
      BY <3>2
    <3>4. sessionEnds[session[r]] > 0
      BY <3>1, <3>3
    <3> QED BY <1>2, <3>1, <3>2, <3>4
  <2> QED BY <1>6, <1>2a, <2>1 DEF LookUpSession
<1>7. ASSUME NEW r \in Requests, ExtendSession(r) PROVE SessionIsFound'
  <2>1. now + SlideTTL > 0
    OBVIOUS
  <2>2. \A s \in Sessions : sessionEnds[s] > 0 => sessionEnds'[s] > 0
    BY <1>7, <2>1 DEF ExtendSession
  <2> QED BY <1>1, <1>2, <1>7, <2>2 DEF ExtendSession, SessionIsFound
<1>8. ASSUME NEW r \in Requests, ChooseWindow(r) PROVE SessionIsFound'
  <2>1. CASE ~Answer(r)
    BY <1>1, <1>2, <1>8, <2>1 DEF ChooseWindow, SessionIsFound
  <2> QED BY <1>8, <1>2a, <2>1 DEF ChooseWindow
<1>9. ASSUME NEW r \in Requests, CountRequest(r) PROVE SessionIsFound'
  BY <1>1, <1>2, <1>9 DEF CountRequest, SessionIsFound
<1>10. ASSUME NEW r \in Requests, ExpireCounter(r) PROVE SessionIsFound'
  BY <1>1, <1>2, <1>10 DEF ExpireCounter, SessionIsFound
<1>11. ASSUME NEW r \in Requests, Judge(r) PROVE SessionIsFound'
  <2>1. CASE ~Answer(r)
    BY <1>1, <1>2, <1>11, <2>1 DEF Judge, SessionIsFound
  <2> QED BY <1>11, <1>2a, <2>1 DEF Judge
<1>12. ASSUME NEW r \in Requests, GetPage(r) PROVE SessionIsFound'
  <2>1. CASE ~Answer(r)
    BY <1>1, <1>2, <1>12, <2>1 DEF GetPage, SessionIsFound
  <2> QED BY <1>12, <1>2a, <2>1 DEF GetPage
<1>13. ASSUME NEW r \in Requests, ListProducts(r) PROVE SessionIsFound'
  BY <1>1, <1>2, <1>13 DEF ListProducts, SessionIsFound
<1>14. ASSUME NEW r \in Requests, SetPage(r) PROVE SessionIsFound'
  BY <1>14, <1>2a DEF SetPage
<1>15. CASE Sell \/ Tick
  BY <1>3, <1>15 DEF Sell, Tick
<1>16. ASSUME NEW r \in Requests, RequestFails(r) PROVE SessionIsFound'
  BY <1>16, <1>2a DEF RequestFails
<1>17. CASE UNCHANGED shopVars
  BY <1>3, <1>17
<1> QED BY <1>4, <1>5, <1>6, <1>7, <1>8, <1>9, <1>10, <1>11, <1>12, <1>13, <1>14, <1>15,
           <1>16, <1>17 DEF ShopNext, ServeRequest

-----------------------------------------------------------------------------
(* The page and what requests have listed for it.                          *)
PagePart == ListedIsAccounted /\ PageIsAccounted

(* Every step keeps the account of the page.                               *)
LEMMA PageStep ==
    ASSUME ShopInv, ShopTypeOK', [ShopNext]_shopVars
    PROVE  PagePart'
<1> USE ConstantTypes
    DEF shopVars, sessionVars, limitVars, pageVars, requestVars, Goto
<1>1. ShopTypeOK /\ ListedIsAccounted /\ PageIsAccounted
  BY DEF ShopInv
<1>2. /\ now \in Nat /\ page \in Nat /\ pageEnds \in Nat /\ stock \in Nat
      /\ stock <= InitialStock /\ page <= InitialStock /\ slowest \in Nat
      /\ \A r \in Requests : listed[r].stock \in Nat /\ listed[r].at \in Nat
      /\ \A v \in 0 .. InitialStock : heldUntil[v] \in Nat
  <2>1. /\ now \in 0 .. MaxTime /\ page \in 0 .. InitialStock /\ pageEnds \in Nat
        /\ stock \in 0 .. InitialStock /\ slowest \in 0 .. MaxTime
    BY <1>1 DEF ShopTypeOK
  <2>2. \A r \in Requests : listed[r].stock \in 0 .. InitialStock + 1 /\ listed[r].at \in 0 .. MaxTime
    BY <1>1 DEF ShopTypeOK
  <2>3. \A v \in 0 .. InitialStock : heldUntil[v] \in 0 .. MaxTime
    BY <1>1 DEF ShopTypeOK
  <2> QED BY <2>1, <2>2, <2>3
<1>3. \A r \in Requests : step[r] = "set" =>
        /\ listed[r].at <= now /\ stock <= listed[r].stock /\ listed[r].stock <= InitialStock
        /\ stock # listed[r].stock => listed[r].at <= heldUntil[listed[r].stock]
  BY <1>1 DEF ListedIsAccounted
<1>4. /\ stock <= page
      /\ pageEnds <= now + PageTTL
      /\ stock # page => pageEnds <= heldUntil[page] + slowest + PageTTL
  BY <1>1 DEF PageIsAccounted
(* Most steps list nothing and leave the page, the stock and the clock alone. *)
<1>5. ASSUME UNCHANGED <<now, pageVars>>,
             \A q \in Requests : step'[q] = "set" => step[q] = "set" /\ listed'[q] = listed[q]
      PROVE PagePart'
  <2>1. ListedIsAccounted'
    BY <1>3, <1>5 DEF ListedIsAccounted
  <2>2. PageIsAccounted'
    BY <1>4, <1>5 DEF PageIsAccounted
  <2> QED BY <2>1, <2>2 DEF PagePart
<1>6. ASSUME NEW r \in Requests, ListProducts(r) PROVE PagePart'
  <2>1. listed' = [listed EXCEPT ![r] = [stock |-> stock, at |-> now]]
    BY <1>6 DEF ListProducts
  <2>2. /\ UNCHANGED <<now, pageVars>>
        /\ \A q \in Requests \ {r} : step'[q] = step[q] /\ listed'[q] = listed[q]
        /\ listed'[r].stock = stock /\ listed'[r].at = now
    BY <1>1, <1>6, <2>1 DEF ListProducts, ShopTypeOK
  <2>3. ListedIsAccounted'
    BY <1>2, <1>3, <2>2 DEF ListedIsAccounted
  <2>4. PageIsAccounted'
    BY <1>4, <2>2 DEF PageIsAccounted
  <2> QED BY <2>3, <2>4 DEF PagePart
<1>7. ASSUME NEW r \in Requests, SetPage(r) PROVE PagePart'
  <2> DEFINE v == listed[r].stock
             spent == now - listed[r].at
  <2>1. /\ step[r] = "set" /\ page' = v /\ pageEnds' = now + PageTTL
        /\ slowest' = IF spent > slowest THEN spent ELSE slowest
        /\ UNCHANGED <<now, stock, heldUntil>>
    BY <1>7 DEF SetPage
  <2>2. \A q \in Requests : step'[q] = "set" => step[q] = "set" /\ listed'[q] = listed[q]
    BY <1>1, <1>7 DEF SetPage, Answer, ShopTypeOK
  <2>3. /\ listed[r].at <= now /\ stock <= v /\ v <= InitialStock
        /\ stock # v => listed[r].at <= heldUntil[v]
        /\ v \in Nat /\ listed[r].at \in Nat
    BY <1>2, <1>3, <2>1
  <2>4. heldUntil[v] \in Nat
    BY <1>2, <2>3
  <2>5. spent \in Int /\ slowest' \in Int /\ spent <= slowest'
    BY <1>2, <2>1, <2>3
  <2>6. stock # v => now + PageTTL <= heldUntil[v] + slowest' + PageTTL
    BY <1>2, <2>3, <2>4, <2>5
  <2> HIDE DEF v, spent
  <2>7. PageIsAccounted'
    BY <1>2, <2>1, <2>3, <2>6 DEF PageIsAccounted
  <2>8. ListedIsAccounted'
    BY <1>3, <2>1, <2>2 DEF ListedIsAccounted
  <2> QED BY <2>7, <2>8 DEF PagePart
<1>8. CASE Sell
  <2>1. /\ stock > 0 /\ stock' = stock - 1
        /\ UNCHANGED <<now, page, pageEnds, slowest, step, listed>>
        /\ \A v \in 0 .. InitialStock : heldUntil'[v] = IF v = stock THEN now ELSE heldUntil[v]
    BY <1>1, <1>8 DEF Sell, ShopTypeOK
  <2>2. PageIsAccounted'
    <3>1. heldUntil'[page] = IF page = stock THEN now ELSE heldUntil[page]
      BY <1>2, <2>1
    <3> QED BY <1>2, <1>4, <2>1, <3>1 DEF PageIsAccounted
  <2>3. ListedIsAccounted'
    <3> SUFFICES ASSUME NEW q \in Requests, step[q] = "set"
                 PROVE  /\ listed[q].at <= now /\ stock' <= listed[q].stock
                        /\ listed[q].stock <= InitialStock
                        /\ listed[q].at <= heldUntil'[listed[q].stock]
      BY <2>1 DEF ListedIsAccounted
    <3> DEFINE v == listed[q].stock
    <3>1. /\ listed[q].at <= now /\ stock <= v /\ v <= InitialStock /\ v \in Nat
          /\ stock # v => listed[q].at <= heldUntil[v]
      BY <1>2, <1>3
    <3>2. heldUntil'[v] = IF v = stock THEN now ELSE heldUntil[v]
      BY <2>1, <3>1
    <3> HIDE DEF v
    <3> QED BY <1>2, <2>1, <3>1, <3>2 DEF v
  <2> QED BY <2>2, <2>3 DEF PagePart
<1>9. CASE Tick
  <2>1. now' = now + 1 /\ UNCHANGED <<pageVars, step, listed>>
    BY <1>9 DEF Tick
  <2>2. PageIsAccounted'
    BY <1>2, <1>4, <2>1 DEF PageIsAccounted
  <2>3. ListedIsAccounted'
    BY <1>2, <1>3, <2>1 DEF ListedIsAccounted
  <2> QED BY <2>2, <2>3 DEF PagePart
<1>10. ASSUME NEW s \in Sessions, Login(s) PROVE PagePart'
  BY <1>5, <1>10 DEF Login
<1>11. ASSUME NEW r \in Requests, NEW s \in Sessions \union {Malformed}, Arrive(r, s)
       PROVE PagePart'
  BY <1>1, <1>5, <1>11 DEF Arrive, ShopTypeOK
<1>12. ASSUME NEW r \in Requests, LookUpSession(r) \/ ExtendSession(r) \/ ChooseWindow(r)
       PROVE PagePart'
  BY <1>1, <1>5, <1>12 DEF LookUpSession, ExtendSession, ChooseWindow, Answer, ShopTypeOK
<1>13. ASSUME NEW r \in Requests, CountRequest(r) \/ ExpireCounter(r) PROVE PagePart'
  BY <1>1, <1>5, <1>13 DEF CountRequest, ExpireCounter, ShopTypeOK
<1>14. ASSUME NEW r \in Requests, Judge(r) \/ GetPage(r) \/ RequestFails(r) PROVE PagePart'
  BY <1>1, <1>5, <1>14 DEF Judge, GetPage, RequestFails, Answer, ShopTypeOK
<1>15. CASE UNCHANGED shopVars
  BY <1>5, <1>15
<1> QED BY <1>6, <1>7, <1>8, <1>9, <1>10, <1>11, <1>12, <1>13, <1>14, <1>15
        DEF ShopNext, ServeRequest

-----------------------------------------------------------------------------
(* The rate limit.  For each window, the prompt requests let through are   *)
(* weighed together with those that have been counted and will be.         *)
LimitPart == WindowHasBegun /\ CounterCoversWindow /\ EveryoneIsCounted /\ QuotaIsKept

Weight(w) == passed[w] + Cardinality(Admissible(w))

(* Weights are natural numbers.                                            *)
LEMMA AdmissibleIsFinite ==
    ASSUME NEW w
    PROVE  /\ IsFiniteSet(Admissible(w)) /\ IsFiniteSet(Admissible(w)')
           /\ Cardinality(Admissible(w)) \in Nat /\ Cardinality(Admissible(w)') \in Nat
<1>1. Admissible(w) \subseteq Requests /\ Admissible(w)' \subseteq Requests
  BY DEF Admissible
<1> QED BY <1>1, RequestsAssumption, FS_Subset, FS_CardinalityType

(* The weight of a window does not grow when nobody joins it and nobody    *)
(* more is let through.                                                    *)
LEMMA WeightFalls ==
    ASSUME ShopTypeOK, NEW w \in Windows, passed'[w] = passed[w],
           Admissible(w)' \subseteq Admissible(w)
    PROVE  Weight(w) \in Nat /\ Weight(w)' \in Nat /\ Weight(w)' <= Weight(w)
<1> DEFINE a == Cardinality(Admissible(w))
           b == Cardinality(Admissible(w)')
<1>1. a \in Nat /\ b \in Nat /\ b <= a
  BY AdmissibleIsFinite, FS_Subset
<1>2. passed[w] \in Nat
  BY DEF ShopTypeOK
<1>3. Weight(w) = passed[w] + a /\ Weight(w)' = passed[w] + b
  BY DEF Weight
<1> HIDE DEF a, b
<1> QED BY <1>1, <1>2, <1>3

(* A step that only takes requests out of the windows keeps the limit.     *)
LEMMA LimitIsLeftAlone ==
    ASSUME ShopTypeOK, LimitPart, UNCHANGED <<now, limitVars>>,
           \A w \in Windows : Admissible(w)' \subseteq Admissible(w),
           \A q \in Requests : step'[q] \in {"count", "expire"} =>
               \/ step[q] \in {"count", "expire"} /\ window'[q] = window[q]
               \/ window'[q] = CurrentWindow
    PROVE  LimitPart'
<1>1. WindowHasBegun'
  <2>1. CurrentWindow \in Nat /\ CurrentWindow' = CurrentWindow
    BY WindowOfNow DEF CurrentWindow
  <2> QED BY <2>1 DEF LimitPart, WindowHasBegun
<1>2. CounterCoversWindow'
  BY DEF LimitPart, CounterCoversWindow, limitVars
<1>3. ASSUME NEW w \in Windows
      PROVE  Weight(w) \in Nat /\ Weight(w)' \in Nat /\ Weight(w)' <= Weight(w)
  BY <1>3, WeightFalls DEF limitVars
<1>4. EveryoneIsCounted'
  <2> SUFFICES ASSUME NEW w \in Windows, w >= CurrentWindow
               PROVE Weight(w)' <= IF countEnds[w] = 0 THEN 0 ELSE count[w]
    BY DEF EveryoneIsCounted, Weight, CurrentWindow, limitVars
  <2>1. Weight(w) <= IF countEnds[w] = 0 THEN 0 ELSE count[w]
    BY DEF LimitPart, EveryoneIsCounted, Weight
  <2>2. count[w] \in Nat
    BY DEF ShopTypeOK
  <2> QED BY <1>3, <2>1, <2>2
<1>5. QuotaIsKept'
  <2> SUFFICES ASSUME NEW w \in Windows PROVE Weight(w)' <= Limit
    BY DEF QuotaIsKept, Weight
  <2>1. Weight(w) <= Limit
    BY DEF LimitPart, QuotaIsKept, Weight
  <2> QED BY <1>3, <2>1, ConstantTypes
<1> QED BY <1>1, <1>2, <1>4, <1>5 DEF LimitPart

(* INCR: the weight of the window grows by at most the request counted     *)
(* now, if that is prompt and not above the limit; then the counter is     *)
(* alive, if there was one, and is at least the weight.                    *)
LEMMA CountKeepsLimit ==
    ASSUME ShopTypeOK, LimitPart, NEW r \in Requests, CountRequest(r)
    PROVE  LimitPart'
<1>0. PICK v \in Windows : v = window[r]
  BY DEF ShopTypeOK
<1> DEFINE n == IF Live(countEnds[v]) THEN count[v] + 1 ELSE 1
<1>1. /\ step[r] = "count"
      /\ count' = [count EXCEPT ![v] = n]
      /\ countEnds' = IF n = 1 THEN [countEnds EXCEPT ![v] = NoExpiry] ELSE countEnds
      /\ counted' = [counted EXCEPT ![r] = n]
      /\ prompt' = [prompt EXCEPT ![r] = v = CurrentWindow]
      /\ step' = [step EXCEPT ![r] = IF n = 1 THEN "expire" ELSE "judge"]
      /\ UNCHANGED <<now, passed, window>>
  BY <1>0 DEF CountRequest, Goto
<1>2. /\ v \in Nat /\ now \in 0 .. MaxTime /\ now \in Nat
      /\ count[v] \in Nat /\ countEnds[v] \in Nat
      /\ CurrentWindow \in Nat /\ CurrentWindow' = CurrentWindow
  <2>1. now \in 0 .. MaxTime
    BY DEF ShopTypeOK
  <2>2. CurrentWindow' = CurrentWindow
    BY <1>1 DEF CurrentWindow
  <2>3. v \in Nat /\ CurrentWindow \in Nat
    BY WindowOfNow
  <2> QED BY <2>1, <2>2, <2>3 DEF ShopTypeOK
<1>3. n \in Nat /\ n >= 1 /\ n = IF Live(countEnds[v]) THEN count[v] + 1 ELSE 1
  BY <1>2
<1>4. v <= CurrentWindow
  BY <1>0, <1>1 DEF LimitPart, WindowHasBegun
<1>5. /\ \A q \in Requests \ {r} : /\ step'[q] = step[q] /\ window'[q] = window[q]
                                   /\ prompt'[q] = prompt[q] /\ counted'[q] = counted[q]
      /\ step'[r] = (IF n = 1 THEN "expire" ELSE "judge") /\ window'[r] = v
      /\ prompt'[r] = (v = CurrentWindow) /\ counted'[r] = n
  BY <1>0, <1>1 DEF ShopTypeOK
<1>6. /\ \A w \in Windows \ {v} : count'[w] = count[w] /\ countEnds'[w] = countEnds[w]
      /\ count'[v] = n
      /\ countEnds'[v] = IF n = 1 THEN NoExpiry ELSE countEnds[v]
  BY <1>1, <1>2 DEF ShopTypeOK
<1> HIDE DEF n
<1>7. WindowHasBegun'
  BY <1>0, <1>1, <1>2, <1>4, <1>5 DEF LimitPart, WindowHasBegun
<1>8. CounterCoversWindow'
  <2> SUFFICES ASSUME NEW w \in Windows, countEnds'[w] # 0, NEW t \in 0 .. MaxTime,
                      t \div Window = w
               PROVE  t < countEnds'[w]
    BY DEF CounterCoversWindow
  <2>1. CASE countEnds'[w] = countEnds[w]
    BY <2>1 DEF LimitPart, CounterCoversWindow
  <2>2. CASE countEnds'[w] = NoExpiry
    BY <2>2, ConstantTypes DEF NoExpiry
  <2> QED BY <1>6, <2>1, <2>2
<1>9. ASSUME NEW w \in Windows, w # v \/ ~(n <= Limit /\ v = CurrentWindow)
      PROVE  Weight(w) \in Nat /\ Weight(w)' \in Nat /\ Weight(w)' <= Weight(w)
  <2>1. Admissible(w)' \subseteq Admissible(w)
    BY <1>5, <1>9 DEF Admissible
  <2> QED BY <1>1, <2>1, WeightFalls
<1>10. ASSUME v = CurrentWindow
       PROVE  Weight(v)' <= n /\ countEnds'[v] # 0
  <2> DEFINE A == Admissible(v)
             B == Admissible(v)'
  <2>1. IsFiniteSet(A) /\ IsFiniteSet(B) /\ Cardinality(A) \in Nat /\ Cardinality(B) \in Nat
    BY AdmissibleIsFinite
  <2>2. B \subseteq A \union {r}
    BY <1>5 DEF Admissible
  <2>3. IsFiniteSet(A \union {r}) /\ Cardinality(A \union {r}) \in {Cardinality(A), Cardinality(A) + 1}
    BY <2>1, FS_AddElement
  <2>4. Cardinality(B) <= Cardinality(A \union {r})
    BY <2>2, <2>3, FS_Subset
  <2>5. Weight(v) = passed[v] + Cardinality(A) /\ Weight(v)' = passed[v] + Cardinality(B)
    BY <1>1 DEF Weight
  <2>6. passed[v] \in Nat
    BY <1>2 DEF ShopTypeOK
  <2> HIDE DEF A, B
  <2>7. Weight(v)' <= Weight(v) + 1 /\ Weight(v) \in Nat /\ Weight(v)' \in Nat
    BY <2>1, <2>3, <2>4, <2>5, <2>6
  <2>8. Weight(v) <= IF countEnds[v] = 0 THEN 0 ELSE count[v]
    BY <1>2, <1>10 DEF LimitPart, EveryoneIsCounted, Weight
  <2>9. CASE countEnds[v] = 0
    <3>1. n = 1
      BY <1>2, <1>3, <2>9 DEF Live
    <3> QED BY <1>6, <2>7, <2>8, <2>9, <3>1, ConstantTypes DEF NoExpiry
  <2>10. CASE countEnds[v] # 0
    <3>1. now < countEnds[v]
      BY <1>2, <1>10, <2>10 DEF LimitPart, CounterCoversWindow, CurrentWindow
    <3>2. n = count[v] + 1
      BY <1>3, <3>1 DEF Live
    <3>3. countEnds'[v] # 0
      BY <1>6, <2>10, ConstantTypes DEF NoExpiry
    <3> QED BY <1>2, <2>7, <2>8, <2>10, <3>2, <3>3
  <2> QED BY <2>9, <2>10
<1>11. EveryoneIsCounted'
  <2> SUFFICES ASSUME NEW w \in Windows, w >= CurrentWindow
               PROVE Weight(w)' <= IF countEnds'[w] = 0 THEN 0 ELSE count'[w]
    BY <1>2 DEF EveryoneIsCounted, Weight
  <2>1. CASE w # v
    <3>1. Weight(w) <= IF countEnds[w] = 0 THEN 0 ELSE count[w]
      BY DEF LimitPart, EveryoneIsCounted, Weight
    <3>2. count[w] \in Nat
      BY DEF ShopTypeOK
    <3>3. count'[w] = count[w] /\ countEnds'[w] = countEnds[w]
      BY <1>6, <2>1
    <3> QED BY <1>9, <2>1, <3>1, <3>2, <3>3
  <2>2. CASE w = v
    <3>1. v = CurrentWindow
      BY <1>2, <1>4, <2>2
    <3> QED BY <1>6, <1>10, <2>2, <3>1
  <2> QED BY <2>1, <2>2
<1>12. QuotaIsKept'
  <2> SUFFICES ASSUME NEW w \in Windows PROVE Weight(w)' <= Limit
    BY DEF QuotaIsKept, Weight
  <2>1. CASE w # v \/ ~(n <= Limit /\ v = CurrentWindow)
    <3>1. Weight(w) <= Limit
      BY DEF LimitPart, QuotaIsKept, Weight
    <3> QED BY <1>9, <2>1, <3>1, ConstantTypes
  <2>2. CASE w = v /\ n <= Limit /\ v = CurrentWindow
    <3>1. Weight(v)' \in Int
      BY <1>1, <1>2, AdmissibleIsFinite DEF Weight, ShopTypeOK
    <3> QED BY <1>3, <1>10, <2>2, <3>1, ConstantTypes
  <2> QED BY <2>1, <2>2
<1> QED BY <1>7, <1>8, <1>11, <1>12 DEF LimitPart

(* EXPIRE: the window has begun, so the counter outlives it.               *)
LEMMA ExpiryKeepsLimit ==
    ASSUME ShopTypeOK, LimitPart, NEW r \in Requests, ExpireCounter(r)
    PROVE  LimitPart'
<1>0. PICK v \in Windows : v = window[r]
  BY DEF ShopTypeOK
<1>1. /\ step[r] = "expire"
      /\ countEnds' = [countEnds EXCEPT ![v] = now + Window]
      /\ step' = [step EXCEPT ![r] = "judge"]
      /\ UNCHANGED <<now, count, passed, window, prompt, counted>>
  BY <1>0 DEF ExpireCounter, Goto
<1>2. now \in 0 .. MaxTime /\ now \in Nat
  BY DEF ShopTypeOK
<1>3. /\ \A w \in Windows \ {v} : countEnds'[w] = countEnds[w]
      /\ countEnds'[v] = now + Window
  BY <1>1 DEF ShopTypeOK
<1>4. \A q \in Requests : step'[q] = IF q = r THEN "judge" ELSE step[q]
  BY <1>1 DEF ShopTypeOK
<1>5. \A w \in Windows : Admissible(w)' = Admissible(w)
  BY <1>1, <1>4 DEF Admissible
<1>6. WindowHasBegun'
  BY <1>1, <1>4 DEF LimitPart, WindowHasBegun, CurrentWindow
<1>7. CounterCoversWindow'
  <2> SUFFICES ASSUME NEW w \in Windows, countEnds'[w] # 0, NEW t \in 0 .. MaxTime,
                      t \div Window = w
               PROVE  t < countEnds'[w]
    BY DEF CounterCoversWindow
  <2>1. CASE w # v
    BY <1>3, <2>1 DEF LimitPart, CounterCoversWindow
  <2>2. CASE w = v
    <3>1. t \div Window <= now \div Window
      BY <1>0, <1>1, <2>2 DEF LimitPart, WindowHasBegun, CurrentWindow
    <3>2. t \in Nat /\ Window \in Nat \ {0}
      BY ConstantTypes
    <3>3. t < now + Window
      BY <1>2, <3>1, <3>2, WindowIsOver
    <3> QED BY <1>3, <2>2, <3>3
  <2> QED BY <2>1, <2>2
<1>8. \A w \in Windows : passed'[w] + Cardinality(Admissible(w)')
                         = passed[w] + Cardinality(Admissible(w))
  BY <1>1, <1>5
<1>9. EveryoneIsCounted'
  <2> SUFFICES ASSUME NEW w \in Windows, w >= CurrentWindow
               PROVE passed[w] + Cardinality(Admissible(w))
                        <= IF countEnds'[w] = 0 THEN 0 ELSE count[w]
    BY <1>1, <1>8 DEF EveryoneIsCounted, CurrentWindow
  <2>1. passed[w] + Cardinality(Admissible(w)) <= IF countEnds[w] = 0 THEN 0 ELSE count[w]
    BY DEF LimitPart, EveryoneIsCounted
  <2>2. /\ count[w] \in Nat /\ passed[w] \in Nat /\ Cardinality(Admissible(w)) \in Nat
        /\ now + Window # 0
    BY <1>2, ConstantTypes, AdmissibleIsFinite DEF ShopTypeOK
  <2>3. countEnds'[w] = 0 => countEnds[w] = 0
    BY <1>3, <2>2
  <2> QED BY <2>1, <2>2, <2>3
<1>10. QuotaIsKept'
  BY <1>8 DEF LimitPart, QuotaIsKept
<1> QED BY <1>6, <1>7, <1>9, <1>10 DEF LimitPart

(* A request that is let through is moved from one side of the weight to   *)
(* the other.                                                              *)
LEMMA JudgeKeepsLimit ==
    ASSUME ShopTypeOK, LimitPart, NEW r \in Requests, Judge(r), counted[r] <= Limit
    PROVE  LimitPart'
<1>0. PICK v \in Windows : v = window[r]
  BY DEF ShopTypeOK
<1>1. /\ step[r] = "judge"
      /\ step' = [step EXCEPT ![r] = "get"]
      /\ passed' = IF prompt[r] THEN [passed EXCEPT ![v] = passed[v] + 1] ELSE passed
      /\ UNCHANGED <<now, count, countEnds, window, prompt, counted>>
  <2>1. ~(counted[r] > Limit)
    BY ConstantTypes DEF ShopTypeOK
  <2> QED BY <1>0, <2>1 DEF Judge, Goto
<1>2. \A q \in Requests : step'[q] = IF q = r THEN "get" ELSE step[q]
  BY <1>1 DEF ShopTypeOK
<1>3. ASSUME NEW w \in Windows
      PROVE  passed'[w] + Cardinality(Admissible(w)')
                = passed[w] + Cardinality(Admissible(w))
  <2> DEFINE A == Admissible(w)
             B == Admissible(w)'
  <2>1. passed[w] \in Nat
    BY DEF ShopTypeOK
  <2>2. CASE prompt[r] /\ w = v
    <3>1. r \in A /\ B = A \ {r}
      BY <1>0, <1>1, <1>2, <2>2 DEF Admissible
    <3>2. IsFiniteSet(A) /\ Cardinality(A) \in Nat /\ Cardinality(B) \in Nat
      BY AdmissibleIsFinite
    <3>3. Cardinality(B) = Cardinality(A) - 1
      BY <3>1, <3>2, FS_RemoveElement
    <3>4. passed'[w] = passed[w] + 1
      BY <1>1, <2>2 DEF ShopTypeOK
    <3> HIDE DEF A, B
    <3>5. passed'[w] + Cardinality(B) = passed[w] + Cardinality(A)
      BY <2>1, <3>2, <3>3, <3>4
    <3> QED BY <3>5 DEF A, B
  <2>3. CASE ~(prompt[r] /\ w = v)
    <3>1. B = A
      BY <1>0, <1>1, <1>2, <2>3 DEF Admissible
    <3>2. passed'[w] = passed[w]
      BY <1>1, <2>3 DEF ShopTypeOK
    <3> QED BY <3>1, <3>2
  <2> QED BY <2>2, <2>3
<1>4. WindowHasBegun'
  BY <1>1, <1>2 DEF LimitPart, WindowHasBegun, CurrentWindow
<1>5. CounterCoversWindow'
  BY <1>1 DEF LimitPart, CounterCoversWindow
<1>6. EveryoneIsCounted'
  BY <1>1, <1>3 DEF LimitPart, EveryoneIsCounted, CurrentWindow
<1>7. QuotaIsKept'
  BY <1>3 DEF LimitPart, QuotaIsKept
<1> QED BY <1>4, <1>5, <1>6, <1>7 DEF LimitPart

(* Time only closes windows.                                               *)
LEMMA TimeKeepsLimit ==
    ASSUME ShopTypeOK, LimitPart, Tick
    PROVE  LimitPart'
<1>1. /\ now' = now + 1
      /\ UNCHANGED <<count, countEnds, passed, step, window, prompt, counted>>
  BY DEF Tick, limitVars, requestVars
<1>2. CurrentWindow <= CurrentWindow' /\ CurrentWindow \in Nat /\ CurrentWindow' \in Nat
  <2>1. now \in Nat /\ now' \in Nat /\ now <= now'
    BY <1>1, ConstantTypes DEF ShopTypeOK
  <2> QED BY <2>1, ConstantTypes, WindowsInOrder, WindowLength DEF CurrentWindow
<1>3. \A w \in Windows : Admissible(w)' = Admissible(w) /\ w \in Nat
  BY <1>1, WindowOfNow DEF Admissible
<1>4. \A r \in Requests : window[r] \in Windows
  BY DEF ShopTypeOK
<1>5. WindowHasBegun'
  <2> SUFFICES ASSUME NEW r \in Requests, step[r] \in {"count", "expire"}
               PROVE  window[r] <= CurrentWindow'
    BY <1>1 DEF WindowHasBegun
  <2>1. window[r] <= CurrentWindow /\ window[r] \in Nat
    BY <1>3, <1>4 DEF LimitPart, WindowHasBegun
  <2> QED BY <1>2, <2>1
<1>6. CounterCoversWindow'
  BY <1>1 DEF LimitPart, CounterCoversWindow
<1>7. EveryoneIsCounted'
  <2> SUFFICES ASSUME NEW w \in Windows, w >= CurrentWindow'
               PROVE passed[w] + Cardinality(Admissible(w))
                        <= IF countEnds[w] = 0 THEN 0 ELSE count[w]
    BY <1>1, <1>3 DEF EveryoneIsCounted
  <2>1. w >= CurrentWindow
    BY <1>2, <1>3
  <2> QED BY <2>1 DEF LimitPart, EveryoneIsCounted
<1>8. QuotaIsKept'
  BY <1>1, <1>3 DEF LimitPart, QuotaIsKept
<1> QED BY <1>5, <1>6, <1>7, <1>8 DEF LimitPart

(* Every step keeps the account of the windows.                            *)
LEMMA LimitStep ==
    ASSUME ShopInv, [ShopNext]_shopVars
    PROVE  LimitPart'
<1> USE DEF shopVars, sessionVars, pageVars, requestVars, Goto
<1>0. ShopTypeOK /\ LimitPart
  BY DEF ShopInv, LimitPart
(* A request that moves from r's step to another that is neither counted nor *)
(* admissible leaves the windows as they are.                              *)
<1>1. ASSUME NEW r \in Requests, UNCHANGED <<now, limitVars>>,
             \A q \in Requests \ {r} : /\ step'[q] = step[q] /\ window'[q] = window[q]
                                       /\ prompt'[q] = prompt[q] /\ counted'[q] = counted[q],
             \/ step'[r] \notin {"count", "expire", "judge"}
             \/ step'[r] = "count" /\ window'[r] = CurrentWindow
      PROVE LimitPart'
  <2>1. \A w \in Windows : Admissible(w)' \subseteq Admissible(w)
    BY <1>1 DEF Admissible
  <2>2. \A q \in Requests : step'[q] \in {"count", "expire"} =>
            \/ step[q] \in {"count", "expire"} /\ window'[q] = window[q]
            \/ window'[q] = CurrentWindow
    BY <1>1
  <2> QED BY <1>0, <1>1, <2>1, <2>2, LimitIsLeftAlone
<1>2. ASSUME NEW r \in Requests, Answer(r), UNCHANGED <<now, limitVars>> PROVE LimitPart'
  <2>1. \A q \in Requests \ {r} : /\ step'[q] = step[q] /\ window'[q] = window[q]
                                  /\ prompt'[q] = prompt[q] /\ counted'[q] = counted[q]
    BY <1>0, <1>2 DEF Answer, ShopTypeOK
  <2>2. step'[r] = "done"
    BY <1>0, <1>2 DEF Answer, ShopTypeOK
  <2> QED BY <1>1, <1>2, <2>1, <2>2
<1>3. ASSUME UNCHANGED <<now, limitVars, step, window, prompt, counted>> PROVE LimitPart'
  <2>1. \A w \in Windows : Admissible(w)' \subseteq Admissible(w)
    BY <1>3 DEF Admissible
  <2> QED BY <1>0, <1>3, <2>1, LimitIsLeftAlone
<1>4. ASSUME NEW r \in Requests, NEW next, next \notin {"count", "expire", "judge"}, Goto(r, next),
             UNCHANGED <<now, limitVars, window, prompt, counted>>
      PROVE LimitPart'
  <2>1. /\ \A q \in Requests \ {r} : step'[q] = step[q]
        /\ step'[r] = next
    BY <1>0, <1>4 DEF ShopTypeOK
  <2> QED BY <1>1, <1>4, <2>1
<1>5. ASSUME NEW s \in Sessions, Login(s) PROVE LimitPart'
  BY <1>3, <1>5 DEF Login
<1>6. ASSUME NEW r \in Requests, NEW s \in Sessions \union {Malformed}, Arrive(r, s)
      PROVE LimitPart'
  BY <1>4, <1>6 DEF Arrive
<1>7. ASSUME NEW r \in Requests, LookUpSession(r) PROVE LimitPart'
  BY <1>2, <1>4, <1>7 DEF LookUpSession
<1>8. ASSUME NEW r \in Requests, ExtendSession(r) PROVE LimitPart'
  BY <1>4, <1>8 DEF ExtendSession
<1>9. ASSUME NEW r \in Requests, ChooseWindow(r) PROVE LimitPart'
  <2>1. CASE ~Answer(r)
    <3>1. /\ \A q \in Requests \ {r} : step'[q] = step[q] /\ window'[q] = window[q]
          /\ step'[r] = "count" /\ window'[r] = CurrentWindow
          /\ UNCHANGED <<now, limitVars, prompt, counted>>
      BY <1>0, <1>9, <2>1 DEF ChooseWindow, ShopTypeOK
    <3> QED BY <1>1, <3>1
  <2> QED BY <1>2, <1>9, <2>1 DEF ChooseWindow
<1>10. ASSUME NEW r \in Requests, CountRequest(r) PROVE LimitPart'
  BY <1>0, <1>10, CountKeepsLimit
<1>11. ASSUME NEW r \in Requests, ExpireCounter(r) PROVE LimitPart'
  BY <1>0, <1>11, ExpiryKeepsLimit
<1>12. ASSUME NEW r \in Requests, Judge(r) PROVE LimitPart'
  <2>1. CASE counted[r] > Limit
    BY <1>2, <1>12, <2>1 DEF Judge, limitVars
  <2>2. CASE ~(counted[r] > Limit)
    <3>1. counted[r] <= Limit
      BY <1>0, <2>2, ConstantTypes DEF ShopTypeOK
    <3> QED BY <1>0, <1>12, <3>1, JudgeKeepsLimit
  <2> QED BY <2>1, <2>2
<1>13. ASSUME NEW r \in Requests, GetPage(r) PROVE LimitPart'
  BY <1>2, <1>4, <1>13 DEF GetPage
<1>14. ASSUME NEW r \in Requests, ListProducts(r) PROVE LimitPart'
  BY <1>4, <1>14 DEF ListProducts
<1>15. ASSUME NEW r \in Requests, SetPage(r) PROVE LimitPart'
  BY <1>2, <1>15 DEF SetPage
<1>16. ASSUME NEW r \in Requests, RequestFails(r) PROVE LimitPart'
  BY <1>2, <1>16 DEF RequestFails
<1>17. CASE Sell
  BY <1>3, <1>17 DEF Sell
<1>18. CASE Tick
  BY <1>0, <1>18, TimeKeepsLimit
<1>19. CASE UNCHANGED shopVars
  BY <1>3, <1>19
<1> QED BY <1>5, <1>6, <1>7, <1>8, <1>9, <1>10, <1>11, <1>12, <1>13, <1>14, <1>15, <1>16,
           <1>17, <1>18, <1>19 DEF ShopNext, ServeRequest

-----------------------------------------------------------------------------
(* Nobody has logged in or asked for anything at first.                    *)
LEMMA ShopInitially == ShopInit => ShopInv
<1> SUFFICES ASSUME ShopInit PROVE ShopInv
  OBVIOUS
<1> USE ConstantTypes DEF ShopInit
<1>1. 0 \in Windows /\ \A w \in Windows : w \in Nat
  <2>1. MaxTime \div Window \in Nat
    BY WindowLength
  <2> QED BY <2>1 DEF Windows
<1>2. NotListed \in [stock : 0 .. InitialStock + 1, at : 0 .. MaxTime]
  BY DEF NotListed
<1>3. ShopTypeOK
  BY <1>1, <1>2 DEF ShopTypeOK
<1>4. \A w \in Windows : Cardinality(Admissible(w)) = 0
  <2>1. \A w \in Windows : Admissible(w) = {}
    BY DEF Admissible
  <2> QED BY <2>1, FS_EmptySet
<1>5. EveryoneIsCounted /\ QuotaIsKept
  BY <1>4 DEF EveryoneIsCounted, QuotaIsKept
<1>6. SessionIsFound /\ WindowHasBegun /\ CounterCoversWindow
  BY DEF SessionIsFound, WindowHasBegun, CounterCoversWindow
<1>7. ListedIsAccounted /\ PageIsAccounted
  BY DEF ListedIsAccounted, PageIsAccounted
<1> QED BY <1>3, <1>5, <1>6, <1>7 DEF ShopInv

(* What is true between any two commands of the shop's requests: the facts *)
(* the four theorems below are read off from.                              *)
THEOREM ShopInvariant == ShopSpec => []ShopInv
<1>1. ASSUME ShopInv, [ShopNext]_shopVars PROVE ShopInv'
  <2>1. ShopTypeOK'
    BY <1>1, TypeStep DEF ShopInv
  <2>2. PagePart' /\ SessionIsFound' /\ LimitPart'
    BY <1>1, <2>1, PageStep, SessionStep, LimitStep
  <2> QED BY <2>1, <2>2 DEF ShopInv, PagePart, LimitPart
<1> QED BY <1>1, ShopInitially, PTL DEF ShopSpec

(* Behind both middlewares a handler runs only for a session that was      *)
(* found: AuthMiddleware does not abort the chain on a header it cannot    *)
(* read, RateLimitMiddleware does for want of a user.                      *)
THEOREM HandlersHaveUsers == ShopSpec => []AdmittedHaveSession
<1>1. ShopInv => AdmittedHaveSession
  <2>1. \A r \in Requests : step[r] \in Serving =>
            step[r] \notin {"done", "lookup", "window"} /\ step[r] \notin {"done", "lookup"}
    BY DEF Serving
  <2> QED BY <2>1 DEF ShopInv, SessionIsFound, AdmittedHaveSession
<1> QED BY <1>1, ShopInvariant, PTL

(* RateLimitMiddleware: of the requests whose INCR came within their       *)
(* window, no more than the limit reach a handler, for every interleaving  *)
(* of INCR, EXPIRE and the comparison and every failed command.            *)
THEOREM QuotaHolds == ShopSpec => []WindowQuota
<1>1. ShopInv => WindowQuota
  <2> SUFFICES ASSUME ShopInv, NEW w \in Windows PROVE passed[w] <= Limit
    BY DEF WindowQuota
  <2>1. passed[w] + Cardinality(Admissible(w)) <= Limit
    BY DEF ShopInv, QuotaIsKept
  <2>2. passed[w] \in Nat /\ Cardinality(Admissible(w)) \in Nat
    BY AdmissibleIsFinite DEF ShopInv, ShopTypeOK
  <2> QED BY <2>1, <2>2, ConstantTypes
<1> QED BY <1>1, ShopInvariant, PTL

(* ProductService.GetProducts: a page answered from Redis was right at     *)
(* most a PageTTL and the time of one request ago.                         *)
THEOREM PagesAgeBoundedly == ShopSpec => []PagesAreRecent
<1>1. ShopInv => PagesAreRecent
  <2> SUFFICES ASSUME ShopInv, now < pageEnds, page # stock
               PROVE now < heldUntil[page] + slowest + PageTTL
    BY DEF PagesAreRecent, Live
  <2>1. pageEnds <= heldUntil[page] + slowest + PageTTL
    BY DEF ShopInv, PageIsAccounted
  <2>2. /\ now \in Nat /\ pageEnds \in Nat /\ slowest \in Nat /\ PageTTL \in Nat
    BY ConstantTypes DEF ShopInv, ShopTypeOK
  <2>3. heldUntil[page] \in 0 .. MaxTime
    BY DEF ShopInv, ShopTypeOK
  <2> QED BY <2>1, <2>2, <2>3, ConstantTypes
<1> QED BY <1>1, ShopInvariant, PTL

(* AuthService: EXPIRE does not bring back a session that ended between    *)
(* the look-up and it, and no Login takes an id a second time.             *)
THEOREM EndedSessionsStayEnded == ShopSpec => ExpiredStaysExpired
<1>1. ASSUME ShopInv, [ShopNext]_shopVars, NEW s \in Sessions,
             sessionEnds[s] # 0, ~Live(sessionEnds[s])
      PROVE  sessionEnds'[s] = sessionEnds[s]
  <2>1. CASE UNCHANGED sessionEnds
    BY <2>1
  <2>2. ASSUME NEW z \in Sessions, Login(z) PROVE sessionEnds'[s] = sessionEnds[s]
    BY <1>1, <2>2 DEF Login, ShopInv, ShopTypeOK
  <2>3. ASSUME NEW r \in Requests, ExtendSession(r) PROVE sessionEnds'[s] = sessionEnds[s]
    BY <1>1, <2>3 DEF ExtendSession, ShopInv, ShopTypeOK
  <2> QED BY <1>1, <2>1, <2>2, <2>3
          DEF ShopNext, ServeRequest, Arrive, LookUpSession, ChooseWindow, CountRequest,
              ExpireCounter, Judge, GetPage, ListProducts, SetPage, RequestFails, Sell, Tick,
              shopVars, sessionVars
<1>2. ShopInv /\ [ShopNext]_shopVars =>
        [\A s \in Sessions : sessionEnds[s] # 0 /\ ~Live(sessionEnds[s])
            => sessionEnds'[s] = sessionEnds[s]]_shopVars
  BY <1>1
<1> QED BY <1>2, ShopInvariant, PTL DEF ShopSpec, ExpiredStaysExpired
=============================================================================
