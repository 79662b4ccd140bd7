------------------------------ MODULE ShopApi -------------------------------
(***************************************************************************)
(* The requests of the shop that end in GET /products, through the two     *)
(* middlewares in front of every handler and the keys in Redis each of     *)
(* them depends on: the session of AuthService, the request counter of     *)
(* RateLimitMiddleware and the page cache of ProductService.               *)
(*                                                                         *)
(* Each Redis or database command is a step of its own, time passes        *)
(* between any two steps, and a key is gone when its expiry has come.      *)
(* The user is one: counters are per user and pages shared.                *)
(***************************************************************************)
EXTENDS Naturals, FiniteSets

CONSTANTS
    Requests,      \* requests in progress at the same time
    Sessions,      \* session ids of the user
    LoginTTL,      \* auth_service.go:56, 60 minutes
    SlideTTL,      \* auth_service.go:84, 30 minutes
    Window,        \* cmd/api/main.go:88, a minute
    Limit,         \* cmd/api/main.go:88, 10 requests
    PageTTL,       \* product_service.go:63, 60 seconds
    InitialStock,  \* stock of the product on the page
    MaxTime,       \* bound on the clock
    MaxRequests,   \* bound on the requests made
    MaxFaults      \* bound on failed commands

Malformed == "malformed"            \* a header that is not "Bearer <id>"

ASSUME RequestsAssumption == IsFiniteSet(Requests)
ASSUME SessionsAssumption == Malformed \notin Sessions
ASSUME TTLAssumption == {LoginTTL, SlideTTL, Window, PageTTL} \subseteq Nat \ {0}
ASSUME BoundsAssumption == {Limit, InitialStock, MaxTime, MaxRequests, MaxFaults} \subseteq Nat

VARIABLES
    now,          \* the clock
    sessionEnds,  \* expiry of each session key, 0 if there never was one
    count,        \* rl:<user>:<window>
    countEnds,    \* expiry of each counter, 0 if there is none
    page,         \* cache:products: the stock on the page
    pageEnds,     \* its expiry
    stock,        \* the stock in the database
    step,         \* the next step of each request
    session,      \* the session id in its Authorization header, or Malformed
    window,       \* the window it is counted in
    counted,      \* the answer to its INCR
    prompt,       \* history: its INCR came within its window
    listed,       \* the stock it listed, and when
    passed,       \* history: prompt requests of each window that were let through
    heldUntil,    \* history: when each lower stock was reached
    slowest,      \* history: the longest time between a List and its SET
    requests,     \* number of requests made
    faults        \* number of failed commands

sessionVars == <<sessionEnds>>
limitVars == <<count, countEnds, passed>>
pageVars == <<page, pageEnds, stock, heldUntil, slowest>>
requestVars == <<step, session, window, counted, prompt, listed>>
shopVars == <<now, sessionVars, limitVars, pageVars, requestVars, requests, faults>>

Windows == 0 .. MaxTime \div Window
NoExpiry == MaxTime + 1             \* a key without a TTL
NotListed == [stock |-> InitialStock + 1, at |-> 0]

Live(ends) == now < ends
CurrentWindow == now \div Window

ShopInit ==
    /\ now = 0
    /\ sessionEnds = [s \in Sessions |-> 0]
    /\ count = [w \in Windows |-> 0]
    /\ countEnds = [w \in Windows |-> 0]
    /\ page = InitialStock /\ pageEnds = 0
    /\ stock = InitialStock
    /\ step = [r \in Requests |-> "done"]
    /\ session = [r \in Requests |-> Malformed]
    /\ window = [r \in Requests |-> 0]
    /\ counted = [r \in Requests |-> 0]
    /\ prompt = [r \in Requests |-> FALSE]
    /\ listed = [r \in Requests |-> NotListed]
    /\ passed = [w \in Windows |-> 0]
    /\ heldUntil = [v \in 0 .. InitialStock |-> 0]
    /\ slowest = 0
    /\ requests = 0
    /\ faults = 0

Goto(r, next) == step' = [step EXCEPT ![r] = next]

\* Mutant: what the last request listed is kept.
AnswerKeepsList(r) ==
    /\ Goto(r, "done")
    /\ session' = [session EXCEPT ![r] = Malformed]
    /\ window' = [window EXCEPT ![r] = 0]
    /\ counted' = [counted EXCEPT ![r] = 0]
    /\ prompt' = [prompt EXCEPT ![r] = FALSE]
    /\ UNCHANGED listed

\* The request is answered, with its data or with an error, and forgotten.
Answer(r) ==
    /\ Goto(r, "done")
    /\ session' = [session EXCEPT ![r] = Malformed]
    /\ window' = [window EXCEPT ![r] = 0]
    /\ counted' = [counted EXCEPT ![r] = 0]
    /\ prompt' = [prompt EXCEPT ![r] = FALSE]
    /\ listed' = [listed EXCEPT ![r] = NotListed]

-----------------------------------------------------------------------------
(* Sessions.                                                               *)

\* The pipeline of Login: HSET and EXPIRE in one transaction, under a new id.
Login(s) ==
    /\ sessionEnds[s] = 0
    /\ sessionEnds' = [sessionEnds EXCEPT ![s] = now + LoginTTL]
    /\ UNCHANGED <<now, limitVars, pageVars, requestVars, requests, faults>>

\* A request arrives with a session id, or with a header AuthMiddleware cannot
\* read: it writes its 401, but does not abort the chain.
Arrive(r, s) ==
    /\ step[r] = "done"
    /\ requests < MaxRequests
    /\ requests' = requests + 1
    /\ session' = [session EXCEPT ![r] = s]
    /\ Goto(r, IF s = Malformed THEN "window" ELSE "lookup")
    /\ UNCHANGED <<now, sessionVars, limitVars, pageVars, window, counted, prompt, listed, faults>>

\* HGETALL finds the session, or the request is refused.
LookUpSession(r) ==
    /\ step[r] = "lookup"
    /\ IF Live(sessionEnds[session[r]])
       THEN Goto(r, "extend") /\ UNCHANGED <<session, window, counted, prompt, listed>>
       ELSE Answer(r)
    /\ UNCHANGED <<now, sessionVars, limitVars, pageVars, requests, faults>>

\* Mutant: EXPIRE is replaced by a write that also creates the key.
ExtendSessionAnyway(r) ==
    /\ step[r] = "extend"
    /\ sessionEnds' = [sessionEnds EXCEPT ![session[r]] = now + SlideTTL]
    /\ Goto(r, "window")
    /\ UNCHANGED <<now, limitVars, pageVars, session, window, counted, prompt, listed,
                   requests, faults>>

\* EXPIRE: no error, and no effect, if the session has ended since.
ExtendSession(r) ==
    /\ step[r] = "extend"
    /\ sessionEnds' =
        IF Live(sessionEnds[session[r]])
        THEN [sessionEnds EXCEPT ![session[r]] = now + SlideTTL] ELSE sessionEnds
    /\ Goto(r, "window")
    /\ UNCHANGED <<now, limitVars, pageVars, session, window, counted, prompt, listed,
                   requests, faults>>

-----------------------------------------------------------------------------
(* The rate limit.                                                         *)

\* Mutant: the middleware trusts AuthMiddleware to have set the user.
ChooseWindowForAnyone(r) ==
    /\ step[r] = "window"
    /\ window' = [window EXCEPT ![r] = CurrentWindow]
    /\ Goto(r, "count")
    /\ UNCHANGED <<now, sessionVars, limitVars, pageVars, session, counted, prompt, listed,
                   requests, faults>>

\* Without a user the request is refused; else the clock tells its window.
ChooseWindow(r) ==
    /\ step[r] = "window"
    /\ IF session[r] = Malformed
       THEN Answer(r)
       ELSE /\ window' = [window EXCEPT ![r] = CurrentWindow]
            /\ Goto(r, "count")
            /\ UNCHANGED <<session, counted, prompt, listed>>
    /\ UNCHANGED <<now, sessionVars, limitVars, pageVars, requests, faults>>

\* INCR, which makes a counter without a TTL if there is none.
CountRequest(r) ==
    LET w == window[r]
        n == IF Live(countEnds[w]) THEN count[w] + 1 ELSE 1
    IN
    /\ step[r] = "count"
    /\ count' = [count EXCEPT ![w] = n]
    /\ countEnds' = IF n = 1 THEN [countEnds EXCEPT ![w] = NoExpiry] ELSE countEnds
    /\ counted' = [counted EXCEPT ![r] = n]
    /\ prompt' = [prompt EXCEPT ![r] = w = CurrentWindow]
    /\ Goto(r, IF n = 1 THEN "expire" ELSE "judge")
    /\ UNCHANGED <<now, sessionVars, passed, pageVars, session, window, listed, requests, faults>>

\* Mutant: off by one in the counter's TTL.
ExpireCounterEarly(r) ==
    /\ step[r] = "expire"
    /\ countEnds' = [countEnds EXCEPT ![window[r]] = now + Window - 1]
    /\ Goto(r, "judge")
    /\ UNCHANGED <<now, sessionVars, count, passed, pageVars, session, window, counted, prompt,
                   listed, requests, faults>>

\* EXPIRE after the first INCR.
ExpireCounter(r) ==
    /\ step[r] = "expire"
    /\ countEnds' = [countEnds EXCEPT ![window[r]] = now + Window]
    /\ Goto(r, "judge")
    /\ UNCHANGED <<now, sessionVars, count, passed, pageVars, session, window, counted, prompt,
                   listed, requests, faults>>

\* Above the limit the request is refused, else its handler runs.
Judge(r) ==
    /\ step[r] = "judge"
    /\ IF counted[r] > Limit
       THEN Answer(r) /\ UNCHANGED passed
       ELSE /\ Goto(r, "get")
            /\ passed' = IF prompt[r] THEN [passed EXCEPT ![window[r]] = @ + 1] ELSE passed
            /\ UNCHANGED <<session, window, counted, prompt, listed>>
    /\ UNCHANGED <<now, sessionVars, count, countEnds, pageVars, requests, faults>>

-----------------------------------------------------------------------------
(* GetProducts.                                                            *)

\* Mutant: a hit extends the life of the page.
GetPageSliding(r) ==
    /\ step[r] = "get"
    /\ IF Live(pageEnds)
       THEN Answer(r) /\ pageEnds' = now + PageTTL
       ELSE Goto(r, "list") /\ UNCHANGED <<pageEnds, session, window, counted, prompt, listed>>
    /\ UNCHANGED <<now, sessionVars, limitVars, page, stock, heldUntil, slowest, requests, faults>>

\* GET: a hit answers the request.
GetPage(r) ==
    /\ step[r] = "get"
    /\ IF Live(pageEnds)
       THEN Answer(r)
       ELSE Goto(r, "list") /\ UNCHANGED <<session, window, counted, prompt, listed>>
    /\ UNCHANGED <<now, sessionVars, limitVars, pageVars, requests, faults>>

ListProducts(r) ==
    /\ step[r] = "list"
    /\ listed' = [listed EXCEPT ![r] = [stock |-> stock, at |-> now]]
    /\ Goto(r, "set")
    /\ UNCHANGED <<now, sessionVars, limitVars, pageVars, session, window, counted, prompt,
                   requests, faults>>

\* SET with the TTL of the page; two requests may have listed, in any order.
SetPage(r) ==
    LET spent == now - listed[r].at IN
    /\ step[r] = "set"
    /\ page' = listed[r].stock
    /\ pageEnds' = now + PageTTL
    /\ slowest' = IF spent > slowest THEN spent ELSE slowest
    /\ Answer(r)
    /\ UNCHANGED <<now, sessionVars, limitVars, stock, heldUntil, requests, faults>>

-----------------------------------------------------------------------------
(* The environment.                                                        *)

\* A checkout takes a unit of the product.
Sell ==
    /\ stock > 0
    /\ stock' = stock - 1
    /\ heldUntil' = [heldUntil EXCEPT ![stock] = now]
    /\ UNCHANGED <<now, sessionVars, limitVars, page, pageEnds, slowest, requestVars,
                   requests, faults>>

\* A command fails or its request is gone; effects of earlier commands stay.
RequestFails(r) ==
    /\ step[r] # "done"
    /\ faults < MaxFaults
    /\ faults' = faults + 1
    /\ Answer(r)
    /\ UNCHANGED <<now, sessionVars, limitVars, pageVars, requests>>

Tick ==
    /\ now < MaxTime
    /\ now' = now + 1
    /\ UNCHANGED <<sessionVars, limitVars, pageVars, requestVars, requests, faults>>

ServeRequest(r) ==
    \/ LookUpSession(r) \/ ExtendSession(r)
    \/ ChooseWindow(r) \/ CountRequest(r) \/ ExpireCounter(r) \/ Judge(r)
    \/ GetPage(r) \/ ListProducts(r) \/ SetPage(r)

ShopNext ==
    \/ \E s \in Sessions : Login(s)
    \/ \E r \in Requests :
        \/ \E s \in Sessions \union {Malformed} : Arrive(r, s)
        \/ ServeRequest(r)
        \/ RequestFails(r)
    \/ Sell
    \/ Tick

ShopSpec == ShopInit /\ [][ShopNext]_shopVars

-----------------------------------------------------------------------------
(* Properties.                                                             *)

Serving == {"get", "list", "set"}

ShopTypeOK ==
    /\ now \in 0 .. MaxTime
    /\ sessionEnds \in [Sessions -> Nat]
    /\ count \in [Windows -> Nat] /\ countEnds \in [Windows -> Nat]
    /\ page \in 0 .. InitialStock /\ pageEnds \in Nat /\ stock \in 0 .. InitialStock
    /\ step \in [Requests -> Serving \union
            {"done", "lookup", "extend", "window", "count", "expire", "judge"}]
    /\ session \in [Requests -> Sessions \union {Malformed}]
    /\ window \in [Requests -> Windows] /\ counted \in [Requests -> Nat]
    /\ prompt \in [Requests -> BOOLEAN]
    /\ listed \in [Requests -> [stock : 0 .. InitialStock + 1, at : 0 .. MaxTime]]
    /\ passed \in [Windows -> Nat]
    /\ heldUntil \in [0 .. InitialStock -> 0 .. MaxTime] /\ slowest \in 0 .. MaxTime
    /\ requests \in 0 .. MaxRequests /\ faults \in 0 .. MaxFaults
    /\ \A r \in Requests : step[r] = "set" <=> listed[r] # NotListed

\* A handler only runs for a request whose session was found: a header
\* auth_middleware.go:23-28 lets through is stopped by the rate limit behind it.
AdmittedHaveSession ==
    \A r \in Requests : step[r] \in Serving =>
        session[r] # Malformed /\ sessionEnds[session[r]] > 0

\* At most Limit of the requests counted within their window are let through,
\* however requests overlap, stall between two commands or fail.
WindowQuota == \A w \in Windows : passed[w] <= Limit

\* A page in the cache shows a stock that was right at most a PageTTL ago, plus the
\* time a request took from listing the products to storing them.
PagesAreRecent ==
    Live(pageEnds) /\ page # stock => now < heldUntil[page] + slowest + PageTTL

\* A session that has ended stays so, although GetSession looks it up and extends it
\* in two commands.
ExpiredStaysExpired ==
    [][\A s \in Sessions : sessionEnds[s] # 0 /\ ~Live(sessionEnds[s])
            => sessionEnds'[s] = sessionEnds[s]]_shopVars

\* The rest of the inductive invariant.  A request is past the look-up only with a
\* session that has been logged in ...
SessionIsFound ==
    \A r \in Requests :
        /\ step[r] = "lookup" => session[r] # Malformed
        /\ step[r] \notin {"done", "lookup", "window"} => session[r] # Malformed
        /\ step[r] \notin {"done", "lookup"} /\ session[r] # Malformed
                => sessionEnds[session[r]] > 0

\* ... and is counted in a window that has begun ...
WindowHasBegun ==
    \A r \in Requests : step[r] \in {"count", "expire"} => window[r] <= CurrentWindow

\* ... whose counter lives as long as the window does ...
CounterCoversWindow ==
    \A w \in Windows : countEnds[w] # 0 =>
        \A t \in 0 .. MaxTime : t \div Window = w => t < countEnds[w]

\* ... so that it still counts every prompt request let through or about to be ...
Admissible(w) ==
    {r \in Requests : /\ step[r] \in {"expire", "judge"}
                      /\ prompt[r] /\ window[r] = w /\ counted[r] <= Limit}

EveryoneIsCounted ==
    \A w \in Windows : w >= CurrentWindow =>
        passed[w] + Cardinality(Admissible(w)) <= IF countEnds[w] = 0 THEN 0 ELSE count[w]

\* ... and of those there are never more than Limit.
QuotaIsKept == \A w \in Windows : passed[w] + Cardinality(Admissible(w)) <= Limit

\* What a request has listed was the stock then, ...
ListedIsAccounted ==
    \A r \in Requests : step[r] = "set" =>
        LET l == listed[r] IN
        /\ l.at <= now /\ stock <= l.stock /\ l.stock <= InitialStock
        /\ stock # l.stock => l.at <= heldUntil[l.stock]

\* ... and the page ends a PageTTL after a request stored what it had listed.
PageIsAccounted ==
    /\ stock <= page
    /\ pageEnds <= now + PageTTL
    /\ stock # page => pageEnds <= heldUntil[page] + slowest + PageTTL

ShopInv ==
    /\ ShopTypeOK
    /\ SessionIsFound
    /\ WindowHasBegun
    /\ CounterCoversWindow
    /\ EveryoneIsCounted
    /\ QuotaIsKept
    /\ ListedIsAccounted
    /\ PageIsAccounted
=============================================================================
