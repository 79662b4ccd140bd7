---------------------------- MODULE OrderSystem ----------------------------
(***************************************************************************)
(* An order from the request that places it to the request that reads its  *)
(* outcome: the order API and the payment service share the orders table   *)
(* and its copies in Redis (OrderStore), and are joined by the topic the   *)
(* outbox relay fills (Announcements stands for outbox and relay).  A      *)
(* payment handler is inside UpdateStatus of the store for several steps,  *)
(* each of which interleaves with requests, expiring keys, and faults.     *)
(*                                                                         *)
(* The row of an order is its place in the orders table and the status     *)
(* that Payment keeps.  Malformed messages are left to Payment.            *)
(***************************************************************************)
EXTENDS Payment

CONSTANTS
    Clients,        \* HTTP requests that can be in progress at the same time
    Absent,         \* no row, no cached copy
    MaxRequests     \* bound: requests one after the other

ASSUME ClientsAssumption == Clients \intersect Members = {}
ASSUME RequestsAssumption == MaxRequests \in Nat
ASSUME NoRowAssumption == Absent \notin Orders \union Outcomes \union {"pending"}

VARIABLES
    placed,     \* orders with a committed row
    cache, call, step, subject, order,    \* those of OrderStore
    requests    \* how many requests each client has made

row == [o \in Orders |-> IF o \in placed THEN status[o] ELSE Absent]

\* Orders whose event is in the topic.
Announced == {o \in Orders : \E p \in Partitions : o \in ToSet(log[p])}

Store == INSTANCE OrderStore WITH
    Callers <- Members \union Clients, Updaters <- Members, MayFail <- TRUE,
    MaxCalls <- MaxRequests, calls <- requests

Outbox == INSTANCE Announcements WITH
    stored <- placed, announced <- Announced, Unroutable <- {}

storeVars == <<placed, cache, call, step, subject, order>>
systemVars == <<paymentVars, storeVars, requests>>

SystemInit ==
    /\ PaymentInit
    /\ placed = {}
    /\ requests = [k \in Clients |-> 0]
    /\ cache = [o \in Orders |-> Absent]
    /\ call = [c \in Members \union Clients |-> Store!NoCall]
    /\ step = [c \in Members \union Clients |-> Store!NoCall]
    /\ subject = [c \in Members \union Clients |-> Absent]
    /\ order = [c \in Members \union Clients |-> Absent]

-----------------------------------------------------------------------------
(* The order API.                                                          *)

Request(k) ==
    /\ requests[k] < MaxRequests
    /\ requests' = [requests EXCEPT ![k] = @ + 1]
    /\ UNCHANGED <<paymentVars, placed>>

\* POST /orders, with a new order id each time; GET /orders/:id.
CreateOrder(k, o) == Request(k) /\ Store!BeginCreate(k, o)
GetOrderByID(k, o) == Request(k) /\ Store!BeginGet(k, o)

\* The transaction of CreateWithOutbox commits: row and event are there together.
CommitOrder(k) ==
    /\ step[k] = "insert"
    /\ UNCHANGED <<paymentVars, requests>>
    /\ Outbox!Store(subject[k])
    /\ Store!InsertRow(k) \/ Store!WriteUnanswered(k)

\* The other operations of a request; it ends early when the client disconnects
\* or the process dies.
RequestStep(k) ==
    /\ UNCHANGED <<paymentVars, requests, placed>>
    /\ \/ Store!CacheHit(k) \/ Store!CacheMiss(k) \/ Store!ReadRow(k)
       \/ Store!WarmCache(k) \/ Store!WarmFails(k) \/ Store!DatabaseFails(k)

RequestDies(k) == UNCHANGED <<paymentVars, requests, placed>> /\ Store!CallerDies(k)

Respond(k) == CommitOrder(k) \/ RequestStep(k)

-----------------------------------------------------------------------------
(* The outbox relay and the TTL of a key.                                  *)

\* Mutant: the event is sent by CreateOrder, before the transaction commits.
RelayEarly(o) ==
    /\ o \in placed \/ \E k \in Clients : step[k] = "insert" /\ subject[k] = o
    /\ PublishOrderEvent(o)
    /\ UNCHANGED <<storeVars, requests>>

\* The relay publishes an order's event, once or more often.
RelayPublishes(o) ==
    /\ PublishOrderEvent(o)
    /\ UNCHANGED <<storeVars, requests>>
    /\ Outbox!Announce(o)

\* Mutant: SET without an expiration.
ExpireKeyNever(o) == FALSE

ExpireKey(o) == UNCHANGED <<paymentVars, placed, requests>> /\ Store!Expire(o)

-----------------------------------------------------------------------------
(* The payment service.                                                    *)

\* UpdateStatus of the store is called with the outcome that was drawn,
StartUpdate(c) ==
    /\ DrawOutcome(c)
    /\ UNCHANGED <<placed, requests>>
    /\ Store!BeginUpdate(c, MessageOf(c), outcome'[c])

\* Mutant: only a pending order is updated.
ChangeRowOnce(c) ==
    /\ UpdateStatusOnce(c)
    /\ UNCHANGED <<placed, requests, cache, order>>
    /\ Store!Goto(c, "read")

\* ... the row is updated,
ChangeRow(c) ==
    /\ UpdateStatus(c)
    /\ UNCHANGED <<placed, requests>>
    /\ Store!UpdateRow(c)

\* ... read back and cached.
RefreshCache(c) ==
    /\ ~cancelled[c]
    /\ UNCHANGED <<paymentVars, requests, placed>>
    /\ Store!ReadRow(c) \/ Store!WarmCache(c)

RefreshFails(c) ==
    /\ UNCHANGED <<paymentVars, requests, placed>>
    /\ Store!WarmFails(c)

\* One of the two database calls of UpdateStatus returns an error.
UpdateFails(c) ==
    /\ call[c] # Store!NoCall
    /\ HandlerError(c)
    /\ published' = published
    /\ UNCHANGED <<placed, requests>>
    /\ Store!DatabaseFails(c) \/ Store!WriteUnanswered(c)

\* The calls before and after UpdateStatus leave the store alone.
OutsideStore(c) ==
    /\ call[c] = Store!NoCall
    /\ IgnoreDuplicate(c) \/ Publish(c) \/ MarkProcessed(c) \/ HandlerError(c)
    /\ UNCHANGED <<storeVars, requests>>

PaymentStep(c) ==
    \/ StartUpdate(c) \/ ChangeRow(c) \/ RefreshCache(c) \/ RefreshFails(c)
    \/ UpdateFails(c) \/ OutsideStore(c)

\* The process dies, in a call of the store or outside.
PaymentDies(c) ==
    /\ CrashService(c)
    /\ UNCHANGED <<placed, requests>>
    /\ \/ Store!CallerDies(c)
       \/ call[c] = Store!NoCall /\ UNCHANGED storeVars

PaymentLoop(c) == ServiceLoop(c) /\ UNCHANGED <<storeVars, requests>>
PaymentStart(c) == ServiceStart(c) /\ UNCHANGED <<storeVars, requests>>
PaymentCancel(c) == ServiceCancel(c) /\ UNCHANGED <<storeVars, requests>>
PaymentAssign(p, c) == ServiceAssign(p, c) /\ UNCHANGED <<storeVars, requests>>

-----------------------------------------------------------------------------
SystemNext ==
    \/ \E o \in Orders :
        \/ RelayPublishes(o) \/ ExpireKey(o)
        \/ \E k \in Clients : CreateOrder(k, o) \/ GetOrderByID(k, o)
    \/ \E k \in Clients : Respond(k) \/ RequestDies(k)
    \/ \E c \in Members :
        \/ PaymentStep(c) \/ PaymentLoop(c)
        \/ PaymentStart(c) \/ PaymentCancel(c) \/ PaymentDies(c)
        \/ \E p \in Partitions : PaymentAssign(p, c)

SystemSpec == SystemInit /\ [][SystemNext]_systemVars

\* The processes go on, keys expire, and the relay keeps the promise of the outbox.
SystemFairness ==
    /\ \A k \in Clients : WF_systemVars(Respond(k))
    /\ \A o \in Orders :
        /\ WF_systemVars(o \notin Announced /\ RelayPublishes(o))
        /\ WF_systemVars(ExpireKey(o))
    /\ \A c \in Members :
        /\ WF_systemVars(PaymentStep(c))
        /\ WF_systemVars(PaymentLoop(c))
        /\ WF_systemVars(PaymentStart(c))
    /\ \A p \in Partitions :
        WF_systemVars(\E c \in Members : PaymentAssign(p, c))

FairSystemSpec == SystemSpec /\ SystemFairness

-----------------------------------------------------------------------------
(* Properties.                                                             *)

\* The handler never runs into the missing row at order_repo.go:99: whatever is
\* relayed, retried or redelivered, the order of an event in progress is committed.
UpdatesFindTheirRow ==
    \A c \in Members : stage[c] # Idle => row[MessageOf(c)] # Absent

GivenUp(o) ==
    \E r \in dlq \union lost : log[r[1]][r[2] + 1] = o

\* An order that was placed is paid or cancelled and announced in the end, or a
\* copy of its event was given up: even one whose client was answered with an error
\* because the answer to the commit was lost.
PlacedIsDecided ==
    \A o \in Orders : (o \in placed) ~> (o \in processed \/ GivenUp(o))

\* With one payment process, row, cache and topic agree in the end: what a user reads
\* of a processed order is the outcome announced last.
ReadersLearnOutcome ==
    \A o \in Orders :
        <>[](o \in processed =>
                /\ row[o] = Last(published[o])
                /\ cache[o] \in {Absent, row[o]})
=============================================================================
