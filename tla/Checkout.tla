------------------------------ MODULE Checkout ------------------------------
(***************************************************************************)
(* Orders, stock reservations and payments of the club's checkout:         *)
(* modules/checkout (store.py, payments.py, orders.py, admin.py), the      *)
(* podcast subscription order of modules/podcasts/routes.py, the product   *)
(* editor of modules/content/admin.py and, as the code uses it, the        *)
(* payment provider.                                                       *)
(*                                                                         *)
(* One database transaction is one action.  Everything a coroutine keeps   *)
(* between two transactions or provider calls is in task and job, and is   *)
(* lost when the coroutine stops.                                          *)
(***************************************************************************)
EXTENDS Integers, FiniteSets

CONSTANTS
  Order,         \* orders; each stands for one Idempotency-Key of one cart
  Product,       \* stock lines: a product, or one variant of it
  Payment,       \* payment ids the provider may mint
  Handler,       \* coroutines that serve orders, pay, subscribe and webhook
  NoOrder,
  NoPayment,
  Cart,          \* Cart[o][q]: units of q in the cart that order o commits
  InitialStock,  \* InitialStock[q]: units of q on sale at the start
  MaxStock,      \* the largest stock the office types in (a bound)
  Payable,       \* cart orders with total > 0 while payments are enabled
  OfficeStatus,  \* the statuses the office assigns in an instance (a bound)
  KeyLapses      \* whether the provider may forget an Idempotence-Key

ASSUME CheckoutAssumption ==
  /\ NoOrder \notin Order /\ NoPayment \notin Payment
  /\ IsFiniteSet(Order) /\ MaxStock \in Nat
  /\ Cart \in [Order -> [Product -> 0..MaxStock]]
  /\ InitialStock \in [Product -> Nat]
  /\ Payable \subseteq Order
  /\ OfficeStatus \subseteq
       {"new", "in_progress", "confirmed", "done", "canceled", "expired"}
  /\ KeyLapses \in BOOLEAN

VARIABLES
  status,          \* orders.status, "absent" before the row exists
  payment_status,  \* orders.payment_status, "null" for NULL
  payment_id,      \* orders.payment_id
  reservation,     \* the club_checkout_commits row: none, held or released
  extensions,      \* how often order o has extended its owner's subscription
  stock,           \* products.stock (or the stock of a variant)
  present,         \* products that have not been deleted
  aged,            \* orders older than RESERVE_TTL_HOURS
  provider,        \* status of each payment at the provider
  paymentOf,       \* metadata.order_number of each payment
  remembered,      \* what the provider answers to the order's Idempotence-Key
  task,            \* what each handler is doing
  job,             \* what the reservation expiry job is doing
  supply           \* history: units on sale and in unreleased reservations

orderVars == <<status, payment_status, payment_id, reservation, extensions>>
shelfVars == <<stock, present, supply>>
providerVars == <<provider, paymentOf, remembered>>
vars == <<orderVars, shelfVars, providerVars, aged, task, job>>

Closed == {"canceled", "expired"}
Terminal == {"done"} \cup Closed
Status == {"absent", "new", "in_progress", "confirmed"} \cup Terminal
PaymentStatus ==
  {"null", "pending", "waiting_for_capture", "review", "succeeded", "canceled"}

\* "mismatch" is a payment that is reported as succeeded with another amount
\* or currency, or that is not paid.
ProviderStatus ==
  {"absent", "pending", "waiting_for_capture", "succeeded", "mismatch",
   "canceled"}

Idle == [step |-> "idle", from |-> "nobody", order |-> NoOrder,
         payment |-> NoPayment, seen |-> "absent"]
Task == [step : {"idle", "create", "failed", "fetch", "record"},
         from : {"nobody", "checkout", "subscribe", "pay", "recheck", "webhook"},
         order : Order \cup {NoOrder},
         payment : Payment \cup {NoPayment},
         seen : ProviderStatus]

NoRow == [payment_status |-> "null", payment_id |-> NoPayment]
Row == [payment_status : PaymentStatus, payment_id : Payment \cup {NoPayment}]
Resting == [step |-> "idle", rows |-> {}, snapshot |-> [o \in Order |-> NoRow],
            order |-> NoOrder, payment |-> NoPayment, seen |-> "absent"]
Job == [step : {"idle", "next", "record", "flag"},
        rows : SUBSET Order,
        snapshot : [Order -> Row],
        order : Order \cup {NoOrder},
        payment : Payment \cup {NoPayment},
        seen : ProviderStatus]

TypeOK ==
  /\ status \in [Order -> Status]
  /\ payment_status \in [Order -> PaymentStatus]
  /\ payment_id \in [Order -> Payment \cup {NoPayment}]
  /\ reservation \in [Order -> {"none", "held", "released"}]
  /\ extensions \in [Order -> Nat]
  /\ stock \in [Product -> Nat]
  /\ present \subseteq Product
  /\ aged \subseteq Order
  /\ provider \in [Payment -> ProviderStatus]
  /\ paymentOf \in [Payment -> Order \cup {NoOrder}]
  /\ remembered \in [Order -> Payment \cup {NoPayment}]
  /\ task \in [Handler -> Task]
  /\ job \in Job
  /\ supply \in [Product -> Nat]

Init ==
  /\ status = [o \in Order |-> "absent"]
  /\ payment_status = [o \in Order |-> "null"]
  /\ payment_id = [o \in Order |-> NoPayment]
  /\ reservation = [o \in Order |-> "none"]
  /\ extensions = [o \in Order |-> 0]
  /\ stock = InitialStock
  /\ present = Product
  /\ aged = {}
  /\ provider = [p \in Payment |-> "absent"]
  /\ paymentOf = [p \in Payment |-> NoOrder]
  /\ remembered = [o \in Order |-> NoPayment]
  /\ task = [h \in Handler |-> Idle]
  /\ job = Resting
  /\ supply = InitialStock
-----------------------------------------------------------------------------
(* The stock and its reservations. *)

Placed(o) == status[o] # "absent"
IsPodcast(o) == Placed(o) /\ reservation[o] = "none"

Reserves(o, q) == reservation[o] = "held" /\ Cart[o][q] > 0

\* One pair for every reserved unit of q whose reservation is not released.
HeldUnits(q) ==
  {u \in Order \X (1..MaxStock) :
     reservation[u[1]] = "held" /\ u[2] <= Cart[u[1]][q]}

\* Mutant: a paid order counts as finished.
OpenReservationUnpaid(q) ==
  \E o \in Order : Reserves(o, q) /\ status[o] \in {"new", "in_progress"}

\* product_reservations: an open order that still holds units of q.
OpenReservation(q) == \E o \in Order : Reserves(o, q) /\ status[o] \notin Terminal

\* commit: every product exists and has enough units.
Available(o) ==
  \A q \in Product : Cart[o][q] > 0 => q \in present /\ Cart[o][q] <= stock[q]

\* release refuses when a product of the reservation is gone.
CanRelease(o) == \A q \in Product : Reserves(o, q) => q \in present

\* release returns a held reservation, once.
Release(o) ==
  IF reservation[o] = "held"
  THEN /\ stock' = [q \in Product |-> stock[q] + Cart[o][q]]
       /\ reservation' = [reservation EXCEPT ![o] = "released"]
  ELSE UNCHANGED <<stock, reservation>>

\* The office sets a stock, or deletes a product, only without open
\* reservations: write_content, product_reservations and the DELETE route.
SetStock(q, n) ==
  /\ q \in present /\ ~OpenReservation(q)
  /\ stock' = [stock EXCEPT ![q] = n]
  /\ supply' = [supply EXCEPT ![q] = n + Cardinality(HeldUnits(q))]
  /\ UNCHANGED <<orderVars, present, providerVars, aged, task, job>>

\* Mutant: DELETE does not look at reservations.
DeleteProductReserved(q) ==
  /\ q \in present
  /\ present' = present \ {q}
  /\ UNCHANGED <<orderVars, stock, supply, providerVars, aged, task, job>>

DeleteProduct(q) ==
  /\ q \in present /\ ~OpenReservation(q)
  /\ present' = present \ {q}
  /\ UNCHANGED <<orderVars, stock, supply, providerVars, aged, task, job>>
-----------------------------------------------------------------------------
(* The transactions of payments.py and store.py on one order. *)

\* Mutant: an order without a payment id is not told apart.
OtherPaymentUnbound(o, p) == payment_id[o] # p

OtherPayment(o, p) == payment_id[o] \notin {NoPayment, p}

\* Mutant: a repeated notification is not recognised.
AlreadyPaidNever(o) == FALSE

AlreadyPaid(o) == payment_status[o] = "succeeded"

\* Mutant: amount, currency and the paid flag are not compared.
PaidInFullAlways(o, seen) == status[o] \notin Closed

PaidInFull(o, seen) == seen = "succeeded" /\ status[o] \notin Closed

\* payment_outcome: what a provider answer means for the order as it is now.
PaymentOutcome(o, p, seen) ==
  IF OtherPayment(o, p) THEN "ignored"
  ELSE IF AlreadyPaid(o) THEN "duplicate"
  ELSE IF seen \in {"succeeded", "mismatch"}
    THEN IF PaidInFull(o, seen) THEN "succeeded" ELSE "review"
  ELSE IF \/ payment_status[o] = "review" /\ payment_id[o] = p
          \/ status[o] \in Closed
    THEN "ignored"
  ELSE IF seen = "canceled"
    THEN IF status[o] = "done" THEN "review" ELSE "canceled"
  ELSE IF payment_status[o] = "canceled" THEN "ignored"
  ELSE "pending"

Bind(o, p, value) ==
  /\ payment_id' = [payment_id EXCEPT ![o] = p]
  /\ payment_status' = [payment_status EXCEPT ![o] = value]

\* apply rolls back when release raises.
Refused(o, p, seen) ==
  PaymentOutcome(o, p, seen) = "canceled" /\ ~CanRelease(o)

Apply(o, p, seen) ==
  LET outcome == PaymentOutcome(o, p, seen) IN
  \/ /\ outcome \in {"ignored", "duplicate"}
     /\ UNCHANGED <<orderVars, stock>>
  \/ /\ outcome = "succeeded"
     /\ Bind(o, p, "succeeded")
     /\ status' = [status EXCEPT ![o] = IF @ = "new" THEN "confirmed" ELSE @]
     /\ extensions' =
          [extensions EXCEPT ![o] = IF IsPodcast(o) THEN @ + 1 ELSE @]
     /\ UNCHANGED <<reservation, stock>>
  \/ /\ outcome = "canceled"
     /\ Bind(o, p, "canceled")
     /\ status' = [status EXCEPT ![o] = "canceled"]
     /\ Release(o)
     /\ UNCHANGED extensions
  \/ /\ outcome \in {"review", "pending"}
     /\ Bind(o, p, IF outcome = "pending" THEN seen ELSE "review")
     /\ UNCHANGED <<status, reservation, extensions, stock>>

\* Mutant: the payment id is not looked at.
ClearFailedCreationBound(o) ==
  payment_status' =
    [payment_status EXCEPT ![o] = IF @ = "pending" THEN "null" ELSE @]

\* The UPDATE of creation_failed.
ClearFailedCreation(o) ==
  payment_status' =
    [payment_status EXCEPT
       ![o] = IF payment_id[o] = NoPayment /\ @ = "pending" THEN "null" ELSE @]

\* The UPDATE of flag_missing_payment.
FlagMissingPayment(o) ==
  payment_status' =
    [payment_status EXCEPT
       ![o] = IF /\ status[o] = "new"
                 /\ payment_id[o] = NoPayment
                 /\ @ \in {"pending", "waiting_for_capture"}
              THEN "review" ELSE @]

\* Mutant: a paid order may be closed.
PaymentOpenUnpaid(o) ==
  payment_status[o] \in {"pending", "waiting_for_capture", "review"}

PaymentOpen(o) ==
  payment_status[o] \in {"succeeded", "pending", "waiting_for_capture", "review"}

\* Mutant: a canceled order may be opened again.
FinishedDone(o) == status[o] = "done"

Finished(o) == status[o] \in Terminal

\* The checks of change_status that come before its UPDATE.
MayChange(o, new) ==
  /\ Placed(o) /\ status[o] # new /\ ~Finished(o)
  /\ new \in Closed => ~PaymentOpen(o) /\ CanRelease(o)

\* Mutant: only the office's cancellation returns the units.
ChangeStatusCanceled(o, new) ==
  /\ status' = [status EXCEPT ![o] = new]
  /\ IF new = "canceled" THEN Release(o) ELSE UNCHANGED <<stock, reservation>>
  /\ UNCHANGED <<payment_status, payment_id, extensions>>

ChangeStatus(o, new) ==
  /\ status' = [status EXCEPT ![o] = new]
  /\ IF new \in Closed THEN Release(o) ELSE UNCHANGED <<stock, reservation>>
  /\ UNCHANGED <<payment_status, payment_id, extensions>>

\* PATCH /admin/orders/{id}
OfficeChange(o, new) ==
  /\ MayChange(o, new)
  /\ ChangeStatus(o, new)
  /\ UNCHANGED <<present, supply, providerVars, aged, task, job>>
-----------------------------------------------------------------------------
(* Handlers: POST /orders, /podcasts/subscribe, /orders/{number}/pay and     *)
(* the provider's webhook.                                                   *)

Start(h, from, o, step) ==
  task' = [task EXCEPT
             ![h] = [Idle EXCEPT !.step = step, !.from = from, !.order = o]]

Finish(h) == task' = [task EXCEPT ![h] = Idle]

\* The commit transaction.  A second one with the same key finds the receipt of
\* the first and changes nothing.
Commit(o) ==
  /\ ~Placed(o) /\ Available(o)
  /\ status' = [status EXCEPT ![o] = "new"]
  /\ payment_status' =
       [payment_status EXCEPT ![o] = IF o \in Payable THEN "pending" ELSE "null"]
  /\ reservation' = [reservation EXCEPT ![o] = "held"]
  /\ stock' = [q \in Product |-> stock[q] - Cart[o][q]]

\* create_order up to the end of commit.
PlaceOrder(h, o) ==
  /\ task[h] = Idle
  /\ Commit(o)
  /\ IF o \in Payable THEN Start(h, "checkout", o, "create") ELSE Finish(h)
  /\ UNCHANGED <<payment_id, extensions, present, supply, providerVars, aged, job>>

\* subscribe reuses an open unpaid subscription order instead of a new one.
Subscribe(h, o) ==
  /\ task[h] = Idle /\ ~Placed(o)
  /\ ~\E other \in Order :
        /\ IsPodcast(other) /\ status[other] \in {"new", "in_progress"}
        /\ payment_status[other] \notin {"succeeded", "canceled"}
  /\ status' = [status EXCEPT ![o] = "new"]
  /\ payment_status' = [payment_status EXCEPT ![o] = "pending"]
  /\ Start(h, "subscribe", o, "create")
  /\ UNCHANGED <<payment_id, reservation, extensions, shelfVars, providerVars,
                 aged, job>>

\* prepare: the owner asks for a payment link.
Pay(h, o) ==
  /\ task[h] = Idle /\ Placed(o)
  /\ status[o] \notin Closed
  /\ payment_status[o] \notin {"succeeded", "review"}
  /\ IsPodcast(o) \/ o \in Payable
  /\ IF payment_id[o] = NoPayment
     THEN /\ payment_status' = [payment_status EXCEPT ![o] = "pending"]
          /\ Start(h, "pay", o, "create")
     ELSE /\ UNCHANGED payment_status
          /\ Start(h, "recheck", o, "fetch")
  /\ UNCHANGED <<status, payment_id, reservation, extensions, shelfVars,
                 providerVars, aged, job>>

Minted(o, p) ==
  /\ remembered[o] = p \/ (remembered[o] = NoPayment /\ provider[p] = "absent")
  /\ provider' = [provider EXCEPT ![p] = IF @ = "absent" THEN "pending" ELSE @]
  /\ paymentOf' = [paymentOf EXCEPT ![p] = o]
  /\ remembered' = [remembered EXCEPT ![o] = p]

\* create: the provider's answer, which is the first one again for a key it
\* remembers, arrives.
CreatePayment(h) ==
  /\ task[h].step = "create"
  /\ \E p \in Payment :
       /\ Minted(task[h].order, p)
       /\ \E seen \in {"pending", provider'[p]} :
            task' = [task EXCEPT ![h].step = "record", ![h].payment = p,
                                 ![h].seen = seen]
  /\ UNCHANGED <<orderVars, shelfVars, aged, job>>

\* The request fails, or the payment exists but the answer is lost.
CreateFails(h) ==
  /\ task[h].step = "create"
  /\ task' = [task EXCEPT ![h].step = "failed"]
  /\ \/ UNCHANGED providerVars
     \/ \E p \in Payment : Minted(task[h].order, p)
  /\ UNCHANGED <<orderVars, shelfVars, aged, job>>

FetchPayment(h) ==
  /\ task[h].step = "fetch"
  /\ LET p == payment_id[task[h].order] IN
     task' = [task EXCEPT ![h].step = "record", ![h].payment = p,
                          ![h].seen = provider[p]]
  /\ UNCHANGED <<orderVars, shelfVars, providerVars, aged, job>>

\* webhook: a notification, late or repeated, makes it fetch the payment.
Webhook(h, p) ==
  /\ task[h] = Idle /\ provider[p] \notin {"absent", "pending"}
  /\ task' = [task EXCEPT
                ![h] = [step |-> "record", from |-> "webhook",
                        order |-> paymentOf[p], payment |-> p,
                        seen |-> provider[p]]]
  /\ UNCHANGED <<orderVars, shelfVars, providerVars, aged, job>>

Record(h) ==
  /\ task[h].step = "record"
  /\ LET t == task[h] IN
     IF Refused(t.order, t.payment, t.seen)
     THEN /\ UNCHANGED <<orderVars, stock>>
          /\ IF t.from \in {"checkout", "subscribe", "pay"}
             THEN task' = [task EXCEPT ![h].step = "failed"]
             ELSE Finish(h)
     ELSE /\ Apply(t.order, t.payment, t.seen)
          /\ Finish(h)
  /\ UNCHANGED <<present, supply, providerVars, aged, job>>

\* create_order turns any exception of record into creation_failed; the
\* other handlers only the ApiError of Refused.
RecordFails(h) ==
  /\ task[h].step = "record" /\ task[h].from = "checkout"
  /\ task' = [task EXCEPT ![h].step = "failed"]
  /\ UNCHANGED <<orderVars, shelfVars, providerVars, aged, job>>

CreationFailed(h) ==
  /\ task[h].step = "failed"
  /\ ClearFailedCreation(task[h].order)
  /\ Finish(h)
  /\ UNCHANGED <<status, payment_id, reservation, extensions, shelfVars,
                 providerVars, aged, job>>

\* A crash, a cancelled request or an exception nothing catches.
HandlerStops(h) ==
  /\ task[h] # Idle
  /\ Finish(h)
  /\ UNCHANGED <<orderVars, shelfVars, providerVars, aged, job>>
-----------------------------------------------------------------------------
(* expire_reservations: a pass over a snapshot of the stale reservations. *)

\* Mutant: only reservations whose payment is known to be over.
ReconcilableUnpaid(o) == payment_status[o] \in {"null", "canceled"}

Reconcilable(o) ==
  \/ payment_status[o] \in {"null", "canceled", "pending", "waiting_for_capture"}
  \/ payment_status[o] = "review" /\ payment_id[o] = NoPayment

\* The WHERE clause of its query.
Stale(o) ==
  /\ o \in aged /\ status[o] = "new" /\ reservation[o] = "held"
  /\ \E q \in Product : Cart[o][q] > 0
  /\ Reconcilable(o)

JobScan ==
  /\ job.step = "idle"
  /\ \E o \in Order : Stale(o)
  /\ job' = [Resting EXCEPT
               !.step = "next",
               !.rows = {o \in Order : Stale(o)},
               !.snapshot =
                 [o \in Order |->
                    IF Stale(o)
                    THEN [payment_status |-> payment_status[o],
                          payment_id |-> payment_id[o]]
                    ELSE NoRow]]
  /\ UNCHANGED <<orderVars, shelfVars, providerVars, aged, task>>

RowDone(o) ==
  IF job.rows = {o} THEN Resting
  ELSE [Resting EXCEPT !.step = "next",
                       !.rows = job.rows \ {o},
                       !.snapshot = [job.snapshot EXCEPT ![o] = NoRow]]

Work(o, step, p, seen) ==
  [job EXCEPT !.step = step, !.order = o, !.payment = p, !.seen = seen]

\* An ApiError of a row: a row without a known payment is flagged for review.
RowFailed(o) ==
  IF job.snapshot[o].payment_id = NoPayment
  THEN Work(o, "flag", NoPayment, "absent") ELSE RowDone(o)

Unsettled(o) ==
  job.snapshot[o].payment_status \in {"pending", "waiting_for_capture", "review"}

\* What find_order_payment lists: every payment that names the order.
PaymentsOf(o) == {p \in Payment : paymentOf[p] = o}

\* fetch, or find_order_payment that finds exactly one payment.
JobFinds(o) ==
  /\ job.step = "next" /\ o \in job.rows /\ Unsettled(o)
  /\ \E p \in Payment :
       /\ \/ p = job.snapshot[o].payment_id
          \/ job.snapshot[o].payment_id = NoPayment /\ PaymentsOf(o) = {p}
       /\ job' = Work(o, "record", p, provider[p])
  /\ UNCHANGED <<orderVars, shelfVars, providerVars, aged, task>>

\* The provider does not answer, or find_order_payment finds no payment or
\* more than one.
JobFindsNothing(o) ==
  /\ job.step = "next" /\ o \in job.rows /\ Unsettled(o)
  /\ job' = RowFailed(o)
  /\ UNCHANGED <<orderVars, shelfVars, providerVars, aged, task>>

JobRecord ==
  /\ job.step = "record"
  /\ IF Refused(job.order, job.payment, job.seen)
     THEN job' = RowFailed(job.order) /\ UNCHANGED <<orderVars, stock>>
     ELSE job' = RowDone(job.order) /\ Apply(job.order, job.payment, job.seen)
  /\ UNCHANGED <<present, supply, providerVars, aged, task>>

JobFlag ==
  /\ job.step = "flag"
  /\ FlagMissingPayment(job.order)
  /\ job' = RowDone(job.order)
  /\ UNCHANGED <<status, payment_id, reservation, extensions, shelfVars,
                 providerVars, aged, task>>

\* change_status(expired, expected new), which returns without a change when
\* the order is not new any more and raises when it may not be closed.
JobExpire(o) ==
  /\ job.step = "next" /\ o \in job.rows /\ ~Unsettled(o)
  /\ IF status[o] = "new" /\ MayChange(o, "expired")
     THEN ChangeStatus(o, "expired") /\ job' = RowDone(o)
     ELSE /\ UNCHANGED <<orderVars, stock>>
          /\ job' = IF status[o] = "new" THEN RowFailed(o) ELSE RowDone(o)
  /\ UNCHANGED <<present, supply, providerVars, aged, task>>

\* The process stops, or an exception that is no ApiError ends the pass.
JobStops ==
  /\ job.step # "idle"
  /\ job' = Resting
  /\ UNCHANGED <<orderVars, shelfVars, providerVars, aged, task>>
-----------------------------------------------------------------------------
(* The provider and the clock (external). *)

ProviderMoves ==
  {<<"pending", "waiting_for_capture">>, <<"pending", "succeeded">>,
   <<"pending", "mismatch">>, <<"pending", "canceled">>,
   <<"waiting_for_capture", "succeeded">>,
   <<"waiting_for_capture", "canceled">>}

ProviderStep(p) ==
  /\ \E move \in ProviderMoves :
       provider[p] = move[1] /\ provider' = [provider EXCEPT ![p] = move[2]]
  /\ UNCHANGED <<orderVars, shelfVars, paymentOf, remembered, aged, task, job>>

KeyLapse(o) ==
  /\ KeyLapses /\ remembered[o] # NoPayment
  /\ remembered' = [remembered EXCEPT ![o] = NoPayment]
  /\ UNCHANGED <<orderVars, shelfVars, provider, paymentOf, aged, task, job>>

\* RESERVE_TTL_HOURS pass; the request that placed the order is over by then.
Age(o) ==
  /\ Placed(o) /\ o \notin aged
  /\ \A h \in Handler : ~(task[h].order = o /\ task[h].from \in {"checkout", "subscribe"})
  /\ aged' = aged \cup {o}
  /\ UNCHANGED <<orderVars, shelfVars, providerVars, task, job>>
-----------------------------------------------------------------------------
HandlerNext(h) ==
  \/ \E o \in Order : PlaceOrder(h, o) \/ Subscribe(h, o) \/ Pay(h, o)
  \/ \E p \in Payment : Webhook(h, p)
  \/ CreatePayment(h) \/ CreateFails(h) \/ FetchPayment(h)
  \/ Record(h) \/ RecordFails(h) \/ CreationFailed(h) \/ HandlerStops(h)

JobNext ==
  \/ JobScan \/ JobRecord \/ JobFlag \/ JobStops
  \/ \E o \in Order : JobFinds(o) \/ JobFindsNothing(o) \/ JobExpire(o)

OfficeNext ==
  \/ \E o \in Order, new \in OfficeStatus : OfficeChange(o, new)
  \/ \E q \in Product : DeleteProduct(q) \/ \E n \in 0..MaxStock : SetStock(q, n)

WorldNext ==
  \/ \E p \in Payment : ProviderStep(p)
  \/ \E o \in Order : KeyLapse(o) \/ Age(o)

Next == (\E h \in Handler : HandlerNext(h)) \/ JobNext \/ OfficeNext \/ WorldNext

Spec == Init /\ [][Next]_vars

\* The job runs every few minutes and is run again after a restart, so each
\* of its steps is taken if it is possible again and again, the lookup of an
\* existing payment too, as the provider is not down for ever; a request ends,
\* with an answer or without; the provider settles a payment in the end and
\* repeats a notification until the webhook has recorded it.
JobFairness ==
  /\ WF_vars(JobScan)
  /\ SF_vars(JobRecord) /\ SF_vars(JobFlag)
  /\ \A o \in Order :
       /\ SF_vars(JobFinds(o)) /\ SF_vars(JobExpire(o))
       /\ SF_vars(JobFinds(o) \/ JobFindsNothing(o))

HandlerFairness ==
  \A h \in Handler :
    WF_vars(CreatePayment(h) \/ CreateFails(h) \/ FetchPayment(h)
            \/ Record(h) \/ RecordFails(h) \/ CreationFailed(h) \/ HandlerStops(h))

ProviderFairness ==
  \A p \in Payment :
    /\ WF_vars(ProviderStep(p))
    /\ SF_vars(\E h \in Handler : Webhook(h, p))
    /\ SF_vars(\E h \in Handler :
                 task[h].from = "webhook" /\ task[h].payment = p /\ Record(h))

FairSpec == Spec /\ JobFairness /\ HandlerFairness /\ ProviderFairness
-----------------------------------------------------------------------------
(* Safety. *)

\* No unit is lost or returned twice: what is on sale and what unreleased
\* reservations hold is what the office last put on sale plus what was held
\* then (commit, release, and the guard of the product editor).
StockConserved ==
  \A q \in Product : stock[q] + Cardinality(HeldUnits(q)) = supply[q]

\* A cart order is closed exactly when its units are back on sale, whichever
\* of the office, the expiry job and a canceled payment closed it.
ClosedIffReleased ==
  \A o \in Order : reservation[o] # "none" =>
    (status[o] \in Closed <=> reservation[o] = "released")

\* A paid order is never closed and keeps its units: no order of webhook,
\* pay, office and expiry job loses a recorded success (payment_outcome
\* against change_status).
PaidStaysFulfillable ==
  \A o \in Order : payment_status[o] = "succeeded" =>
    status[o] \notin Closed /\ reservation[o] # "released"

\* The order never knows better than the provider: a payment recorded as
\* succeeded or canceled is one the provider reported so, for this order,
\* in full.
PaymentEvidence ==
  \A o \in Order : payment_status[o] \in {"succeeded", "canceled"} =>
    /\ payment_id[o] # NoPayment
    /\ provider[payment_id[o]] = payment_status[o]
    /\ paymentOf[payment_id[o]] = o

\* Nobody can still pay the payment that a closed order names: pending and
\* waiting payments block change_status, and creation_failed never forgets
\* the payment of an order that has its id.
ClosedOrderNotPayable ==
  \A o \in Order : status[o] \in Closed /\ payment_id[o] # NoPayment =>
    provider[payment_id[o]] \notin {"pending", "waiting_for_capture"}

\* A paid podcast order has extended the subscription once, however often
\* webhook and pay record the payment; nothing else extends it.
SubscriptionExtendedOnce ==
  \A o \in Order :
    extensions[o] =
      IF payment_status[o] = "succeeded" /\ IsPodcast(o) THEN 1 ELSE 0

\* The products of an open reservation exist, so release never raises on the
\* path of a canceled payment, of the job or of the office.
ReservedProductsExist ==
  \A o \in Order : status[o] \notin Terminal => CanRelease(o)

\* What is over stays over: an order keeps the payment it is bound to, a
\* recorded success and a returned reservation are final, and a closed or
\* done order is not opened again.
NothingReopens ==
  [][\A o \in Order :
       /\ payment_id[o] # NoPayment => payment_id'[o] = payment_id[o]
       /\ payment_status[o] = "succeeded" => payment_status'[o] = "succeeded"
       /\ reservation[o] = "released" => reservation'[o] = "released"
       /\ status[o] \in Terminal => status'[o] = status[o]]_vars

\* docs/development/security.md: RESERVE_TTL_HOURS does not cancel a payment
\* that can be paid.  Here: the job never closes an order while a handler
\* holds the pending payment whose link it is about to return.
Offered(h, o) ==
  /\ task[h].step = "record" /\ task[h].from \in {"checkout", "pay"}
  /\ task[h].order = o /\ provider[task[h].payment] = "pending"

ExpirySparesOfferedPayment ==
  [][\A o \in Order, h \in Handler :
       Offered(h, o) /\ status[o] = "new" => status'[o] # "expired"]_vars
-----------------------------------------------------------------------------
(* Liveness, under FairSpec. *)

Overdue(o) ==
  /\ o \in aged /\ status[o] = "new" /\ reservation[o] = "held"
  /\ \E q \in Product : Cart[o][q] > 0

\* Once its owner stops asking for payment links, an overdue reservation is
\* settled: the order leaves "new", is paid or waits for the office in review.
OverdueIsSettled ==
  \A o \in Order :
    <>[][\A h \in Handler : ~Pay(h, o)]_vars =>
      (Overdue(o) ~>
         status[o] # "new" \/ payment_status[o] \in {"succeeded", "review"})

\* A payment that succeeded at the provider is recorded as a success or for
\* review, whatever crashes, closes or repeats in between.
SuccessIsRecorded ==
  \A o \in Order, p \in Payment :
    (provider[p] = "succeeded" /\ paymentOf[p] = o) ~>
      payment_status[o] \in {"succeeded", "review"}
=============================================================================
