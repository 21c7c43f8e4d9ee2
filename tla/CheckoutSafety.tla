--------------------------- MODULE CheckoutSafety ---------------------------
(***************************************************************************)
(* The safety properties of Checkout, proved from Inv.  Orders and stock   *)
(* are written by six kinds of transaction only (OrderSteps), whoever runs *)
(* them; each property is then a matter of those six, and so is that       *)
(* Checkout implements StockLedger.                                        *)
(***************************************************************************)
EXTENDS CheckoutProofs, CheckoutRefinement, FunctionTheorems

\* commit or subscribe inserts order o.
Inserted(o) ==
  /\ ~Placed(o)
  /\ status' = [status EXCEPT ![o] = "new"]
  /\ \E v \in {"null", "pending"} :
       payment_status' = [payment_status EXCEPT ![o] = v]
  /\ \/ /\ Available(o)
        /\ reservation' = [reservation EXCEPT ![o] = "held"]
        /\ stock' = [q \in Product |-> stock[q] - Cart[o][q]]
     \/ UNCHANGED <<reservation, stock>>
  /\ UNCHANGED <<payment_id, extensions, supply>>

\* prepare marks an order without a payment as pending.
Prepared(o) ==
  /\ status[o] \notin Closed /\ payment_id[o] = NoPayment
  /\ payment_status[o] \notin {"succeeded", "review"}
  /\ payment_status' = [payment_status EXCEPT ![o] = "pending"]
  /\ UNCHANGED <<status, payment_id, reservation, extensions, stock, supply>>

\* apply records an answer of the provider.
Recorded(o) ==
  /\ \E p \in Payment, seen \in ProviderStatus :
       Answered(o, p, seen) /\ Apply(o, p, seen)
  /\ UNCHANGED supply

\* creation_failed or flag_missing_payment marks the order.
Marked(o) ==
  /\ ClearFailedCreation(o) \/ FlagMissingPayment(o)
  /\ UNCHANGED <<status, payment_id, reservation, extensions, stock, supply>>

\* change_status, for the office or for the job.
Changed(o) ==
  /\ \E new \in Status \ {"absent"} : MayChange(o, new) /\ ChangeStatus(o, new)
  /\ UNCHANGED supply

\* The product editor writes a stock.
Edited ==
  /\ \E q \in Product, n \in 0..MaxStock : SetStock(q, n)
  /\ UNCHANGED orderVars

OrderStep ==
  \/ \E o \in Order : Inserted(o) \/ Prepared(o) \/ Recorded(o) \/ Marked(o) \/ Changed(o)
  \/ Edited
  \/ UNCHANGED <<orderVars, stock, supply>>

\* Payments move forward only and belong to one order for ever.
ProviderKeeps ==
  \A p \in Payment : provider[p] # "absent" =>
    /\ provider'[p] # "absent" /\ paymentOf'[p] = paymentOf[p]
    /\ provider[p] \in {"succeeded", "mismatch", "canceled"} =>
         provider'[p] = provider[p]

LEMMA OrderSteps ==
  ASSUME Inv, [Next]_vars
  PROVE  OrderStep
<1>1. ASSUME NEW h \in Handler, HandlerNext(h)
      PROVE  OrderStep
  <2>1. ASSUME NEW o \in Order, PlaceOrder(h, o)
        PROVE  OrderStep
    BY <2>1 DEF PlaceOrder, Commit, OrderStep, Inserted
  <2>2. ASSUME NEW o \in Order, Subscribe(h, o)
        PROVE  OrderStep
    BY <2>2 DEF Subscribe, OrderStep, Inserted, shelfVars
  <2>3. ASSUME NEW o \in Order, Pay(h, o)
        PROVE  OrderStep
    BY <2>3 DEF Pay, OrderStep, Prepared, orderVars, shelfVars
  <2>4. CASE Record(h)
    <3> DEFINE o == task[h].order
               p == task[h].payment
               seen == task[h].seen
    <3>1. Answered(o, p, seen) /\ o \in Order /\ p \in Payment
          /\ seen \in ProviderStatus
      BY <2>4 DEF Inv, TypeOK, Task, Answers, Answered, Belongs, Record
    <3>2. Apply(o, p, seen) \/ UNCHANGED <<orderVars, stock>>
      BY <2>4 DEF Record
    <3>3. UNCHANGED supply
      BY <2>4 DEF Record
    <3> HIDE DEF o, p, seen
    <3> QED BY <3>1, <3>2, <3>3 DEF OrderStep, Recorded
  <2>5. CASE CreationFailed(h)
    BY <2>5 DEF CreationFailed, OrderStep, Marked, shelfVars, Inv, Answers
  <2>6. CASE CreatePayment(h) \/ CreateFails(h) \/ FetchPayment(h)
             \/ RecordFails(h) \/ HandlerStops(h)
    BY <2>6 DEF CreatePayment, CreateFails, FetchPayment, RecordFails,
                HandlerStops, OrderStep, shelfVars
  <2>7. ASSUME NEW p \in Payment, Webhook(h, p)
        PROVE  OrderStep
    BY <2>7 DEF Webhook, OrderStep, shelfVars
  <2> QED BY <1>1, <2>1, <2>2, <2>3, <2>4, <2>5, <2>6, <2>7 DEF HandlerNext
<1>2. CASE JobNext
  <2>1. CASE JobRecord
    <3> DEFINE o == job.order
               p == job.payment
               seen == job.seen
    <3>1. Answered(o, p, seen) /\ o \in Order /\ p \in Payment
          /\ seen \in ProviderStatus
      BY <2>1 DEF Inv, TypeOK, Job, Answers, Answered, Belongs, JobRecord
    <3>2. Apply(o, p, seen) \/ UNCHANGED <<orderVars, stock>>
      BY <2>1 DEF JobRecord
    <3>3. UNCHANGED supply
      BY <2>1 DEF JobRecord
    <3> HIDE DEF o, p, seen
    <3> QED BY <3>1, <3>2, <3>3 DEF OrderStep, Recorded
  <2>2. CASE JobFlag
    BY <2>2 DEF JobFlag, OrderStep, Marked, shelfVars, Inv, Answers
  <2>3. ASSUME NEW o \in Order, JobExpire(o)
        PROVE  OrderStep
    BY <2>3 DEF JobExpire, OrderStep, Changed, Status, Terminal, Closed
  <2>4. CASE JobScan \/ JobStops
    BY <2>4 DEF JobScan, JobStops, OrderStep, shelfVars
  <2>5. ASSUME NEW o \in Order, JobFinds(o) \/ JobFindsNothing(o)
        PROVE  OrderStep
    BY <2>5 DEF JobFinds, JobFindsNothing, OrderStep, shelfVars
  <2> QED BY <1>2, <2>1, <2>2, <2>3, <2>4, <2>5 DEF JobNext
<1>3. CASE OfficeNext
  <2>1. ASSUME NEW o \in Order, NEW new \in OfficeStatus, OfficeChange(o, new)
        PROVE  OrderStep
    <3>1. new \in Status \ {"absent"}
      BY CheckoutAssumption DEF Status, Terminal, Closed
    <3> QED BY <2>1, <3>1 DEF OfficeChange, OrderStep, Changed
  <2>2. ASSUME NEW q \in Product, NEW n \in 0..MaxStock, SetStock(q, n)
        PROVE  OrderStep
    <3>1. UNCHANGED orderVars
      BY <2>2 DEF SetStock
    <3> QED BY <2>2, <3>1 DEF OrderStep, Edited
  <2>3. ASSUME NEW q \in Product, DeleteProduct(q)
        PROVE  OrderStep
    BY <2>3 DEF DeleteProduct, OrderStep
  <2> QED BY <1>3, <2>1, <2>2, <2>3 DEF OfficeNext
<1>4. CASE WorldNext
  BY <1>4 DEF WorldNext, ProviderStep, KeyLapse, Age, OrderStep, shelfVars
<1>5. CASE UNCHANGED vars
  BY <1>5 DEF vars, OrderStep, shelfVars
<1> QED BY <1>1, <1>2, <1>3, <1>4, <1>5 DEF Next

LEMMA ProviderSteps ==
  ASSUME Inv, [Next]_vars
  PROVE  ProviderKeeps
<1>1. ASSUME NEW o \in Order, NEW p \in Payment, Minted(o, p)
      PROVE  ProviderKeeps
  <2>1. provider[p] # "absent" => paymentOf[p] = o
    BY <1>1, CheckoutAssumption DEF Inv, Minted, Bindings, Belongs
  <2> QED BY <1>1, <2>1 DEF Inv, TypeOK, Minted, ProviderKeeps
<1>2. CASE UNCHANGED providerVars
  BY <1>2 DEF providerVars, ProviderKeeps
<1>3. ASSUME NEW h \in Handler, HandlerNext(h)
      PROVE  ProviderKeeps
  <2>1. CASE CreatePayment(h) \/ CreateFails(h)
    <3>1. task[h].order \in Order
      BY <2>1 DEF Inv, Answers, CreatePayment, CreateFails
    <3>2. UNCHANGED providerVars \/ \E p \in Payment : Minted(task[h].order, p)
      BY <2>1 DEF CreatePayment, CreateFails
    <3> QED BY <1>1, <1>2, <3>1, <3>2
  <2>2. CASE ~(CreatePayment(h) \/ CreateFails(h))
    BY <1>2, <1>3, <2>2 DEF HandlerNext, PlaceOrder, Subscribe, Pay, Webhook,
       FetchPayment, Record, RecordFails, CreationFailed, HandlerStops
  <2> QED BY <2>1, <2>2
<1>4. CASE JobNext
  BY <1>2, <1>4 DEF JobNext, JobScan, JobRecord, JobFlag, JobStops, JobFinds,
     JobFindsNothing, JobExpire
<1>5. CASE OfficeNext
  BY <1>2, <1>5 DEF OfficeNext, OfficeChange, SetStock, DeleteProduct
<1>6. CASE WorldNext
  BY <1>6 DEF Inv, TypeOK, WorldNext, ProviderStep, ProviderMoves, KeyLapse, Age,
     ProviderKeeps, providerVars
<1>7. CASE UNCHANGED vars
  BY <1>2, <1>7 DEF vars
<1> QED BY <1>3, <1>4, <1>5, <1>6, <1>7 DEF Next
-----------------------------------------------------------------------------
(* Closed orders and paid orders. *)

\* Only apply and change_status close an order, and both release it.
LEMMA ClosedIffReleasedStep ==
  ASSUME Inv, ClosedIffReleased, OrderStep
  PROVE  ClosedIffReleased'
<1>1. ASSUME NEW o \in Order, Inserted(o)
      PROVE  ClosedIffReleased'
  BY <1>1 DEF Inv, TypeOK, Inserted, ClosedIffReleased, Closed, Placed
<1>2. ASSUME NEW o \in Order, Recorded(o)
      PROVE  ClosedIffReleased'
  <2>1. PICK p \in Payment, seen \in ProviderStatus : Apply(o, p, seen)
    BY <1>2 DEF Recorded
  <2>2. CASE PaymentOutcome(o, p, seen) = "succeeded"
    <3>1. status[o] \notin Closed
      BY <2>2 DEF PaymentOutcome, PaidInFull
    <3> QED BY <2>1, <2>2, <3>1 DEF Inv, TypeOK, Apply, ClosedIffReleased, Closed
  <2>3. CASE PaymentOutcome(o, p, seen) = "canceled"
    <3>1. status[o] \notin Closed
      BY <2>3 DEF PaymentOutcome, PaidInFull
    <3> QED BY <2>1, <2>3, <3>1
            DEF Inv, TypeOK, Apply, Release, ClosedIffReleased, Closed
  <2>4. CASE PaymentOutcome(o, p, seen) \notin {"succeeded", "canceled"}
    BY <2>1, <2>4 DEF Apply, ClosedIffReleased, orderVars
  <2> QED BY <2>2, <2>3, <2>4
<1>3. ASSUME NEW o \in Order, Changed(o)
      PROVE  ClosedIffReleased'
  BY <1>3 DEF Inv, TypeOK, Changed, MayChange, ChangeStatus, Release, Finished,
     ClosedIffReleased, Terminal, Closed
<1>4. CASE UNCHANGED <<status, reservation>>
  BY <1>4 DEF ClosedIffReleased
<1> QED BY <1>1, <1>2, <1>3, <1>4
        DEF OrderStep, Prepared, Marked, Edited, orderVars

\* A success is recorded only for an order that is open, and change_status
\* and payment_outcome refuse to close an order with a success.
PaidIsOpen ==
  \A o \in Order : payment_status[o] = "succeeded" => status[o] \notin Closed

LEMMA PaidIsOpenStep ==
  ASSUME Inv, PaidIsOpen, OrderStep
  PROVE  PaidIsOpen'
<1>1. ASSUME NEW o \in Order, Inserted(o)
      PROVE  PaidIsOpen'
  BY <1>1 DEF Inv, TypeOK, Inserted, PaidIsOpen, Closed
<1>2. ASSUME NEW o \in Order, Recorded(o)
      PROVE  PaidIsOpen'
  <2>1. PICK p \in Payment, seen \in ProviderStatus : Apply(o, p, seen)
    BY <1>2 DEF Recorded
  <2>2. CASE PaymentOutcome(o, p, seen) = "succeeded"
    <3>1. status[o] \notin Closed
      BY <2>2 DEF PaymentOutcome, PaidInFull
    <3> QED BY <2>1, <2>2, <3>1 DEF Inv, TypeOK, Apply, Bind, PaidIsOpen, Closed
  <2>3. CASE PaymentOutcome(o, p, seen) = "canceled"
    BY <2>1, <2>3 DEF Inv, TypeOK, Apply, Bind, PaidIsOpen
  <2>4. CASE PaymentOutcome(o, p, seen) \in {"review", "pending"}
    <3>1. PaymentOutcome(o, p, seen) = "pending" => seen # "succeeded"
      BY DEF PaymentOutcome, PaidInFull
    <3> QED BY <2>1, <2>4, <3>1 DEF Inv, TypeOK, Apply, Bind, PaidIsOpen
  <2>5. CASE PaymentOutcome(o, p, seen) \in {"ignored", "duplicate"}
    BY <2>1, <2>5 DEF Apply, PaidIsOpen, orderVars
  <2> QED BY <2>1, <2>2, <2>3, <2>4, <2>5 DEF Apply
<1>3. ASSUME NEW o \in Order, Changed(o)
      PROVE  PaidIsOpen'
  BY <1>3 DEF Inv, TypeOK, Changed, MayChange, ChangeStatus, PaymentOpen,
     PaidIsOpen, Closed
<1>4. ASSUME NEW o \in Order, Prepared(o) \/ Marked(o)
      PROVE  PaidIsOpen'
  BY <1>4 DEF Inv, TypeOK, Prepared, Marked, ClearFailedCreation,
     FlagMissingPayment, PaidIsOpen
<1>5. CASE UNCHANGED orderVars
  BY <1>5 DEF PaidIsOpen, orderVars
<1> QED BY <1>1, <1>2, <1>3, <1>4, <1>5 DEF OrderStep, Edited

LEMMA OrderInvariants ==
  Spec => [](ClosedIffReleased /\ PaidIsOpen)
<1>1. Init => ClosedIffReleased /\ PaidIsOpen
  BY DEF Init, ClosedIffReleased, PaidIsOpen
<1>2. Inv /\ ClosedIffReleased /\ PaidIsOpen /\ [Next]_vars =>
        (ClosedIffReleased /\ PaidIsOpen)'
  BY OrderSteps, ClosedIffReleasedStep, PaidIsOpenStep
<1> QED BY <1>1, <1>2, CheckoutInvariant, PTL DEF Spec

\* No interleaving of office, job, webhook and handlers closes an order and
\* keeps its units, or returns the units of an order that goes on.
THEOREM ClosedOrdersAreReleased == Spec => []ClosedIffReleased
BY OrderInvariants, PTL

\* A recorded success is never lost to a cancellation or to the expiry job.
THEOREM PaidOrdersStayFulfillable == Spec => []PaidStaysFulfillable
<1>1. Inv /\ ClosedIffReleased /\ PaidIsOpen => PaidStaysFulfillable
  BY DEF ClosedIffReleased, PaidIsOpen, PaidStaysFulfillable
<1> QED BY <1>1, OrderInvariants, CheckoutInvariant, PTL
-----------------------------------------------------------------------------
(* The payment of an order. *)

\* A bound order has a payment status; creation_failed never takes it away.
BoundHasStatus ==
  \A o \in Order : payment_id[o] # NoPayment => payment_status[o] # "null"

PaymentFacts == PaymentEvidence /\ BoundHasStatus /\ ClosedOrderNotPayable

LEMMA PaymentFactsStep ==
  ASSUME Inv, PaymentFacts, OrderStep, ProviderKeeps
  PROVE  PaymentFacts'
<1> USE DEF PaymentFacts, PaymentEvidence, BoundHasStatus, ClosedOrderNotPayable
<1>1. \A x \in Order : payment_id[x] # NoPayment =>
        /\ provider[payment_id[x]] # "absent" /\ payment_id[x] \in Payment
        /\ paymentOf[payment_id[x]] = x /\ Placed(x)
  BY DEF Inv, Bindings, Belongs
<1>2. ASSUME NEW o \in Order, Inserted(o)
      PROVE  PaymentFacts'
  <2>1. payment_id[o] = NoPayment
    BY <1>2 DEF Inv, Unplaced, Inserted
  <2> QED BY <1>1, <1>2, <2>1
          DEF Inv, TypeOK, Inserted, ProviderKeeps, Closed, Placed, ProviderStatus
<1>3. ASSUME NEW o \in Order, Prepared(o) \/ Marked(o)
      PROVE  PaymentFacts'
  BY <1>1, <1>3 DEF Inv, TypeOK, Prepared, Marked, ClearFailedCreation,
     FlagMissingPayment, ProviderKeeps, ProviderStatus
<1>4. ASSUME NEW o \in Order, Recorded(o)
      PROVE  PaymentFacts'
  <2>1. PICK p \in Payment, seen \in ProviderStatus :
          Answered(o, p, seen) /\ Apply(o, p, seen)
    BY <1>4 DEF Recorded
  <2>2. /\ p # NoPayment /\ provider'[p] # "absent" /\ paymentOf'[p] = o
        /\ seen \in {"succeeded", "mismatch", "canceled"} => provider'[p] = seen
    BY <2>1, CheckoutAssumption DEF Answered, Belongs, ProviderKeeps
  <2>3. CASE PaymentOutcome(o, p, seen) = "succeeded"
    <3>1. seen = "succeeded"
      BY <2>3 DEF PaymentOutcome, PaidInFull
    <3> QED BY <1>1, <2>1, <2>2, <2>3, <3>1
            DEF Inv, TypeOK, Apply, Bind, ProviderKeeps, Closed, ProviderStatus
  <2>4. CASE PaymentOutcome(o, p, seen) = "canceled"
    <3>1. seen = "canceled"
      BY <2>4 DEF PaymentOutcome, PaidInFull
    <3> QED BY <1>1, <2>1, <2>2, <2>4, <3>1
            DEF Inv, TypeOK, Apply, Bind, ProviderKeeps, ProviderStatus
  <2>5. CASE PaymentOutcome(o, p, seen) = "review"
    <3>1. seen \in {"succeeded", "mismatch"} \/ status[o] \notin Closed
      BY <2>5 DEF PaymentOutcome
    <3> QED BY <1>1, <2>1, <2>2, <2>5, <3>1
            DEF Inv, TypeOK, Apply, Bind, ProviderKeeps, ProviderStatus
  <2>6. CASE PaymentOutcome(o, p, seen) = "pending"
    <3>1. status[o] \notin Closed /\ seen \notin {"succeeded", "canceled"}
      BY <2>6 DEF PaymentOutcome, PaidInFull
    <3>2. seen \in {"pending", "waiting_for_capture"}
      BY <2>1, <2>6 DEF PaymentOutcome, Answered, ProviderStatus
    <3> QED BY <1>1, <2>1, <2>2, <2>6, <3>1, <3>2
            DEF Inv, TypeOK, Apply, Bind, ProviderKeeps, ProviderStatus
  <2>7. CASE PaymentOutcome(o, p, seen) \in {"ignored", "duplicate"}
    BY <1>1, <2>1, <2>7
       DEF Inv, TypeOK, Apply, ProviderKeeps, orderVars, ProviderStatus
  <2> QED BY <2>1, <2>3, <2>4, <2>5, <2>6, <2>7 DEF Apply
<1>5. ASSUME NEW o \in Order, Changed(o)
      PROVE  PaymentFacts'
  <2>1. PICK new \in Status \ {"absent"} : MayChange(o, new) /\ ChangeStatus(o, new)
    BY <1>5 DEF Changed
  <2>2. new \in Closed /\ payment_id[o] # NoPayment => payment_status[o] = "canceled"
    BY <2>1 DEF Inv, TypeOK, MayChange, PaymentOpen, PaymentStatus
  <2> QED BY <1>1, <2>1, <2>2
          DEF Inv, TypeOK, ChangeStatus, ProviderKeeps, ProviderStatus
<1>6. CASE UNCHANGED orderVars
  BY <1>1, <1>6 DEF Inv, TypeOK, ProviderKeeps, orderVars, ProviderStatus
<1> QED BY <1>2, <1>3, <1>4, <1>5, <1>6 DEF OrderStep, Edited

LEMMA PaymentInvariant == Spec => []PaymentFacts
<1>1. Init => PaymentFacts
  BY DEF Init, PaymentFacts, PaymentEvidence, BoundHasStatus, ClosedOrderNotPayable
<1>2. Inv /\ PaymentFacts /\ [Next]_vars => PaymentFacts'
  BY OrderSteps, ProviderSteps, PaymentFactsStep
<1> QED BY <1>1, <1>2, CheckoutInvariant, PTL DEF Spec

\* An order is recorded as paid or canceled only on the provider's word about
\* a payment of that very order.
THEOREM PaymentsAreEvidenced == Spec => []PaymentEvidence
<1>1. PaymentFacts => PaymentEvidence
  BY DEF PaymentFacts
<1> QED BY <1>1, PaymentInvariant, PTL

\* A closed order never names a payment that can still be paid.
THEOREM ClosedOrdersAreNotPayable == Spec => []ClosedOrderNotPayable
<1>1. PaymentFacts => ClosedOrderNotPayable
  BY DEF PaymentFacts
<1> QED BY <1>1, PaymentInvariant, PTL
-----------------------------------------------------------------------------
(* The podcast subscription. *)

LEMMA SubscriptionStep ==
  ASSUME Inv, SubscriptionExtendedOnce, PaidIsOpen, OrderStep
  PROVE  SubscriptionExtendedOnce'
<1> USE DEF SubscriptionExtendedOnce, IsPodcast, Placed
<1>1. ASSUME NEW o \in Order, Inserted(o)
      PROVE  SubscriptionExtendedOnce'
  <2>1. extensions[o] = 0
    BY <1>1 DEF Inv, Unplaced, Inserted
  <2> QED BY <1>1, <2>1 DEF Inv, TypeOK, Inserted
<1>2. ASSUME NEW o \in Order, Prepared(o) \/ Marked(o)
      PROVE  SubscriptionExtendedOnce'
  BY <1>2 DEF Inv, TypeOK, Prepared, Marked, ClearFailedCreation,
     FlagMissingPayment
<1>3. ASSUME NEW o \in Order, Recorded(o)
      PROVE  SubscriptionExtendedOnce'
  <2>1. PICK p \in Payment, seen \in ProviderStatus :
          Answered(o, p, seen) /\ Apply(o, p, seen)
    BY <1>3 DEF Recorded
  <2>2. PaymentOutcome(o, p, seen) \notin {"ignored", "duplicate"} =>
          payment_status[o] # "succeeded"
    BY DEF PaymentOutcome, AlreadyPaid
  <2>3. PaymentOutcome(o, p, seen) = "pending" => seen # "succeeded"
    BY DEF PaymentOutcome, PaidInFull
  <2>4. status[o] # "absent"
    BY <2>1 DEF Answered, Belongs
  <2>5. CASE PaymentOutcome(o, p, seen) = "succeeded"
    BY <2>1, <2>2, <2>4, <2>5 DEF Inv, TypeOK, Apply, Bind
  <2>6. CASE PaymentOutcome(o, p, seen) = "canceled"
    <3>1. \A x \in Order : reservation'[x] = "none" <=> reservation[x] = "none"
      BY <2>1, <2>6 DEF Inv, TypeOK, Apply, Release
    <3>2. \A x \in Order : status'[x] = "absent" <=> status[x] = "absent"
      BY <2>1, <2>4, <2>6 DEF Inv, TypeOK, Apply
    <3> QED BY <2>1, <2>2, <2>6, <3>1, <3>2 DEF Inv, TypeOK, Apply, Bind
  <2>7. CASE PaymentOutcome(o, p, seen) \in {"review", "pending"}
    BY <2>1, <2>2, <2>3, <2>7 DEF Inv, TypeOK, Apply, Bind
  <2>8. CASE PaymentOutcome(o, p, seen) \in {"ignored", "duplicate"}
    BY <2>1, <2>8 DEF Apply, orderVars
  <2> QED BY <2>1, <2>5, <2>6, <2>7, <2>8 DEF Apply
<1>4. ASSUME NEW o \in Order, Changed(o)
      PROVE  SubscriptionExtendedOnce'
  <2>1. /\ \A x \in Order : reservation'[x] = "none" <=> reservation[x] = "none"
        /\ \A x \in Order : status'[x] = "absent" <=> status[x] = "absent"
        /\ UNCHANGED <<payment_status, extensions>>
    BY <1>4 DEF Inv, TypeOK, Changed, MayChange, ChangeStatus, Release
  <2> QED BY <2>1
<1>5. CASE UNCHANGED orderVars
  BY <1>5 DEF orderVars
<1> QED BY <1>1, <1>2, <1>3, <1>4, <1>5 DEF OrderStep, Edited

\* However often webhook and pay repeat, one payment buys one subscription year.
THEOREM SubscriptionsAreExtendedOnce == Spec => []SubscriptionExtendedOnce
<1>1. Init => SubscriptionExtendedOnce
  BY DEF Init, SubscriptionExtendedOnce
<1>2. Inv /\ PaidIsOpen /\ SubscriptionExtendedOnce /\ [Next]_vars =>
        SubscriptionExtendedOnce'
  BY OrderSteps, SubscriptionStep
<1> QED BY <1>1, <1>2, CheckoutInvariant, OrderInvariants, PTL DEF Spec
-----------------------------------------------------------------------------
(* Steps that no transaction may take. *)

KeepsWhatIsOver(o) ==
  /\ payment_id[o] # NoPayment => payment_id'[o] = payment_id[o]
  /\ payment_status[o] = "succeeded" => payment_status'[o] = "succeeded"
  /\ reservation[o] = "released" => reservation'[o] = "released"
  /\ status[o] \in Terminal => status'[o] = status[o]

LEMMA OverIsKept ==
  ASSUME Inv, OrderStep, NEW x \in Order
  PROVE  KeepsWhatIsOver(x)
<1> USE DEF KeepsWhatIsOver
<1>1. ASSUME NEW o \in Order, Inserted(o)
      PROVE  KeepsWhatIsOver(x)
  <2>1. payment_status[o] = "null" /\ reservation[o] = "none" /\ status[o] = "absent"
    BY <1>1 DEF Inv, Unplaced, Inserted, Placed
  <2> QED BY <1>1, <2>1 DEF Inv, TypeOK, Inserted, Terminal, Closed
<1>2. ASSUME NEW o \in Order, Prepared(o) \/ Marked(o)
      PROVE  KeepsWhatIsOver(x)
  BY <1>2 DEF Inv, TypeOK, Prepared, Marked, ClearFailedCreation,
     FlagMissingPayment
<1>3. ASSUME NEW o \in Order, Recorded(o)
      PROVE  KeepsWhatIsOver(x)
  <2>1. PICK p \in Payment, seen \in ProviderStatus :
          Answered(o, p, seen) /\ Apply(o, p, seen)
    BY <1>3 DEF Recorded
  <2>2. PaymentOutcome(o, p, seen) \notin {"ignored", "duplicate"} =>
          payment_status[o] # "succeeded" /\ payment_id[o] \in {NoPayment, p}
    BY DEF PaymentOutcome, AlreadyPaid, OtherPayment
  <2>3. CASE PaymentOutcome(o, p, seen) = "succeeded"
    BY <2>1, <2>2, <2>3 DEF Inv, TypeOK, Apply, Bind, Terminal, Closed
  <2>4. CASE PaymentOutcome(o, p, seen) = "canceled"
    <3>1. status[o] \notin Terminal
      BY <2>4 DEF PaymentOutcome, PaidInFull, Terminal
    <3>2. reservation[x] = "released" => reservation'[x] = "released"
      BY <2>1, <2>4 DEF Inv, TypeOK, Apply, Release
    <3> QED BY <2>1, <2>2, <2>4, <3>1, <3>2 DEF Inv, TypeOK, Apply, Bind
  <2>5. CASE PaymentOutcome(o, p, seen) \in {"review", "pending"}
    BY <2>1, <2>2, <2>5 DEF Inv, TypeOK, Apply, Bind
  <2>6. CASE PaymentOutcome(o, p, seen) \in {"ignored", "duplicate"}
    BY <2>1, <2>6 DEF Apply, orderVars
  <2> QED BY <2>1, <2>3, <2>4, <2>5, <2>6 DEF Apply
<1>4. ASSUME NEW o \in Order, Changed(o)
      PROVE  KeepsWhatIsOver(x)
  <2>1. PICK new \in Status \ {"absent"} : MayChange(o, new) /\ ChangeStatus(o, new)
    BY <1>4 DEF Changed
  <2>2. reservation[x] = "released" => reservation'[x] = "released"
    BY <2>1 DEF Inv, TypeOK, ChangeStatus, Release
  <2> QED BY <2>1, <2>2 DEF Inv, TypeOK, MayChange, Finished, ChangeStatus
<1>5. CASE UNCHANGED orderVars
  BY <1>5 DEF orderVars
<1> QED BY <1>1, <1>2, <1>3, <1>4, <1>5 DEF OrderStep, Edited

\* No step rebinds an order to another payment, takes back a success or a
\* return, or opens a finished order again.
THEOREM NothingIsReopened == Spec => NothingReopens
<1>1. Inv /\ [Next]_vars => \A o \in Order : KeepsWhatIsOver(o)
  BY OrderSteps, OverIsKept
<1>2. (\A o \in Order : KeepsWhatIsOver(o)) =>
        [\A o \in Order :
           /\ payment_id[o] # NoPayment => payment_id'[o] = payment_id[o]
           /\ payment_status[o] = "succeeded" => payment_status'[o] = "succeeded"
           /\ reservation[o] = "released" => reservation'[o] = "released"
           /\ status[o] \in Terminal => status'[o] = status[o]]_vars
  BY DEF KeepsWhatIsOver
<1> QED BY <1>1, <1>2, CheckoutInvariant, PTL DEF Spec, NothingReopens
-----------------------------------------------------------------------------
(* The warehouse. *)

\* The pairs of HeldUnits that are order o's own.
OwnUnits(o, q) == {u \in Order \X (1..MaxStock) : u[1] = o /\ u[2] <= Cart[o][q]}

LEMMA OwnUnitsCounted ==
  ASSUME NEW o \in Order, NEW q \in Product
  PROVE  IsFiniteSet(OwnUnits(o, q)) /\ Cardinality(OwnUnits(o, q)) = Cart[o][q]
<1> DEFINE n == Cart[o][q]
           f == [k \in 1..n |-> <<o, k>>]
<1>1. n \in 0..MaxStock /\ MaxStock \in Nat /\ n \in Nat
  BY CheckoutAssumption
<1> HIDE DEF n
<1>2. IsFiniteSet(1..n) /\ Cardinality(1..n) = n
  BY <1>1, FS_Interval
<1>3. OwnUnits(o, q) = {<<o, k>> : k \in 1..n}
  BY <1>1 DEF OwnUnits, n
<1>4. f \in Bijection(1..n, OwnUnits(o, q))
  <2>1. f \in [1..n -> OwnUnits(o, q)]
    BY <1>3
  <2>2. \A i, j \in 1..n : f[i] = f[j] => i = j
    OBVIOUS
  <2>3. \A u \in OwnUnits(o, q) : \E k \in 1..n : f[k] = u
    BY <1>3
  <2> QED BY <2>1, <2>2, <2>3, Fun_IsBij
<1>5. ExistsBijection(1..n, OwnUnits(o, q))
  BY <1>4 DEF ExistsBijection
<1>6. IsFiniteSet(OwnUnits(o, q)) /\ Cardinality(OwnUnits(o, q)) = n
  BY <1>2, <1>5, FS_Bijection
<1> QED BY <1>6 DEF n

\* A reservation that begins adds its own units.
LEMMA HeldUnitsTaken ==
  ASSUME TypeOK, NEW o \in Order, NEW q \in Product, reservation[o] # "held",
         reservation' = [reservation EXCEPT ![o] = "held"]
  PROVE  Cardinality(HeldUnits(q)') = Cardinality(HeldUnits(q)) + Cart[o][q]
<1>1. IsFiniteSet(HeldUnits(q)) /\ Cardinality(HeldUnits(q)) \in Nat
  BY HeldUnitsFinite
<1>2. IsFiniteSet(OwnUnits(o, q)) /\ Cardinality(OwnUnits(o, q)) = Cart[o][q]
  BY OwnUnitsCounted
<1>3. HeldUnits(q)' = HeldUnits(q) \cup OwnUnits(o, q)
  BY DEF HeldUnits, OwnUnits, TypeOK
<1>4. Cardinality(HeldUnits(q) \cap OwnUnits(o, q)) = 0
  <2>1. HeldUnits(q) \cap OwnUnits(o, q) = {}
    BY DEF HeldUnits, OwnUnits
  <2> QED BY <2>1, FS_EmptySet
<1>5. Cardinality(HeldUnits(q) \cup OwnUnits(o, q))
        = Cardinality(HeldUnits(q)) + Cardinality(OwnUnits(o, q))
            - Cardinality(HeldUnits(q) \cap OwnUnits(o, q))
  BY <1>1, <1>2, FS_Union
<1>6. Cart[o][q] \in Nat
  BY CheckoutAssumption
<1> QED BY <1>1, <1>2, <1>3, <1>4, <1>5, <1>6

\* A reservation that is released takes its own units off.
LEMMA HeldUnitsReturned ==
  ASSUME TypeOK, NEW o \in Order, NEW q \in Product, reservation[o] = "held",
         reservation' = [reservation EXCEPT ![o] = "released"]
  PROVE  Cardinality(HeldUnits(q)') = Cardinality(HeldUnits(q)) - Cart[o][q]
<1>1. IsFiniteSet(HeldUnits(q))
  BY HeldUnitsFinite
<1>2. Cardinality(OwnUnits(o, q)) = Cart[o][q]
  BY OwnUnitsCounted
<1>3. HeldUnits(q)' = HeldUnits(q) \ OwnUnits(o, q)
  BY DEF HeldUnits, OwnUnits, TypeOK
<1>4. HeldUnits(q) \cap OwnUnits(o, q) = OwnUnits(o, q)
  BY DEF HeldUnits, OwnUnits
<1>5. Cardinality(HeldUnits(q) \ OwnUnits(o, q))
        = Cardinality(HeldUnits(q)) - Cardinality(HeldUnits(q) \cap OwnUnits(o, q))
  BY <1>1, FS_Difference
<1> QED BY <1>2, <1>3, <1>4, <1>5

LEMMA ReleaseConserves ==
  ASSUME TypeOK, StockConserved, NEW o \in Order, Release(o), UNCHANGED supply
  PROVE  StockConserved'
<1>1. CASE reservation[o] = "held"
  <2>1. /\ stock' = [q \in Product |-> stock[q] + Cart[o][q]]
        /\ reservation' = [reservation EXCEPT ![o] = "released"]
    BY <1>1 DEF Release
  <2>2. \A q \in Product :
          Cardinality(HeldUnits(q)') = Cardinality(HeldUnits(q)) - Cart[o][q]
    BY <1>1, <2>1, HeldUnitsReturned
  <2>3. \A q \in Product : stock[q] \in Nat /\ Cart[o][q] \in Nat
                           /\ Cardinality(HeldUnits(q)) \in Nat
    BY CheckoutAssumption, HeldUnitsFinite DEF TypeOK
  <2> QED BY <2>1, <2>2, <2>3 DEF StockConserved
<1>2. CASE reservation[o] # "held"
  <2>1. UNCHANGED <<stock, reservation>>
    BY <1>2 DEF Release
  <2> QED BY <2>1 DEF StockConserved, HeldUnits
<1> QED BY <1>1, <1>2

LEMMA StockConservedStep ==
  ASSUME Inv, StockConserved, OrderStep
  PROVE  StockConserved'
<1>1. CASE UNCHANGED <<stock, reservation, supply>>
  BY <1>1 DEF StockConserved, HeldUnits
<1>2. ASSUME NEW o \in Order, Inserted(o)
      PROVE  StockConserved'
  <2>1. CASE /\ stock' = [q \in Product |-> stock[q] - Cart[o][q]]
             /\ reservation' = [reservation EXCEPT ![o] = "held"]
    <3>1. reservation[o] = "none" /\ UNCHANGED supply
      BY <1>2 DEF Inv, Unplaced, Inserted
    <3>2. \A q \in Product :
            Cardinality(HeldUnits(q)') = Cardinality(HeldUnits(q)) + Cart[o][q]
      BY <2>1, <3>1, HeldUnitsTaken DEF Inv
    <3>3. \A q \in Product : stock[q] \in Nat /\ Cart[o][q] \in Nat
                             /\ Cardinality(HeldUnits(q)) \in Nat
      BY CheckoutAssumption, HeldUnitsFinite DEF Inv, TypeOK
    <3> QED BY <2>1, <3>1, <3>2, <3>3 DEF StockConserved
  <2> QED BY <1>1, <1>2, <2>1 DEF Inserted
<1>3. ASSUME NEW o \in Order, Recorded(o)
      PROVE  StockConserved'
  <2>1. Release(o) \/ UNCHANGED <<stock, reservation>>
    BY <1>3 DEF Recorded, Apply, orderVars
  <2> QED BY <1>1, <1>3, <2>1, ReleaseConserves DEF Inv, Recorded
<1>4. ASSUME NEW o \in Order, Changed(o)
      PROVE  StockConserved'
  <2>1. Release(o) \/ UNCHANGED <<stock, reservation>>
    BY <1>4 DEF Changed, ChangeStatus
  <2> QED BY <1>1, <1>4, <2>1, ReleaseConserves DEF Inv, Changed
<1>5. CASE Edited
  <2>1. PICK q \in Product, n \in 0..MaxStock : SetStock(q, n)
    BY <1>5 DEF Edited
  <2>2. \A r \in Product : HeldUnits(r)' = HeldUnits(r)
    BY <1>5 DEF Edited, HeldUnits, orderVars
  <2> QED BY <2>1, <2>2 DEF Inv, TypeOK, SetStock, StockConserved
<1> QED BY <1>1, <1>2, <1>3, <1>4, <1>5
        DEF OrderStep, Prepared, Marked, orderVars

\* No unit of any product is ever lost, or returned twice.
THEOREM StockIsConserved == Spec => []StockConserved
<1>1. Init => StockConserved
  <2> SUFFICES ASSUME Init, NEW q \in Product
               PROVE  stock[q] + Cardinality(HeldUnits(q)) = supply[q]
    BY DEF StockConserved
  <2>1. HeldUnits(q) = {}
    BY DEF Init, HeldUnits
  <2>2. Cardinality(HeldUnits(q)) = 0
    BY <2>1, FS_EmptySet
  <2>3. stock[q] = InitialStock[q] /\ supply[q] = InitialStock[q]
        /\ InitialStock[q] \in Nat
    BY CheckoutAssumption DEF Init
  <2> QED BY <2>2, <2>3
<1>2. Inv /\ StockConserved /\ [Next]_vars => StockConserved'
  BY OrderSteps, StockConservedStep
<1> QED BY <1>1, <1>2, CheckoutInvariant, PTL DEF Spec
-----------------------------------------------------------------------------
(* The products of a reservation. *)

LEMMA ProductsStay ==
  ASSUME [Next]_vars
  PROVE  \/ UNCHANGED present
         \/ /\ \E q \in Product : present' = present \ {q} /\ ~OpenReservation(q)
            /\ UNCHANGED orderVars
<1>1. ASSUME NEW h \in Handler, HandlerNext(h)
      PROVE  UNCHANGED present
  BY <1>1 DEF HandlerNext, PlaceOrder, Subscribe, Pay, Webhook, CreatePayment,
     CreateFails, FetchPayment, Record, RecordFails, CreationFailed, HandlerStops,
     shelfVars
<1>2. CASE JobNext
  BY <1>2 DEF JobNext, JobScan, JobRecord, JobFlag, JobStops, JobFinds,
     JobFindsNothing, JobExpire, shelfVars
<1>3. CASE OfficeNext
  BY <1>3 DEF OfficeNext, OfficeChange, SetStock, DeleteProduct
<1>4. CASE WorldNext
  BY <1>4 DEF WorldNext, ProviderStep, KeyLapse, Age, shelfVars
<1> QED BY <1>1, <1>2, <1>3, <1>4 DEF Next, vars, shelfVars

\* Whoever cancels or expires an open order, release finds all its products.
THEOREM ReservedProductsStay == Spec => []ReservedProductsExist
<1> USE DEF ReservedProductsExist, CanRelease, Reserves
<1>1. Init => ReservedProductsExist
  BY DEF Init
<1>2. ASSUME Inv, ReservedProductsExist, [Next]_vars
      PROVE  ReservedProductsExist'
  <2>1. OrderStep
    BY <1>2, OrderSteps
  <2>2. \A x \in Order : status[x] \in Terminal => status'[x] \in Terminal
    BY <1>2, <2>1, OverIsKept DEF KeepsWhatIsOver
  <2>3. CASE UNCHANGED present
    <3>1. ASSUME NEW x \in Order, reservation'[x] = "held", reservation[x] # "held"
          PROVE  Available(x)
      <4>1. ASSUME NEW o \in Order, Inserted(o)
            PROVE  Available(x)
        BY <1>2, <3>1, <4>1 DEF Inserted, Inv, TypeOK
      <4>2. ASSUME NEW o \in Order, Recorded(o) \/ Changed(o)
            PROVE  Release(o) \/ UNCHANGED reservation
        BY <4>2 DEF Recorded, Changed, Apply, ChangeStatus, orderVars
      <4>3. ASSUME NEW o \in Order, Release(o)
            PROVE  FALSE
        BY <1>2, <3>1, <4>3 DEF Release, Inv, TypeOK
      <4> QED BY <2>1, <3>1, <4>1, <4>2, <4>3
              DEF OrderStep, Prepared, Marked, Edited, orderVars
    <3> QED BY <1>2, <2>2, <2>3, <3>1 DEF Available
  <2>4. CASE /\ \E q \in Product : present' = present \ {q} /\ ~OpenReservation(q)
             /\ UNCHANGED orderVars
    BY <1>2, <2>4 DEF OpenReservation, orderVars
  <2> QED BY <1>2, <2>3, <2>4, ProductsStay
<1> QED BY <1>1, <1>2, CheckoutInvariant, PTL DEF Spec

-----------------------------------------------------------------------------
(* Checkout implements StockLedger: every step that touches the warehouse   *)
(* is one step of the ledger, every other step leaves the ledger alone.     *)

ledgerVars == <<stock, [o \in Order |-> HoldOf(o)]>>

LedgerStep == Ledger!LedgerNext \/ UNCHANGED ledgerVars

\* What a step does to one order's hold is what it does to the ledger's.
LEMMA HoldAfter ==
  ASSUME NEW o \in Order, NEW v, HoldOf(o)' = v,
         \A x \in Order : x # o => HoldOf(x)' = HoldOf(x)
  PROVE  [x \in Order |-> HoldOf(x)]' = [[x \in Order |-> HoldOf(x)] EXCEPT ![o] = v]
OBVIOUS

LEMMA SameHolds ==
  ASSUME UNCHANGED stock, \A x \in Order : HoldOf(x)' = HoldOf(x)
  PROVE  LedgerStep
BY DEF LedgerStep, ledgerVars

\* Release is a return, or nothing when there is nothing to return.
LEMMA ReleaseReturns ==
  ASSUME Inv, NEW o \in Order, status[o] \notin Terminal, Release(o),
         status' = [status EXCEPT ![o] = "canceled"]
           \/ status' = [status EXCEPT ![o] = "expired"]
  PROVE  LedgerStep
<1>1. CASE reservation[o] = "held"
  <2>1. HoldOf(o) = "held" /\ HoldOf(o)' = "returned"
    BY <1>1 DEF Inv, TypeOK, HoldOf, Release, Terminal
  <2>2. \A x \in Order : x # o => HoldOf(x)' = HoldOf(x)
    BY <1>1 DEF Inv, TypeOK, HoldOf, Release
  <2>3. Ledger!Return(o)
    BY <1>1, <2>1, <2>2, HoldAfter DEF Ledger!Return, Release
  <2> QED BY <2>3 DEF LedgerStep, Ledger!LedgerNext
<1>2. CASE reservation[o] # "held"
  BY <1>2, SameHolds DEF Inv, TypeOK, HoldOf, Release
<1> QED BY <1>1, <1>2

LEMMA StepsRefine ==
  ASSUME Inv, ClosedIffReleased, OrderStep
  PROVE  LedgerStep
<1>1. ASSUME NEW o \in Order, Inserted(o)
      PROVE  LedgerStep
  <2>1. reservation[o] = "none" /\ HoldOf(o) = "none"
    BY <1>1 DEF Inv, Unplaced, Inserted, HoldOf
  <2>2. CASE UNCHANGED <<reservation, stock>>
    BY <1>1, <2>1, <2>2, SameHolds DEF Inv, TypeOK, Inserted, HoldOf
  <2>3. CASE /\ Available(o)
             /\ reservation' = [reservation EXCEPT ![o] = "held"]
             /\ stock' = [q \in Product |-> stock[q] - Cart[o][q]]
    <3>1. HoldOf(o)' = "held" /\ \A x \in Order : x # o => HoldOf(x)' = HoldOf(x)
      BY <1>1, <2>3 DEF Inv, TypeOK, Inserted, HoldOf
    <3>2. \A q \in Product : Cart[o][q] <= stock[q]
      <4> SUFFICES ASSUME NEW q \in Product
                   PROVE  Cart[o][q] <= stock[q]
        OBVIOUS
      <4>1. Cart[o][q] \in Nat /\ stock[q] \in Nat
        BY CheckoutAssumption DEF Inv, TypeOK
      <4>2. Cart[o][q] > 0 => Cart[o][q] <= stock[q]
        BY <2>3 DEF Available
      <4> QED BY <4>1, <4>2
    <3>3. Ledger!Take(o)
      BY <2>1, <2>3, <3>1, <3>2, HoldAfter DEF Ledger!Take
    <3> QED BY <3>3 DEF LedgerStep, Ledger!LedgerNext
  <2> QED BY <1>1, <2>2, <2>3 DEF Inserted
<1>2. ASSUME NEW o \in Order, Recorded(o)
      PROVE  LedgerStep
  <2>1. PICK p \in Payment, seen \in ProviderStatus : Apply(o, p, seen)
    BY <1>2 DEF Recorded
  <2>2. CASE PaymentOutcome(o, p, seen) = "canceled"
    <3>1. status[o] \notin Terminal
      BY <2>2 DEF PaymentOutcome, PaidInFull, Terminal
    <3> QED BY <2>1, <2>2, <3>1, ReleaseReturns DEF Apply
  <2>3. CASE PaymentOutcome(o, p, seen) # "canceled"
    <3>1. \A x \in Order : status'[x] = "done" <=> status[x] = "done"
      BY <2>1, <2>3 DEF Inv, TypeOK, Apply, orderVars
    <3>2. UNCHANGED <<reservation, stock>>
      BY <2>1, <2>3 DEF Apply, orderVars
    <3> QED BY <3>1, <3>2, SameHolds DEF HoldOf
  <2> QED BY <2>2, <2>3
<1>3. ASSUME NEW o \in Order, Changed(o)
      PROVE  LedgerStep
  <2>1. PICK new \in Status \ {"absent"} : MayChange(o, new) /\ ChangeStatus(o, new)
    BY <1>3 DEF Changed
  <2>2. CASE new \in Closed
    BY <2>1, <2>2, ReleaseReturns DEF MayChange, Finished, ChangeStatus, Closed
  <2>3. CASE new = "done" /\ reservation[o] = "held"
    <3>1. HoldOf(o) = "held" /\ HoldOf(o)' = "sold"
      BY <2>1, <2>3 DEF Inv, TypeOK, MayChange, ChangeStatus, HoldOf, Closed
    <3>2. UNCHANGED stock /\ \A x \in Order : x # o => HoldOf(x)' = HoldOf(x)
      BY <2>1, <2>3 DEF Inv, TypeOK, ChangeStatus, HoldOf, Closed
    <3>3. Ledger!Sell(o)
      BY <3>1, <3>2, HoldAfter DEF Ledger!Sell
    <3> QED BY <3>3 DEF LedgerStep, Ledger!LedgerNext
  <2>4. CASE new \notin Closed /\ (new # "done" \/ reservation[o] # "held")
    BY <2>1, <2>4, SameHolds
       DEF Inv, TypeOK, MayChange, Finished, ChangeStatus, HoldOf, Terminal
  <2> QED BY <2>2, <2>3, <2>4
<1>4. CASE Edited
  <2>1. PICK q \in Product, n \in 0..MaxStock : SetStock(q, n)
    BY <1>4 DEF Edited
  <2>2. \A x \in Order : HoldOf(x) = "held" => Cart[x][q] = 0
    <3> SUFFICES ASSUME NEW x \in Order, HoldOf(x) = "held"
                 PROVE  Cart[x][q] = 0
      OBVIOUS
    <3>1. reservation[x] = "held" /\ status[x] \notin Terminal
      BY DEF Inv, TypeOK, HoldOf, ClosedIffReleased, Terminal
    <3>2. Cart[x][q] \in Nat
      BY CheckoutAssumption
    <3> QED BY <2>1, <3>1, <3>2 DEF SetStock, OpenReservation, Reserves
  <2>3. [o \in Order |-> HoldOf(o)]' = [o \in Order |-> HoldOf(o)]
    BY <1>4 DEF Edited, HoldOf, orderVars
  <2>4. Ledger!Restock(q, n)
    BY <2>1, <2>2, <2>3 DEF Ledger!Restock, SetStock
  <2> QED BY <2>4 DEF LedgerStep, Ledger!LedgerNext
<1>5. CASE UNCHANGED <<status, reservation, stock>>
  BY <1>5, SameHolds DEF HoldOf
<1> QED BY <1>1, <1>2, <1>3, <1>4, <1>5
        DEF OrderStep, Prepared, Marked, orderVars

\* Checkout, with all its handlers, its job and the office, is a stock ledger:
\* a hold is taken in full, ends once, and blocks every edit of its products.
THEOREM CheckoutRefinesLedger == Spec => RefinesLedger
<1>1. Init => Ledger!LedgerInit
  BY DEF Init, Ledger!LedgerInit, HoldOf
<1>2. Inv /\ ClosedIffReleased /\ [Next]_vars => LedgerStep
  BY OrderSteps, StepsRefine
<1>3. LedgerStep => [Ledger!LedgerNext]_(Ledger!ledger)
  BY DEF LedgerStep, ledgerVars, Ledger!ledger
<1> QED BY <1>1, <1>2, <1>3, CheckoutInvariant, ClosedOrdersAreReleased, PTL
        DEF Spec, RefinesLedger, Ledger!LedgerSpec
=============================================================================
