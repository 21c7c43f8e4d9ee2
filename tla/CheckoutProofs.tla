--------------------------- MODULE CheckoutProofs ---------------------------
(***************************************************************************)
(* Proofs about Checkout, for all orders, products, payments and handlers. *)
(*                                                                         *)
(* TypeOK is not inductive: Apply writes what the provider answered into   *)
(* payment_status, so a task or the job that is about to record must hold  *)
(* an answer the provider really gave.  Inv adds that (Answers), the link  *)
(* between orders and payments it rests on (Bindings), and that an order   *)
(* that does not exist yet has no payment (Unplaced).                      *)
(***************************************************************************)
EXTENDS Checkout, FiniteSetTheorems, TLAPS

\* p exists at the provider and belongs to the existing order o.
Belongs(p, o) ==
  /\ o \in Order /\ p \in Payment
  /\ paymentOf[p] = o /\ provider[p] # "absent" /\ Placed(o)

\* seen is an answer the provider gave for p; a final one still holds.
Answered(o, p, seen) ==
  /\ Belongs(p, o)
  /\ seen # "absent"
  /\ seen \in {"succeeded", "mismatch", "canceled"} => provider[p] = seen

Answers ==
  /\ \A h \in Handler :
       /\ task[h].step \in {"create", "failed", "fetch"} =>
            task[h].order \in Order /\ Placed(task[h].order)
       /\ task[h].step = "fetch" => payment_id[task[h].order] # NoPayment
       /\ task[h].step = "record" =>
            Answered(task[h].order, task[h].payment, task[h].seen)
  /\ job.step \in {"record", "flag"} => job.order \in Order
  /\ job.step = "record" => Answered(job.order, job.payment, job.seen)

Bindings ==
  /\ \A o \in Order :
       /\ payment_id[o] # NoPayment => Belongs(payment_id[o], o)
       /\ remembered[o] # NoPayment => Belongs(remembered[o], o)
       /\ job.snapshot[o].payment_id # NoPayment =>
            Belongs(job.snapshot[o].payment_id, o)
  /\ \A p \in Payment : provider[p] # "absent" => Belongs(p, paymentOf[p])
  /\ \A p \in Payment : provider[p] = "absent" => paymentOf[p] = NoOrder

Unplaced ==
  \A o \in Order : ~Placed(o) =>
    payment_status[o] = "null" /\ payment_id[o] = NoPayment
    /\ reservation[o] = "none" /\ extensions[o] = 0

Inv == TypeOK /\ Answers /\ Bindings /\ Unplaced
-----------------------------------------------------------------------------

(* What a handler's next task looks like. *)

LEMMA IdleIsTask == Idle \in Task
BY DEF Idle, Task, ProviderStatus

LEMMA StartedTask ==
  ASSUME task \in [Handler -> Task], NEW h \in Handler, NEW o \in Order,
         NEW from \in {"checkout", "subscribe", "pay", "recheck"},
         NEW step \in {"create", "fetch"},
         Start(h, from, o, step)
  PROVE  /\ task' \in [Handler -> Task]
         /\ task'[h].step = step /\ task'[h].order = o
         /\ \A g \in Handler : g # h => task'[g] = task[g]
<1> DEFINE t == [Idle EXCEPT !.step = step, !.from = from, !.order = o]
<1>1. t \in Task /\ t.step = step /\ t.order = o
  BY DEF Idle, Task, ProviderStatus
<1>2. task' = [task EXCEPT ![h] = t]
  BY DEF Start
<1> QED BY <1>1, <1>2

LEMMA FinishedTask ==
  ASSUME task \in [Handler -> Task], NEW h \in Handler, Finish(h)
  PROVE  /\ task' \in [Handler -> Task]
         /\ task'[h].step = "idle"
         /\ \A g \in Handler : g # h => task'[g] = task[g]
<1>1. Idle.step = "idle"
  BY DEF Idle
<1> QED BY <1>1, IdleIsTask DEF Finish

\* A task that goes on to another step, perhaps with an answer.
LEMMA ContinuedTask ==
  ASSUME NEW t \in Task, NEW p \in Payment, NEW seen \in ProviderStatus
  PROVE  /\ [t EXCEPT !.step = "failed"] \in Task
         /\ [t EXCEPT !.step = "record", !.payment = p, !.seen = seen] \in Task
BY DEF Task
-----------------------------------------------------------------------------
(* Every action keeps Inv. *)

LEMMA PlaceOrderInv ==
  ASSUME Inv, NEW h \in Handler, NEW o \in Order, PlaceOrder(h, o)
  PROVE  Inv'
<1>1. /\ task' \in [Handler -> Task]
      /\ task'[h].step \in {"create", "idle"}
      /\ task'[h].step = "create" => task'[h].order = o
      /\ \A g \in Handler : g # h => task'[g] = task[g]
  <2>1. CASE o \in Payable
    BY <2>1, StartedTask DEF Inv, TypeOK, PlaceOrder
  <2>2. CASE o \notin Payable
    BY <2>2, FinishedTask DEF Inv, TypeOK, PlaceOrder
  <2> QED BY <2>1, <2>2
<1>2. \A q \in Product : stock[q] - Cart[o][q] \in Nat
  <2> SUFFICES ASSUME NEW q \in Product
               PROVE  stock[q] - Cart[o][q] \in Nat
    OBVIOUS
  <2>1. stock[q] \in Nat /\ Cart[o][q] \in Nat
    BY CheckoutAssumption DEF Inv, TypeOK
  <2>2. Cart[o][q] > 0 => Cart[o][q] <= stock[q]
    BY DEF PlaceOrder, Commit, Available
  <2> QED BY <2>1, <2>2
<1>3. TypeOK'
  BY <1>1, <1>2 DEF Inv, PlaceOrder, Commit, orderVars, shelfVars, providerVars,
     TypeOK, Status, PaymentStatus, ProviderStatus, Terminal, Closed
<1>4. Answers'
  <2>1. task[h].step = "idle" /\ ~Placed(o)
    BY DEF PlaceOrder, Commit, Idle
  <2> QED BY <1>1, <2>1 DEF Inv, PlaceOrder, Commit, Answers, Answered, Belongs,
     Bindings, Placed, orderVars, shelfVars, providerVars, TypeOK
<1>5. Bindings'
  BY DEF Inv, PlaceOrder, Commit, Answers, Answered, Belongs, Bindings, Placed,
     orderVars, shelfVars, providerVars, TypeOK
<1>6. Unplaced'
  BY DEF Inv, Unplaced, PlaceOrder, Commit, Placed, orderVars, shelfVars,
     providerVars, TypeOK
<1> QED BY <1>3, <1>4, <1>5, <1>6 DEF Inv

LEMMA SubscribeInv ==
  ASSUME Inv, NEW h \in Handler, NEW o \in Order, Subscribe(h, o)
  PROVE  Inv'
<1>1. /\ task' \in [Handler -> Task]
      /\ task'[h].step = "create" /\ task'[h].order = o
      /\ \A g \in Handler : g # h => task'[g] = task[g]
  BY StartedTask DEF Inv, TypeOK, Subscribe
<1>2. TypeOK'
  BY <1>1 DEF Inv, Subscribe, orderVars, shelfVars, providerVars, TypeOK,
     Status, PaymentStatus, ProviderStatus, Terminal, Closed
<1>3. Answers'
  BY <1>1 DEF Inv, Subscribe, Answers, Answered, Belongs, Bindings, Placed,
     orderVars, shelfVars, providerVars, TypeOK
<1>4. Bindings'
  BY DEF Inv, Subscribe, Answers, Answered, Belongs, Bindings, Placed,
     orderVars, shelfVars, providerVars, TypeOK
<1>5. Unplaced'
  BY DEF Inv, Unplaced, Subscribe, Placed, orderVars, shelfVars, providerVars,
     TypeOK
<1> QED BY <1>2, <1>3, <1>4, <1>5 DEF Inv

LEMMA PayInv ==
  ASSUME Inv, NEW h \in Handler, NEW o \in Order, Pay(h, o)
  PROVE  Inv'
<1>1. /\ task' \in [Handler -> Task]
      /\ task'[h].step \in {"create", "fetch"} /\ task'[h].order = o
      /\ task'[h].step = "fetch" => payment_id[o] # NoPayment
      /\ \A g \in Handler : g # h => task'[g] = task[g]
  <2>1. CASE payment_id[o] = NoPayment
    BY <2>1, StartedTask DEF Inv, TypeOK, Pay
  <2>2. CASE payment_id[o] # NoPayment
    BY <2>2, StartedTask DEF Inv, TypeOK, Pay
  <2> QED BY <2>1, <2>2
<1>2. TypeOK'
  BY <1>1 DEF Inv, Pay, orderVars, shelfVars, providerVars, TypeOK, Status,
     PaymentStatus, ProviderStatus, Terminal, Closed
<1>3. Answers'
  BY <1>1 DEF Inv, Pay, Answers, Answered, Belongs, Bindings, Placed,
     orderVars, shelfVars, providerVars, TypeOK
<1>4. Bindings'
  BY DEF Inv, Pay, Answers, Answered, Belongs, Bindings, Placed, orderVars,
     shelfVars, providerVars, TypeOK
<1>5. Unplaced'
  BY DEF Inv, Unplaced, Pay, Placed, orderVars, shelfVars, providerVars, TypeOK
<1> QED BY <1>2, <1>3, <1>4, <1>5 DEF Inv

\* What the provider does when it mints a payment or remembers the key.
LEMMA MintedPayment ==
  ASSUME Inv, NEW o \in Order, Placed(o), NEW p \in Payment, Minted(o, p),
         UNCHANGED <<orderVars, job>>
  PROVE  /\ provider' \in [Payment -> ProviderStatus]
         /\ paymentOf' \in [Payment -> Order \cup {NoOrder}]
         /\ remembered' \in [Order -> Payment \cup {NoPayment}]
         /\ Belongs(p, o)'
         /\ \A r, x : Belongs(r, x) => Belongs(r, x)'
         /\ \A r \in Payment : provider[r] # "absent" => provider'[r] = provider[r]
         /\ Bindings'
<1>1. /\ provider' \in [Payment -> ProviderStatus]
      /\ paymentOf' \in [Payment -> Order \cup {NoOrder}]
      /\ remembered' \in [Order -> Payment \cup {NoPayment}]
      /\ \A r \in Payment : provider[r] # "absent" => provider'[r] = provider[r]
  BY DEF Inv, Minted, TypeOK, ProviderStatus
<1>2. provider[p] # "absent" => paymentOf[p] = o
  BY CheckoutAssumption DEF Inv, Minted, Bindings, Belongs
<1>3. Belongs(p, o)'
  BY DEF Inv, Minted, TypeOK, Belongs, Placed, orderVars
<1>4. \A r, x : Belongs(r, x) => Belongs(r, x)'
  BY <1>1, <1>2 DEF Inv, Minted, TypeOK, Belongs, Placed, orderVars
<1>5. Bindings'
  BY <1>2, <1>3, <1>4 DEF Inv, Minted, TypeOK, Bindings, Belongs, orderVars
<1> QED BY <1>1, <1>3, <1>4, <1>5

LEMMA CreatePaymentInv ==
  ASSUME Inv, NEW h \in Handler, CreatePayment(h)
  PROVE  Inv'
<1>1. PICK o \in Order : o = task[h].order /\ Placed(o) /\ task[h] \in Task
  BY DEF Inv, Answers, CreatePayment, TypeOK
<1>2. PICK p \in Payment :
        /\ Minted(o, p)
        /\ \E seen \in {"pending", provider'[p]} :
             task' = [task EXCEPT ![h].step = "record", ![h].payment = p,
                                  ![h].seen = seen]
  BY <1>1 DEF CreatePayment
<1>3. PICK seen \in {"pending", provider'[p]} :
        task' = [task EXCEPT ![h].step = "record", ![h].payment = p,
                             ![h].seen = seen]
  BY <1>2
<1>4. /\ provider' \in [Payment -> ProviderStatus]
      /\ paymentOf' \in [Payment -> Order \cup {NoOrder}]
      /\ remembered' \in [Order -> Payment \cup {NoPayment}]
      /\ Belongs(p, o)'
      /\ \A r, x : Belongs(r, x) => Belongs(r, x)'
      /\ \A r \in Payment : provider[r] # "absent" => provider'[r] = provider[r]
      /\ Bindings'
  <2>1. UNCHANGED <<orderVars, job>>
    BY DEF CreatePayment
  <2> QED BY <1>1, <1>2, <2>1, MintedPayment
<1> DEFINE t == [task[h] EXCEPT !.step = "record", !.payment = p, !.seen = seen]
<1>5. seen \in ProviderStatus /\ seen # "absent"
  BY <1>3, <1>4 DEF ProviderStatus, Belongs
<1>6. t \in Task
  BY <1>1, <1>5, ContinuedTask
<1>7. t.step = "record" /\ t.order = o /\ t.payment = p /\ t.seen = seen
  BY <1>1 DEF Task
<1>8. task' = [task EXCEPT ![h] = t]
  BY <1>3 DEF Inv, TypeOK
<1> HIDE DEF t
<1>9. TypeOK'
  BY <1>4, <1>6, <1>8 DEF Inv, CreatePayment, TypeOK, orderVars, shelfVars
<1>10. Answers'
  <2>1. Answered(o, p, seen)'
    BY <1>3, <1>4, <1>5 DEF Answered
  <2>2. \A x, r, s : Answered(x, r, s) => Answered(x, r, s)'
    BY <1>4 DEF Answered, Belongs
  <2>3. /\ task' \in [Handler -> Task] /\ task'[h] = t
        /\ \A g \in Handler : g # h => task'[g] = task[g]
    BY <1>6, <1>8 DEF Inv, TypeOK
  <2>4. UNCHANGED <<status, payment_id, job>>
    BY DEF CreatePayment, orderVars
  <2> QED BY <1>7, <2>1, <2>2, <2>3, <2>4 DEF Inv, Answers, Placed
<1>11. Unplaced'
  BY DEF Inv, Unplaced, CreatePayment, Placed, orderVars
<1> QED BY <1>4, <1>9, <1>10, <1>11 DEF Inv

LEMMA CreateFailsInv ==
  ASSUME Inv, NEW h \in Handler, CreateFails(h)
  PROVE  Inv'
<1>1. PICK o \in Order : o = task[h].order /\ Placed(o) /\ task[h] \in Task
  BY DEF Inv, Answers, CreateFails, TypeOK
<1>2. /\ provider' \in [Payment -> ProviderStatus]
      /\ paymentOf' \in [Payment -> Order \cup {NoOrder}]
      /\ remembered' \in [Order -> Payment \cup {NoPayment}]
      /\ \A r, x : Belongs(r, x) => Belongs(r, x)'
      /\ \A r \in Payment : provider[r] # "absent" => provider'[r] = provider[r]
      /\ Bindings'
  <2>1. UNCHANGED <<orderVars, job>>
    BY DEF CreateFails
  <2>2. CASE UNCHANGED providerVars
    BY <2>1, <2>2 DEF Inv, TypeOK, Bindings, Belongs, Placed, orderVars,
       providerVars
  <2>3. CASE \E p \in Payment : Minted(task[h].order, p)
    <3>1. PICK p \in Payment : Minted(o, p)
      BY <1>1, <2>3
    <3> QED BY <1>1, <2>1, <3>1, MintedPayment
  <2> QED BY <2>2, <2>3 DEF CreateFails
<1> DEFINE t == [task[h] EXCEPT !.step = "failed"]
<1>3. t \in Task /\ t.step = "failed" /\ t.order = o
  BY <1>1 DEF Task
<1>4. task' = [task EXCEPT ![h] = t]
  BY DEF CreateFails
<1> HIDE DEF t
<1>5. TypeOK'
  BY <1>2, <1>3, <1>4 DEF Inv, CreateFails, TypeOK, orderVars, shelfVars
<1>6. Answers'
  <2>1. \A x, r, y : Answered(x, r, y) => Answered(x, r, y)'
    BY <1>2 DEF Answered, Belongs
  <2>2. /\ task' \in [Handler -> Task] /\ task'[h] = t
        /\ \A g \in Handler : g # h => task'[g] = task[g]
    BY <1>3, <1>4 DEF Inv, TypeOK
  <2>3. UNCHANGED <<status, payment_id, job>>
    BY DEF CreateFails, orderVars
  <2> QED BY <1>1, <1>3, <2>1, <2>2, <2>3 DEF Inv, Answers, Placed
<1>7. Unplaced'
  BY DEF Inv, Unplaced, CreateFails, Placed, orderVars
<1> QED BY <1>2, <1>5, <1>6, <1>7 DEF Inv

\* A step of one handler that changes nothing but its task.
LEMMA TaskStepInv ==
  ASSUME Inv, NEW h \in Handler, NEW t \in Task,
         task' = [task EXCEPT ![h] = t],
         UNCHANGED <<orderVars, shelfVars, providerVars, aged, job>>,
         t.step \in {"idle", "failed", "record"},
         t.step = "failed" => t.order \in Order /\ Placed(t.order),
         t.step = "record" => Answered(t.order, t.payment, t.seen)
  PROVE  Inv'
<1>1. /\ task' \in [Handler -> Task] /\ task'[h] = t
      /\ \A g \in Handler : g # h => task'[g] = task[g]
  BY DEF Inv, TypeOK
<1>2. TypeOK'
  BY <1>1 DEF Inv, TypeOK, orderVars, shelfVars, providerVars
<1>3. Answers'
  BY <1>1 DEF Inv, Answers, Answered, Belongs, Placed, orderVars, providerVars
<1>4. Bindings'
  BY DEF Inv, Bindings, Belongs, Placed, orderVars, providerVars
<1>5. Unplaced'
  BY DEF Inv, Unplaced, Placed, orderVars
<1> QED BY <1>2, <1>3, <1>4, <1>5 DEF Inv

LEMMA FetchPaymentInv ==
  ASSUME Inv, NEW h \in Handler, FetchPayment(h)
  PROVE  Inv'
<1> DEFINE p == payment_id[task[h].order]
           t == [task[h] EXCEPT !.step = "record", !.payment = p, !.seen = provider[p]]
<1>1. task[h] \in Task /\ task[h].order \in Order /\ Placed(task[h].order)
  BY DEF Inv, TypeOK, Answers, FetchPayment
<1>2. p # NoPayment
  BY DEF Inv, Answers, FetchPayment
<1>3. p \in Payment /\ Belongs(p, task[h].order) /\ provider[p] \in ProviderStatus
  BY <1>1, <1>2 DEF Inv, Bindings, Belongs, TypeOK
<1>4. Answered(task[h].order, p, provider[p])
  BY <1>3 DEF Answered, Belongs
<1>5. task' = [task EXCEPT ![h] = t]
  BY DEF FetchPayment
<1> HIDE DEF p
<1>6. t \in Task
  BY <1>1, <1>3, ContinuedTask
<1>7. t.step = "record" /\ t.order = task[h].order /\ t.payment = p
      /\ t.seen = provider[p]
  BY <1>1 DEF Task
<1>8. UNCHANGED <<orderVars, shelfVars, providerVars, aged, job>>
  BY DEF FetchPayment
<1> HIDE DEF t
<1> QED BY <1>4, <1>5, <1>6, <1>7, <1>8, TaskStepInv

LEMMA WebhookInv ==
  ASSUME Inv, NEW h \in Handler, NEW p \in Payment, Webhook(h, p)
  PROVE  Inv'
<1> DEFINE t == [step |-> "record", from |-> "webhook", order |-> paymentOf[p],
                 payment |-> p, seen |-> provider[p]]
<1>1. Answered(paymentOf[p], p, provider[p]) /\ provider[p] \in ProviderStatus
  BY DEF Inv, Bindings, Belongs, Answered, Webhook, TypeOK
<1>2. t \in Task
  BY <1>1 DEF Task, Answered, Belongs
<1>3. task' = [task EXCEPT ![h] = t]
  BY DEF Webhook
<1>4. UNCHANGED <<orderVars, shelfVars, providerVars, aged, job>>
  BY DEF Webhook
<1>5. t.step = "record" /\ t.order = paymentOf[p] /\ t.payment = p
      /\ t.seen = provider[p]
  OBVIOUS
<1> HIDE DEF t
<1> QED BY <1>1, <1>2, <1>3, <1>4, <1>5, TaskStepInv

LEMMA StoppedInv ==
  ASSUME Inv, NEW h \in Handler, RecordFails(h) \/ HandlerStops(h)
  PROVE  Inv'
<1>1. CASE RecordFails(h)
  <2> DEFINE t == [task[h] EXCEPT !.step = "failed"]
  <2>1. task[h] \in Task /\ task[h].order \in Order /\ Placed(task[h].order)
    BY <1>1 DEF Inv, TypeOK, Answers, Answered, Belongs, RecordFails
  <2>2. t \in Task /\ t.step = "failed" /\ t.order = task[h].order
    BY <2>1 DEF Task
  <2>3. task' = [task EXCEPT ![h] = t]
        /\ UNCHANGED <<orderVars, shelfVars, providerVars, aged, job>>
    BY <1>1 DEF RecordFails
  <2> HIDE DEF t
  <2> QED BY <2>1, <2>2, <2>3, TaskStepInv
<1>2. CASE HandlerStops(h)
  <2>1. task' = [task EXCEPT ![h] = Idle] /\ Idle.step = "idle"
        /\ UNCHANGED <<orderVars, shelfVars, providerVars, aged, job>>
    BY <1>2 DEF HandlerStops, Finish, Idle
  <2> QED BY <2>1, IdleIsTask, TaskStepInv
<1> QED BY <1>1, <1>2

LEMMA CreationFailedInv ==
  ASSUME Inv, NEW h \in Handler, CreationFailed(h)
  PROVE  Inv'
<1>1. task[h].order \in Order /\ Placed(task[h].order)
  BY DEF Inv, Answers, CreationFailed
<1>2. /\ task' \in [Handler -> Task]
      /\ task'[h].step = "idle"
      /\ \A g \in Handler : g # h => task'[g] = task[g]
  BY FinishedTask DEF Inv, TypeOK, CreationFailed
<1>3. TypeOK'
  BY <1>2 DEF Inv, CreationFailed, ClearFailedCreation, orderVars, shelfVars,
     providerVars, TypeOK, Status, PaymentStatus, ProviderStatus, Terminal,
     Closed
<1>4. Answers'
  BY <1>2 DEF Inv, CreationFailed, Answers, Answered, Belongs, Placed, providerVars
<1>5. Bindings'
  BY DEF Inv, CreationFailed, Bindings, Belongs, Placed, providerVars
<1>6. Unplaced'
  BY <1>1 DEF Inv, Unplaced, CreationFailed, ClearFailedCreation, Placed, TypeOK
<1> QED BY <1>3, <1>4, <1>5, <1>6 DEF Inv
-----------------------------------------------------------------------------
(* The transactions that write an order. *)

\* What release gives back is a stock again.
LEMMA ReleasedStock ==
  ASSUME TypeOK, NEW o \in Order, Release(o)
  PROVE  /\ stock' \in [Product -> Nat]
         /\ reservation' \in [Order -> {"none", "held", "released"}]
         /\ \A x \in Order : x # o => reservation'[x] = reservation[x]
<1>1. \A q \in Product : stock[q] + Cart[o][q] \in Nat
  BY CheckoutAssumption DEF TypeOK
<1> QED BY <1>1 DEF TypeOK, Release

\* A transaction that writes order o only, and binds it at most to p.
OrderWritten(o, p) ==
  /\ status' \in [Order -> Status]
  /\ payment_status' \in [Order -> PaymentStatus]
  /\ payment_id' \in [Order -> Payment \cup {NoPayment}]
  /\ reservation' \in [Order -> {"none", "held", "released"}]
  /\ extensions' \in [Order -> Nat]
  /\ stock' \in [Product -> Nat]
  /\ \A x \in Order : Placed(x)' <=> Placed(x)
  /\ \A x \in Order : payment_id'[x] # payment_id[x] => x = o /\ payment_id'[x] = p
  /\ \A x \in Order : x # o =>
       /\ payment_status'[x] = payment_status[x]
       /\ reservation'[x] = reservation[x]
       /\ extensions'[x] = extensions[x]

LEMMA AppliedOrder ==
  ASSUME TypeOK, NEW o \in Order, NEW p \in Payment,
         NEW seen \in ProviderStatus, seen # "absent", Placed(o),
         Apply(o, p, seen)
  PROVE  OrderWritten(o, p)
<1> DEFINE outcome == PaymentOutcome(o, p, seen)
<1>1. outcome \in {"ignored", "duplicate", "succeeded", "canceled", "review", "pending"}
      /\ (outcome = "pending" => seen \in {"pending", "waiting_for_capture"})
  BY DEF PaymentOutcome, ProviderStatus
<1>2. CASE outcome \in {"ignored", "duplicate"}
  BY <1>2 DEF Apply, OrderWritten, TypeOK, orderVars, Placed
<1>3. CASE outcome = "succeeded"
  BY <1>3 DEF Apply, Bind, OrderWritten, TypeOK, Placed, Status, PaymentStatus
<1>4. CASE outcome = "canceled"
  <2>1. Release(o)
    BY <1>4 DEF Apply
  <2> QED BY <1>4, <2>1, ReleasedStock
          DEF Apply, Bind, OrderWritten, TypeOK, Placed, Status, PaymentStatus,
              Terminal, Closed
<1>5. CASE outcome \in {"review", "pending"}
  BY <1>1, <1>5 DEF Apply, Bind, OrderWritten, TypeOK, Placed, PaymentStatus
<1> QED BY <1>1, <1>2, <1>3, <1>4, <1>5

LEMMA ChangedOrder ==
  ASSUME TypeOK, NEW o \in Order, NEW new \in Status \ {"absent"},
         MayChange(o, new), ChangeStatus(o, new), NEW p
  PROVE  OrderWritten(o, p)
<1>1. CASE new \in Closed
  <2>1. Release(o)
    BY <1>1 DEF ChangeStatus
  <2> QED BY <2>1, ReleasedStock
          DEF ChangeStatus, MayChange, OrderWritten, TypeOK, Placed
<1>2. CASE new \notin Closed
  BY <1>2 DEF ChangeStatus, MayChange, OrderWritten, TypeOK, Placed
<1> QED BY <1>1, <1>2

\* Such a transaction keeps the links between orders and payments.
LEMMA WrittenInv ==
  ASSUME Inv, NEW o \in Order, NEW p, OrderWritten(o, p), Placed(o),
         \A x \in Order : payment_id'[x] # payment_id[x] => Belongs(p, o),
         UNCHANGED <<present, supply, providerVars, aged>>,
         job' \in Job,
         \A x \in Order : \/ job'.snapshot[x].payment_id = NoPayment
                         \/ job'.snapshot[x] = job.snapshot[x],
         task' \in [Handler -> Task]
  PROVE  /\ TypeOK'
         /\ Bindings'
         /\ Unplaced'
         /\ \A x, r, y : Answered(x, r, y) => Answered(x, r, y)'
         /\ \A x \in Order : payment_id[x] # NoPayment => payment_id'[x] # NoPayment
<1>1. \A r, x : Belongs(r, x) => Belongs(r, x)'
  BY DEF OrderWritten, Belongs, providerVars
<1>2. TypeOK'
  BY DEF Inv, TypeOK, OrderWritten, providerVars
<1>3. Bindings'
  <2>1. \A x \in Order : payment_id'[x] # NoPayment => Belongs(payment_id[x], x)'
    <3> SUFFICES ASSUME NEW x \in Order, payment_id'[x] # NoPayment
                 PROVE  Belongs(payment_id[x], x)'
      OBVIOUS
    <3>1. CASE payment_id'[x] = payment_id[x]
      <4>1. Belongs(payment_id[x], x)
        BY <3>1 DEF Inv, Bindings
      <4>2. Belongs(payment_id[x], x)'
        BY <1>1, <4>1, <3>1 DEF Belongs, OrderWritten, providerVars
      <4> QED BY <3>1, <4>2 DEF Belongs
    <3>2. CASE payment_id'[x] # payment_id[x]
      <4>1. x = o /\ payment_id'[x] = p /\ Belongs(p, o)
        BY <3>2 DEF OrderWritten
      <4> QED BY <1>1, <4>1 DEF Belongs, OrderWritten, providerVars
    <3> QED BY <3>1, <3>2
  <2>2. \A x \in Order : remembered'[x] # NoPayment => Belongs(remembered[x], x)'
    BY DEF Inv, Bindings, Belongs, OrderWritten, providerVars
  <2>3. \A x \in Order : job'.snapshot[x].payment_id # NoPayment =>
                          Belongs(job.snapshot[x].payment_id, x)'
    BY DEF Inv, Bindings, Belongs, OrderWritten, providerVars
  <2>4. \A r \in Payment : provider'[r] # "absent" => Belongs(r, paymentOf[r])'
    BY DEF Inv, Bindings, Belongs, OrderWritten, providerVars
  <2>5. \A r \in Payment : provider'[r] = "absent" => paymentOf'[r] = NoOrder
    BY DEF Inv, Bindings, providerVars
  <2> QED BY <2>1, <2>2, <2>3, <2>4, <2>5 DEF Bindings
<1>4. Unplaced'
  BY DEF Inv, Unplaced, OrderWritten
<1>5. \A x, r, y : Answered(x, r, y) => Answered(x, r, y)'
  BY <1>1 DEF Answered, providerVars
<1>6. \A x \in Order : payment_id[x] # NoPayment => payment_id'[x] # NoPayment
  BY CheckoutAssumption DEF OrderWritten, Belongs
<1> QED BY <1>2, <1>3, <1>4, <1>5, <1>6

LEMMA RecordInv ==
  ASSUME Inv, NEW h \in Handler, Record(h)
  PROVE  Inv'
<1> DEFINE o == task[h].order
           p == task[h].payment
           seen == task[h].seen
<1>1. task[h] \in Task /\ Answered(o, p, seen) /\ task[h].step = "record"
  BY DEF Inv, TypeOK, Answers, Record
<1>2. o \in Order /\ p \in Payment /\ seen \in ProviderStatus /\ seen # "absent"
      /\ Placed(o) /\ Belongs(p, o)
  BY <1>1 DEF Answered, Belongs, Task
<1>3. CASE Refused(o, p, seen)
  <2>0. UNCHANGED <<orderVars, shelfVars, providerVars, aged, job>>
    BY <1>3 DEF Record, shelfVars
  <2>1. CASE task[h].from \in {"checkout", "subscribe", "pay"}
    <3> DEFINE t == [task[h] EXCEPT !.step = "failed"]
    <3>1. t \in Task /\ t.step = "failed" /\ t.order = o
      BY <1>1 DEF Task
    <3>2. task' = [task EXCEPT ![h] = t]
      BY <1>3, <2>1 DEF Record
    <3> HIDE DEF t
    <3> QED BY <1>2, <2>0, <3>1, <3>2, TaskStepInv
  <2>2. CASE task[h].from \notin {"checkout", "subscribe", "pay"}
    <3>1. task' = [task EXCEPT ![h] = Idle] /\ Idle.step = "idle"
      BY <1>3, <2>2 DEF Record, Finish, Idle
    <3> QED BY <2>0, <3>1, IdleIsTask, TaskStepInv
  <2> QED BY <2>1, <2>2
<1>4. CASE ~Refused(o, p, seen)
  <2>1. Apply(o, p, seen) /\ Finish(h)
        /\ UNCHANGED <<present, supply, providerVars, aged, job>>
    BY <1>4 DEF Record
  <2> HIDE DEF o, p, seen
  <2>2. OrderWritten(o, p)
    BY <1>2, <2>1, AppliedOrder DEF Inv
  <2>3. /\ task' \in [Handler -> Task]
        /\ task'[h].step = "idle"
        /\ \A g \in Handler : g # h => task'[g] = task[g]
    BY <2>1, FinishedTask DEF Inv, TypeOK
  <2>4. /\ TypeOK'
        /\ Bindings'
        /\ Unplaced'
        /\ \A x, r, y : Answered(x, r, y) => Answered(x, r, y)'
        /\ \A x \in Order : payment_id[x] # NoPayment => payment_id'[x] # NoPayment
    <3>1. job' \in Job
      BY <2>1 DEF Inv, TypeOK
    <3> QED BY <1>2, <2>1, <2>2, <2>3, <3>1, WrittenInv
  <2>5. Answers'
    BY <2>1, <2>2, <2>3, <2>4 DEF Inv, Answers, OrderWritten
  <2> QED BY <2>4, <2>5 DEF Inv
<1> QED BY <1>3, <1>4

LEMMA OfficeChangeInv ==
  ASSUME Inv, NEW o \in Order, NEW new \in OfficeStatus, OfficeChange(o, new)
  PROVE  Inv'
<1>1. MayChange(o, new) /\ ChangeStatus(o, new) /\ Placed(o)
      /\ UNCHANGED <<present, supply, providerVars, aged, task, job>>
  BY DEF OfficeChange, MayChange
<1>2. OrderWritten(o, NoPayment)
  <2>1. new \in Status \ {"absent"}
    BY CheckoutAssumption DEF Status, Terminal, Closed
  <2> QED BY <1>1, <2>1, ChangedOrder DEF Inv
<1>3. \A x \in Order : payment_id'[x] = payment_id[x]
  BY <1>1 DEF ChangeStatus
<1>4. /\ TypeOK'
      /\ Bindings'
      /\ Unplaced'
      /\ \A x, r, y : Answered(x, r, y) => Answered(x, r, y)'
      /\ \A x \in Order : payment_id[x] # NoPayment => payment_id'[x] # NoPayment
  <2>1. job' \in Job /\ task' \in [Handler -> Task]
    BY <1>1 DEF Inv, TypeOK
  <2> QED BY <1>1, <1>2, <1>3, <2>1, WrittenInv
<1>5. Answers'
  BY <1>1, <1>2, <1>4 DEF Inv, Answers, OrderWritten
<1> QED BY <1>4, <1>5 DEF Inv
-----------------------------------------------------------------------------
(* The job, the product editor and the world. *)

LEMMA RestingIsJob ==
  /\ Resting \in Job
  /\ Resting.step = "idle"
  /\ \A o \in Order : Resting.snapshot[o].payment_id = NoPayment
BY DEF Resting, Job, Row, NoRow, ProviderStatus, PaymentStatus

\* The job after one of its rows is done or has failed.
LEMMA NextRow ==
  ASSUME job \in Job, NEW o \in Order
  PROVE  /\ RowDone(o) \in Job /\ RowFailed(o) \in Job
         /\ RowDone(o).step \in {"idle", "next"}
         /\ RowFailed(o).step \in {"idle", "next", "flag"}
         /\ RowFailed(o).step = "flag" => RowFailed(o).order = o
         /\ \A x \in Order : \A after \in {RowDone(o), RowFailed(o)} :
              \/ after.snapshot[x].payment_id = NoPayment
              \/ after.snapshot[x] = job.snapshot[x]
<1>1. NoRow \in Row /\ NoRow.payment_id = NoPayment
  BY DEF NoRow, Row, PaymentStatus
<1>2. /\ RowDone(o) \in Job
      /\ RowDone(o).step \in {"idle", "next"}
      /\ \A x \in Order : \/ RowDone(o).snapshot[x].payment_id = NoPayment
                        \/ RowDone(o).snapshot[x] = job.snapshot[x]
  <2>1. CASE job.rows = {o}
    BY <2>1, RestingIsJob DEF RowDone
  <2>2. CASE job.rows # {o}
    BY <1>1, <2>2 DEF RowDone, Resting, Job, ProviderStatus
  <2> QED BY <2>1, <2>2
<1>3. CASE job.snapshot[o].payment_id = NoPayment
  <2>1. RowFailed(o) = Work(o, "flag", NoPayment, "absent")
    BY <1>3 DEF RowFailed
  <2>2. /\ Work(o, "flag", NoPayment, "absent") \in Job
        /\ Work(o, "flag", NoPayment, "absent").step = "flag"
        /\ Work(o, "flag", NoPayment, "absent").order = o
        /\ Work(o, "flag", NoPayment, "absent").snapshot = job.snapshot
    BY DEF Work, Job, ProviderStatus
  <2> QED BY <1>2, <2>1, <2>2
<1>4. CASE job.snapshot[o].payment_id # NoPayment
  BY <1>2, <1>4 DEF RowFailed
<1> QED BY <1>2, <1>3, <1>4

\* A step of the job that changes nothing but its own state.
LEMMA JobStepInv ==
  ASSUME Inv, job' \in Job,
         UNCHANGED <<orderVars, shelfVars, providerVars, aged, task>>,
         job'.step \in {"record", "flag"} => job'.order \in Order,
         job'.step = "record" => Answered(job'.order, job'.payment, job'.seen),
         \A x \in Order : job'.snapshot[x].payment_id # NoPayment =>
                           Belongs(job'.snapshot[x].payment_id, x)
  PROVE  Inv'
<1>1. TypeOK'
  BY DEF Inv, TypeOK, orderVars, shelfVars, providerVars
<1>2. Answers'
  BY DEF Inv, Answers, Answered, Belongs, Placed, orderVars, providerVars
<1>3. Bindings'
  BY DEF Inv, Bindings, Belongs, Placed, orderVars, providerVars
<1>4. Unplaced'
  BY DEF Inv, Unplaced, Placed, orderVars
<1> QED BY <1>1, <1>2, <1>3, <1>4 DEF Inv

LEMMA JobScanInv ==
  ASSUME Inv, JobScan
  PROVE  Inv'
<1> DEFINE snap == [o \in Order |->
                      IF Stale(o)
                      THEN [payment_status |-> payment_status[o],
                            payment_id |-> payment_id[o]]
                      ELSE NoRow]
<1>1. snap \in [Order -> Row]
  BY DEF Inv, TypeOK, Row, NoRow, PaymentStatus
<1>2. \A o \in Order : snap[o].payment_id # NoPayment =>
                       Belongs(snap[o].payment_id, o)
  BY DEF Inv, Bindings, NoRow
<1>3. job' = [Resting EXCEPT !.step = "next", !.rows = {o \in Order : Stale(o)},
                             !.snapshot = snap]
  BY DEF JobScan
<1> HIDE DEF snap
<1>4. job' \in Job /\ job'.step = "next" /\ job'.snapshot = snap
  BY <1>1, <1>3 DEF Resting, Job, ProviderStatus
<1>5. UNCHANGED <<orderVars, shelfVars, providerVars, aged, task>>
  BY DEF JobScan
<1> QED BY <1>2, <1>4, <1>5, JobStepInv

LEMMA JobLookupInv ==
  ASSUME Inv, NEW o \in Order, JobFinds(o) \/ JobFindsNothing(o)
  PROVE  Inv'
<1>1. UNCHANGED <<orderVars, shelfVars, providerVars, aged, task>>
  BY DEF JobFinds, JobFindsNothing
<1>2. job \in Job
      /\ \A x \in Order : job.snapshot[x].payment_id # NoPayment =>
                           Belongs(job.snapshot[x].payment_id, x)
  BY DEF Inv, TypeOK, Bindings
<1>3. CASE JobFinds(o)
  <2>1. PICK p \in Payment :
          /\ \/ p = job.snapshot[o].payment_id
             \/ job.snapshot[o].payment_id = NoPayment /\ PaymentsOf(o) = {p}
          /\ job' = Work(o, "record", p, provider[p])
    BY <1>3 DEF JobFinds
  <2>2. Belongs(p, o)
    <3>1. CASE p = job.snapshot[o].payment_id
      BY <1>2, <3>1, CheckoutAssumption
    <3>2. CASE PaymentsOf(o) = {p}
      BY <3>2, CheckoutAssumption DEF Inv, Bindings, Belongs, PaymentsOf
    <3> QED BY <2>1, <3>1, <3>2
  <2>3. Answered(o, p, provider[p]) /\ provider[p] \in ProviderStatus
    BY <2>2 DEF Inv, TypeOK, Answered, Belongs
  <2>4. /\ job' \in Job /\ job'.step = "record" /\ job'.order = o
        /\ job'.payment = p /\ job'.seen = provider[p]
        /\ job'.snapshot = job.snapshot
    BY <1>2, <2>1, <2>3 DEF Work, Job
  <2> QED BY <1>1, <1>2, <2>3, <2>4, JobStepInv
<1>4. CASE JobFindsNothing(o)
  <2>1. job' = RowFailed(o)
    BY <1>4 DEF JobFindsNothing
  <2> HIDE DEF RowFailed
  <2>2. /\ job' \in Job /\ job'.step # "record"
        /\ job'.step = "flag" => job'.order = o
        /\ \A x \in Order : \/ job'.snapshot[x].payment_id = NoPayment
                          \/ job'.snapshot[x] = job.snapshot[x]
    BY <1>2, <2>1, NextRow
  <2> QED BY <1>1, <1>2, <2>2, JobStepInv
<1> QED BY <1>3, <1>4

LEMMA JobStopsInv ==
  ASSUME Inv, JobStops
  PROVE  Inv'
<1>1. job' = Resting /\ UNCHANGED <<orderVars, shelfVars, providerVars, aged, task>>
  BY DEF JobStops
<1> QED BY <1>1, RestingIsJob, JobStepInv

\* A step of the job that may write order o.
LEMMA JobWriteInv ==
  ASSUME Inv, NEW o \in Order, NEW p, OrderWritten(o, p), Placed(o),
         \A x \in Order : payment_id'[x] # payment_id[x] => Belongs(p, o),
         UNCHANGED <<present, supply, providerVars, aged, task>>,
         job' \in {RowDone(o), RowFailed(o)}
  PROVE  Inv'
<1>1. job \in Job /\ task' \in [Handler -> Task]
  BY DEF Inv, TypeOK
<1>2. /\ job' \in Job /\ job'.step # "record"
      /\ job'.step = "flag" => job'.order = o
      /\ \A x \in Order : \/ job'.snapshot[x].payment_id = NoPayment
                        \/ job'.snapshot[x] = job.snapshot[x]
  BY <1>1, NextRow
<1>3. /\ TypeOK'
      /\ Bindings'
      /\ Unplaced'
      /\ \A x, r, y : Answered(x, r, y) => Answered(x, r, y)'
      /\ \A x \in Order : payment_id[x] # NoPayment => payment_id'[x] # NoPayment
  BY <1>1, <1>2, WrittenInv
<1>4. Answers'
  BY <1>2, <1>3 DEF Inv, Answers, OrderWritten
<1> QED BY <1>3, <1>4 DEF Inv

\* An order that a transaction leaves alone counts as written, too.
LEMMA UntouchedOrder ==
  ASSUME TypeOK, UNCHANGED <<orderVars, stock>>, NEW o \in Order, NEW p
  PROVE  OrderWritten(o, p) /\ \A x \in Order : payment_id'[x] = payment_id[x]
BY DEF TypeOK, OrderWritten, orderVars, Placed

LEMMA JobRecordInv ==
  ASSUME Inv, JobRecord
  PROVE  Inv'
<1> DEFINE o == job.order
           p == job.payment
           seen == job.seen
<1>1. /\ Belongs(p, o) /\ o \in Order /\ p \in Payment /\ Placed(o)
      /\ seen \in ProviderStatus /\ seen # "absent"
  BY DEF Inv, TypeOK, Job, Answers, Answered, Belongs, JobRecord
<1>2. UNCHANGED <<present, supply, providerVars, aged, task>>
  BY DEF JobRecord
<1>3. job' \in {RowDone(o), RowFailed(o)}
      /\ (Apply(o, p, seen) \/ UNCHANGED <<orderVars, stock>>)
  BY DEF JobRecord
<1> HIDE DEF o, p, seen
<1>4. OrderWritten(o, p)
  BY <1>1, <1>3, AppliedOrder, UntouchedOrder DEF Inv
<1> QED BY <1>1, <1>2, <1>3, <1>4, JobWriteInv

LEMMA JobExpireInv ==
  ASSUME Inv, NEW o \in Order, JobExpire(o)
  PROVE  Inv'
<1>1. UNCHANGED <<present, supply, providerVars, aged, task>>
  BY DEF JobExpire
<1>2. job' \in {RowDone(o), RowFailed(o)}
  BY DEF JobExpire
<1>3. CASE MayChange(o, "expired") /\ ChangeStatus(o, "expired")
  <2>1. OrderWritten(o, NoPayment)
    BY <1>3, ChangedOrder DEF Inv, Status, Terminal, Closed
  <2>2. Placed(o) /\ \A x \in Order : payment_id'[x] = payment_id[x]
    BY <1>3 DEF MayChange, ChangeStatus
  <2> QED BY <1>1, <1>2, <2>1, <2>2, JobWriteInv
<1>4. CASE UNCHANGED <<orderVars, stock>>
  <2>1. job' \in Job /\ job'.step # "record"
        /\ (job'.step = "flag" => job'.order = o)
        /\ \A x \in Order : \/ job'.snapshot[x].payment_id = NoPayment
                          \/ job'.snapshot[x] = job.snapshot[x]
    BY <1>2, NextRow, SMTT(30) DEF Inv, TypeOK
  <2>2. UNCHANGED <<orderVars, shelfVars, providerVars, aged, task>>
    BY <1>1, <1>4 DEF shelfVars
  <2>3. \A x \in Order : job'.snapshot[x].payment_id # NoPayment =>
                         Belongs(job'.snapshot[x].payment_id, x)
    BY <2>1 DEF Inv, Bindings
  <2> QED BY <2>1, <2>2, <2>3, JobStepInv
<1> QED BY <1>3, <1>4 DEF JobExpire

LEMMA JobFlagInv ==
  ASSUME Inv, JobFlag
  PROVE  Inv'
<1> DEFINE o == job.order
<1>1. o \in Order /\ job \in Job
  BY DEF Inv, TypeOK, Answers, JobFlag
<1>2. job' = RowDone(o)
  BY DEF JobFlag
<1>3. /\ job' \in Job /\ job'.step \in {"idle", "next"}
      /\ \A x \in Order : \/ job'.snapshot[x].payment_id = NoPayment
                        \/ job'.snapshot[x] = job.snapshot[x]
  BY <1>1, <1>2, NextRow
<1>4. TypeOK'
  BY <1>1, <1>3 DEF Inv, JobFlag, FlagMissingPayment, orderVars, shelfVars,
     providerVars, TypeOK, Status, PaymentStatus, ProviderStatus, Terminal,
     Closed
<1>5. Answers'
  BY <1>3 DEF Inv, JobFlag, Answers, Answered, Belongs, Placed, providerVars
<1>6. Bindings'
  BY <1>3 DEF Inv, JobFlag, Bindings, Belongs, Placed, providerVars
<1>7. Unplaced'
  BY <1>1 DEF Inv, Unplaced, JobFlag, FlagMissingPayment, Placed, TypeOK
<1> QED BY <1>4, <1>5, <1>6, <1>7 DEF Inv

LEMMA HeldUnitsFinite ==
  ASSUME NEW q \in Product
  PROVE  IsFiniteSet(HeldUnits(q)) /\ Cardinality(HeldUnits(q)) \in Nat
<1>1. IsFiniteSet(Order) /\ MaxStock \in Nat
  BY CheckoutAssumption
<1>2. IsFiniteSet(1..MaxStock)
  BY <1>1, FS_Interval
<1>3. IsFiniteSet(Order \X (1..MaxStock))
  BY <1>1, <1>2, FS_Product
<1>4. HeldUnits(q) \in SUBSET (Order \X (1..MaxStock))
  BY DEF HeldUnits
<1>5. IsFiniteSet(HeldUnits(q))
  BY <1>3, <1>4, FS_Subset
<1> QED BY <1>5, FS_CardinalityType

\* A step that leaves orders, payments and tasks alone.
LEMMA ShelfStepInv ==
  ASSUME Inv, TypeOK', UNCHANGED <<orderVars, providerVars, task, job>>
  PROVE  Inv'
<1>1. Answers'
  BY DEF Inv, Answers, Answered, Belongs, Placed, orderVars, providerVars
<1>2. Bindings'
  BY DEF Inv, Bindings, Belongs, Placed, orderVars, providerVars
<1>3. Unplaced'
  BY DEF Inv, Unplaced, Placed, orderVars
<1> QED BY <1>1, <1>2, <1>3 DEF Inv

LEMMA ProductEditorInv ==
  ASSUME Inv, NEW q \in Product,
         DeleteProduct(q) \/ \E n \in 0..MaxStock : SetStock(q, n)
  PROVE  Inv'
<1>1. CASE DeleteProduct(q)
  <2>1. TypeOK'
    BY <1>1 DEF Inv, DeleteProduct, TypeOK, orderVars, providerVars
  <2>2. UNCHANGED <<orderVars, providerVars, task, job>>
    BY <1>1 DEF DeleteProduct
  <2> QED BY <2>1, <2>2, ShelfStepInv
<1>2. ASSUME NEW n \in 0..MaxStock, SetStock(q, n)
      PROVE  Inv'
  <2>1. n \in Nat /\ n + Cardinality(HeldUnits(q)) \in Nat
    BY CheckoutAssumption, HeldUnitsFinite
  <2>2. TypeOK'
    BY <1>2, <2>1 DEF Inv, SetStock, TypeOK, orderVars, providerVars
  <2>3. UNCHANGED <<orderVars, providerVars, task, job>>
    BY <1>2 DEF SetStock
  <2> QED BY <2>2, <2>3, ShelfStepInv
<1> QED BY <1>1, <1>2

LEMMA ProviderStepInv ==
  ASSUME Inv, NEW p \in Payment, ProviderStep(p)
  PROVE  Inv'
<1>1. /\ provider' \in [Payment -> ProviderStatus]
      /\ \A r \in Payment : provider'[r] = "absent" <=> provider[r] = "absent"
      /\ \A r \in Payment : provider[r] \in {"succeeded", "mismatch", "canceled"} =>
                            provider'[r] = provider[r]
  BY DEF Inv, TypeOK, ProviderStatus, ProviderStep, ProviderMoves
<1>2. TypeOK'
  BY <1>1 DEF Inv, ProviderStep, TypeOK, orderVars, shelfVars
<1>3. Answers'
  BY <1>1 DEF Inv, Answers, Answered, Belongs, Placed, ProviderStep, orderVars
<1>4. Bindings'
  BY <1>1 DEF Inv, Bindings, Belongs, Placed, ProviderStep, orderVars
<1>5. Unplaced'
  BY DEF Inv, Unplaced, Placed, ProviderStep, orderVars
<1> QED BY <1>2, <1>3, <1>4, <1>5 DEF Inv

LEMMA ClockInv ==
  ASSUME Inv, NEW o \in Order, KeyLapse(o) \/ Age(o)
  PROVE  Inv'
<1>1. CASE KeyLapse(o)
  <2>1. TypeOK'
    BY <1>1 DEF Inv, KeyLapse, TypeOK, orderVars, shelfVars
  <2>2. Answers'
    BY <1>1 DEF Inv, KeyLapse, Answers, Answered, Belongs, Placed, orderVars
  <2>3. Bindings'
    BY <1>1 DEF Inv, KeyLapse, Bindings, Belongs, Placed, TypeOK, orderVars
  <2>4. Unplaced'
    BY <1>1 DEF Inv, KeyLapse, Unplaced, Placed, orderVars
  <2> QED BY <2>1, <2>2, <2>3, <2>4 DEF Inv
<1>2. CASE Age(o)
  <2>1. TypeOK'
    BY <1>2 DEF Inv, Age, TypeOK, orderVars, shelfVars, providerVars
  <2>2. UNCHANGED <<orderVars, providerVars, task, job>>
    BY <1>2 DEF Age
  <2> QED BY <2>1, <2>2, ShelfStepInv
<1> QED BY <1>1, <1>2
-----------------------------------------------------------------------------
LEMMA InitInv == Init => Inv
<1> SUFFICES ASSUME Init
             PROVE  Inv
  OBVIOUS
<1>1. TypeOK
  <2>1. \A q \in Product : InitialStock[q] \in Nat
    BY CheckoutAssumption
  <2> QED BY <2>1, IdleIsTask, RestingIsJob, CheckoutAssumption
          DEF Init, orderVars, shelfVars, providerVars, TypeOK, Status,
             PaymentStatus, ProviderStatus, Terminal, Closed
<1>2. Answers
  BY RestingIsJob DEF Init, Answers, Idle
<1>3. Bindings
  BY RestingIsJob DEF Init, Bindings
<1>4. Unplaced
  BY DEF Init, Unplaced
<1> QED BY <1>1, <1>2, <1>3, <1>4 DEF Inv

LEMMA NextInv == Inv /\ [Next]_vars => Inv'
<1> SUFFICES ASSUME Inv, [Next]_vars
             PROVE  Inv'
  OBVIOUS
<1>1. ASSUME NEW h \in Handler, HandlerNext(h)
      PROVE  Inv'
  <2>1. ASSUME NEW o \in Order, PlaceOrder(h, o) \/ Subscribe(h, o) \/ Pay(h, o)
        PROVE  Inv'
    BY <2>1, PlaceOrderInv, SubscribeInv, PayInv
  <2>2. ASSUME NEW p \in Payment, Webhook(h, p)
        PROVE  Inv'
    BY <2>2, WebhookInv
  <2>3. CASE CreatePayment(h) \/ CreateFails(h) \/ FetchPayment(h)
    BY <2>3, CreatePaymentInv, CreateFailsInv, FetchPaymentInv
  <2>4. CASE Record(h) \/ RecordFails(h) \/ CreationFailed(h) \/ HandlerStops(h)
    BY <2>4, RecordInv, StoppedInv, CreationFailedInv
  <2> QED BY <1>1, <2>1, <2>2, <2>3, <2>4 DEF HandlerNext
<1>2. CASE JobNext
  BY <1>2, JobScanInv, JobRecordInv, JobFlagInv, JobStopsInv, JobLookupInv,
     JobExpireInv DEF JobNext
<1>3. CASE OfficeNext
  BY <1>3, OfficeChangeInv, ProductEditorInv DEF OfficeNext
<1>4. CASE WorldNext
  BY <1>4, ProviderStepInv, ClockInv DEF WorldNext
<1>5. CASE UNCHANGED vars
  <2>1. TypeOK'
    BY <1>5 DEF Inv, TypeOK, vars, orderVars, shelfVars, providerVars
  <2>2. UNCHANGED <<orderVars, providerVars, task, job>>
    BY <1>5 DEF vars
  <2> QED BY <2>1, <2>2, ShelfStepInv
<1> QED BY <1>1, <1>2, <1>3, <1>4, <1>5 DEF Next

\* The state of every reachable checkout has its type, a provider answer that
\* is about to be recorded is one the provider gave for that order, and the
\* payment an order is bound to is its own.
THEOREM CheckoutInvariant == Spec => []Inv
BY InitInv, NextInv, PTL DEF Spec

\* Stocks never go below zero and every status is one of the code's
\* (commit's comparison of stock and quantity, apply, change_status).
THEOREM CheckoutTypes == Spec => []TypeOK
<1>1. Inv => TypeOK
  BY DEF Inv
<1> QED BY <1>1, CheckoutInvariant, PTL
=============================================================================
