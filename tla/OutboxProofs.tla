---------------------------- MODULE OutboxProofs ----------------------------
(***************************************************************************)
(* Proofs about Outbox, for any mail, users, requests and passes.          *)
(*                                                                         *)
(* Inv adds to TypeOK and OneSender that attempts remain for what has not  *)
(* been settled and a message reported as sent was accepted (Honest), and  *)
(* that a pass has found the owner of the row or nobody (Finders).         *)
(***************************************************************************)
EXTENDS Outbox, TLAPS

Honest ==
  /\ \A m \in Mail : row[m] \in {"absent", "inserted", "pending"} =>
       attempts[m] < MaxAttempts
  /\ \A p \in Process : task[p].step = "record" /\ task[p].sent =>
       task[p].mail \in delivered

Finders ==
  \A p \in Process : task[p].step = "found" =>
    task[p].owner \in {None, Owner[task[p].mail]}

Inv == TypeOK /\ OneSender /\ Honest /\ Finders /\ ConfirmsTheLiving
         /\ ErasedGetNothing
-----------------------------------------------------------------------------
LEMMA TaskTypes ==
  ASSUME TypeOK, NEW p \in Process
  PROVE  /\ task[p] \in Task
         /\ task[p].step \in {"found", "sending", "direct", "record"} =>
              task[p].mail \in Mail
         /\ task[p].step = "found" => task[p].owner \in User \cup {None}
         /\ task[p].step = "record" => task[p].sent \in BOOLEAN
<1>1. task[p] \in Task
  BY DEF TypeOK
<1> QED
  BY <1>1 DEF Task, Idle

\* Who has become what.
LEMMA Becoming ==
  ASSUME TypeOK, NEW p \in Process, NEW t \in Task, Become(p, t)
  PROVE  /\ task' \in [Process -> Task]
         /\ task'[p] = t
         /\ \A q \in Process \ {p} : task'[q] = task[q]
BY DEF TypeOK, Become

LEMMA InvInit == Init => Inv
BY OutboxAssumption
DEF Init, Inv, TypeOK, OneSender, Honest, Finders, ConfirmsTheLiving,
    ErasedGetNothing, InTransaction, Idle, Task

\* A step is one of these.
LEMMA Steps ==
  ASSUME [Next]_vars
  PROVE  \/ \E h \in Request, m \in Mail : Enqueue(h, m) \/ EnqueueFails(h, m)
         \/ \E p \in Process : Send(p) \/ Record(p) \/ Abort(p)
         \/ \E d \in Drain : Scan(d) \/ Find(d) \/ Begin(d)
         \/ \E m \in Mail : Wait(m)
         \/ \E u \in User : Erase(u)
         \/ UNCHANGED vars
BY DEF Next

LEMMA TypeStep ==
  ASSUME Inv, [Next]_vars
  PROVE  TypeOK'
<1> USE OutboxAssumption
<1>0. TypeOK /\ Request \subseteq Process /\ Drain \subseteq Process
  BY DEF Inv, Process
<1>1. ASSUME NEW h \in Request, NEW m \in Mail, Enqueue(h, m) PROVE TypeOK'
  <2>1. Sending(m) \in Task
    BY DEF Sending, Task
  <2> QED
    BY <1>0, <1>1, <2>1, Becoming DEF TypeOK, Enqueue
<1>2. ASSUME NEW h \in Request, NEW m \in Mail, EnqueueFails(h, m) PROVE TypeOK'
  <2>1. [step |-> "direct", mail |-> m] \in Task
    BY DEF Task
  <2> QED
    BY <1>0, <1>2, <2>1, Becoming DEF TypeOK, EnqueueFails
<1>3. ASSUME NEW p \in Process, Send(p) PROVE TypeOK'
  <2> DEFINE m == task[p].mail
  <2>1. m \in Mail
    BY <1>0, <1>3, TaskTypes DEF Send
  <2>2. PICK sent \in BOOLEAN :
          /\ delivered' = IF sent THEN delivered \cup {m} ELSE delivered
          /\ \/ Become(p, Idle)
             \/ Become(p, [step |-> "record", mail |-> m, sent |-> sent])
    BY <1>3 DEF Send
  <2>3. Idle \in Task /\ [step |-> "record", mail |-> m, sent |-> sent] \in Task
    BY <2>1 DEF Task
  <2>4. task' \in [Process -> Task]
    BY <1>0, <2>2, <2>3, Becoming
  <2>5. delivered' \subseteq Mail /\ delivered \subseteq delivered'
    BY <1>0, <2>1, <2>2 DEF TypeOK
  <2> QED
    BY <1>0, <1>3, <2>4, <2>5 DEF TypeOK, Send
<1>4. ASSUME NEW p \in Process, Record(p) PROVE TypeOK'
  <2> DEFINE m == task[p].mail
             sent == task[p].sent
  <2>1. m \in Mail /\ sent \in BOOLEAN /\ InTransaction(p, m)
    BY <1>0, <1>4, TaskTypes DEF Record, InTransaction
  <2>2. attempts[m] \in Nat /\ attempts[m] < MaxAttempts
        /\ (sent => m \in delivered)
    <3>1. row[m] \in {"inserted", "pending"}
      BY <2>1 DEF Inv, OneSender
    <3>2. attempts[m] < MaxAttempts
      BY <2>1, <3>1 DEF Inv, Honest
    <3>3. attempts[m] \in Nat
      <4>1. attempts[m] \in 0..MaxAttempts
        BY <1>0, <2>1 DEF TypeOK
      <4> QED
        BY <4>1
    <3>4. sent => m \in delivered
      <4>1. task[p].step = "record"
        BY <1>4 DEF Record
      <4>2. task[p].step = "record" /\ task[p].sent => task[p].mail \in delivered
        BY Zenon DEF Inv, Honest
      <4> QED
        BY <4>1, <4>2, Zenon
    <3> QED
      BY <3>2, <3>3, <3>4
  <2>3. Counted(m) \in 0..MaxAttempts
    BY <2>2 DEF Counted
  <2>4. Outcome(m, sent) \in {"sent", "failed", "pending"}
    BY DEF Outcome
  <2>5. /\ Outcome(m, sent) = "sent" => m \in delivered
        /\ Outcome(m, sent) = "failed" => Counted(m) = MaxAttempts
    BY <2>2, <2>3 DEF Outcome
  <2>6. task' \in [Process -> Task]
    BY <1>0, <1>4, Becoming, Idle \in Task DEF Record, Task
  <2>7. /\ row' = [row EXCEPT ![m] = Outcome(m, sent)]
        /\ attempts' = [attempts EXCEPT ![m] = Counted(m)]
        /\ due' \subseteq due
        /\ UNCHANGED <<erased, delivered, left, stops>>
    BY <1>4 DEF Record
  <2> QED
    BY <1>0, <2>1, <2>3, <2>4, <2>5, <2>6, <2>7 DEF TypeOK
<1>5. ASSUME NEW p \in Process, Abort(p) PROVE TypeOK'
  <2>1. task' \in [Process -> Task]
    BY <1>0, <1>5, Becoming, Idle \in Task DEF Abort, Task
  <2> QED
    BY <1>0, <1>5, <2>1 DEF TypeOK, Abort
<1>6. ASSUME NEW d \in Drain, Scan(d) PROVE TypeOK'
  BY <1>0, <1>6 DEF TypeOK, Scan, Batch, Ready
<1>7. ASSUME NEW d \in Drain, Find(d) PROVE TypeOK'
  <2>1. PICK m \in left[d] :
          /\ Become(d, [step |-> "found", mail |-> m, owner |->
               IF m \in Unnamed /\ ~Alive(Owner[m]) THEN None ELSE Owner[m]])
          /\ left' = [left EXCEPT ![d] = @ \ {m}]
    BY <1>7 DEF Find
  <2>2. m \in Mail
    BY <1>0 DEF TypeOK
  <2>3. [step |-> "found", mail |-> m, owner |->
          IF m \in Unnamed /\ ~Alive(Owner[m]) THEN None ELSE Owner[m]] \in Task
    BY <2>2 DEF Task
  <2>4. task' \in [Process -> Task]
    BY <1>0, <2>1, <2>3, Becoming
  <2> QED
    BY <1>0, <1>7, <2>1, <2>4 DEF TypeOK, Find
<1>8. ASSUME NEW d \in Drain, Begin(d) PROVE TypeOK'
  <2>1. task[d].mail \in Mail
    BY <1>0, <1>8, TaskTypes DEF Begin
  <2>2. Idle \in Task /\ Sending(task[d].mail) \in Task
    BY <2>1 DEF Task, Sending
  <2>3. task' \in [Process -> Task]
    BY <1>0, <1>8, <2>2, Becoming DEF Begin
  <2> QED
    BY <1>0, <1>8, <2>3 DEF TypeOK, Begin
<1>9. ASSUME NEW m \in Mail, Wait(m) PROVE TypeOK'
  BY <1>0, <1>9 DEF TypeOK, Wait
<1>10. ASSUME NEW u \in User, Erase(u) PROVE TypeOK'
  BY <1>0, <1>10 DEF TypeOK, Erase
<1>11. CASE UNCHANGED vars
  BY <1>0, <1>11 DEF TypeOK, vars
<1> QED
  BY <1>1, <1>2, <1>3, <1>4, <1>5, <1>6, <1>7, <1>8, <1>9, <1>10, <1>11, Steps
-----------------------------------------------------------------------------
(* Transactions that send. *)

\* p begins to send m: nobody has the row or its owner's mail, and the owner is
\* there.
Starts(p, m) ==
  /\ ~RowLocked(m)
  /\ row'[m] \in {"inserted", "pending"}
  /\ Owner[m] # None => ~UserLocked(Owner[m]) /\ Owner[m] \notin erased
  /\ erased' = erased
  /\ \A q \in Process \ {p} : task'[q] = task[q]

\* p goes on with m, whose row nobody touches.
Keeps(p, m) == InTransaction(p, m) /\ row'[m] = row[m]

LEMMA TxStep ==
  ASSUME Inv, [Next]_vars, NEW p \in Process, NEW m \in Mail, InTransaction(p, m)'
  PROVE  Starts(p, m) \/ Keeps(p, m)
<1> USE OutboxAssumption
<1>0. /\ TypeOK /\ OneSender /\ Finders
      /\ Request \subseteq Process /\ Drain \subseteq Process
  BY DEF Inv, Process
<1>a. /\ task'[p].step \in {"sending", "record"} /\ task'[p].mail = m
      /\ task'[p] # Idle
  BY DEF InTransaction, Idle
<1>b. task'[p] = task[p] => InTransaction(p, m)
  BY <1>a DEF InTransaction
<1>c. InTransaction(p, m) => row[m] \in {"inserted", "pending"} /\ RowLocked(m)
  BY <1>0 DEF OneSender, RowLocked
<1>1. ASSUME NEW h \in Request, NEW n \in Mail, Enqueue(h, n)
      PROVE  Starts(p, m) \/ Keeps(p, m)
  <2>1. Sending(n) \in Task
    BY DEF Sending, Task
  <2>2. task'[h] = Sending(n) /\ \A q \in Process \ {h} : task'[q] = task[q]
    BY <1>0, <1>1, <2>1, Becoming DEF Enqueue
  <2>3. row[n] = "absent" /\ row' = [row EXCEPT ![n] = "inserted"]
        /\ MayEnqueue(n) /\ erased' = erased
    BY <1>1 DEF Enqueue
  <2>4. CASE p = h
    <3>1. m = n
      BY <1>a, <2>2, <2>4 DEF Sending
    <3>2. ~RowLocked(n)
      BY <1>0, <2>3 DEF OneSender, RowLocked
    <3> QED
      BY <1>0, <2>2, <2>3, <2>4, <3>1, <3>2 DEF Starts, MayEnqueue, TypeOK
  <2>5. CASE p # h
    BY <1>0, <1>b, <1>c, <2>2, <2>3, <2>5 DEF Keeps, TypeOK
  <2> QED
    BY <2>4, <2>5
<1>2. ASSUME NEW h \in Request, NEW n \in Mail, EnqueueFails(h, n)
      PROVE  Starts(p, m) \/ Keeps(p, m)
  <2>1. [step |-> "direct", mail |-> n] \in Task
    BY DEF Task
  <2>2. task'[h] = [step |-> "direct", mail |-> n]
        /\ \A q \in Process \ {h} : task'[q] = task[q]
    BY <1>0, <1>2, <2>1, Becoming DEF EnqueueFails
  <2>3. p # h
    BY <1>a, <2>2
  <2> QED
    BY <1>0, <1>2, <1>b, <1>c, <2>2, <2>3 DEF EnqueueFails, Keeps, TypeOK
<1>3. ASSUME NEW o \in Process, Send(o) PROVE Starts(p, m) \/ Keeps(p, m)
  <2>1. row' = row
    BY <1>3 DEF Send
  <2>2. PICK sent \in BOOLEAN :
          IF task[o].step = "direct" THEN Become(o, Idle)
          ELSE Become(o, [step |-> "record", mail |-> task[o].mail, sent |-> sent])
    BY <1>3 DEF Send
  <2>3. task[o].mail \in Mail
    BY <1>0, <1>3, TaskTypes DEF Send
  <2>4. Idle \in Task
        /\ [step |-> "record", mail |-> task[o].mail, sent |-> sent] \in Task
    BY <2>3 DEF Task
  <2>5. CASE p = o
    <3>1. task[o].step # "direct"
      BY <1>0, <1>a, <2>2, <2>4, <2>5, Becoming
    <3>2. task'[o] = [step |-> "record", mail |-> task[o].mail, sent |-> sent]
      BY <1>0, <2>2, <2>4, <3>1, Becoming
    <3>3. task[o].mail = m /\ task[o].step = "sending"
      BY <1>3, <1>a, <2>5, <3>1, <3>2 DEF Send
    <3> QED
      BY <2>1, <2>5, <3>3 DEF Keeps, InTransaction
  <2>6. CASE p # o
    <3>1. task'[p] = task[p]
      BY <1>0, <2>2, <2>4, <2>6, Becoming
    <3> QED
      BY <1>b, <2>1, <3>1 DEF Keeps
  <2> QED
    BY <2>5, <2>6
<1>4. ASSUME NEW o \in Process, Record(o) PROVE Starts(p, m) \/ Keeps(p, m)
  <2>1. task'[o] = Idle /\ \A q \in Process \ {o} : task'[q] = task[q]
    BY <1>0, <1>4, Becoming, Idle \in Task DEF Record, Task
  <2>2. p # o /\ InTransaction(p, m)
    BY <1>a, <1>b, <2>1
  <2>3. InTransaction(o, task[o].mail)
    BY <1>4 DEF Record, InTransaction
  <2>4. m # task[o].mail
    BY <1>0, <2>2, <2>3 DEF OneSender
  <2> QED
    BY <1>0, <1>4, <2>2, <2>4 DEF Record, Keeps, TypeOK
<1>5. ASSUME NEW o \in Process, Abort(o) PROVE Starts(p, m) \/ Keeps(p, m)
  <2>1. task'[o] = Idle /\ \A q \in Process \ {o} : task'[q] = task[q]
    BY <1>0, <1>5, Becoming, Idle \in Task DEF Abort, Task
  <2>2. p # o /\ InTransaction(p, m)
    BY <1>a, <1>b, <2>1
  <2>3. ~InTransaction(o, m)
    BY <1>0, <2>2 DEF OneSender
  <2> QED
    BY <1>5, <2>2, <2>3 DEF Abort, Keeps
<1>6. ASSUME NEW d \in Drain, Scan(d) PROVE Starts(p, m) \/ Keeps(p, m)
  BY <1>6, <1>b DEF Scan, Keeps
<1>7. ASSUME NEW d \in Drain, Find(d) PROVE Starts(p, m) \/ Keeps(p, m)
  <2>1. PICK n \in left[d] : Become(d, [step |-> "found", mail |-> n, owner |->
               IF n \in Unnamed /\ ~Alive(Owner[n]) THEN None ELSE Owner[n]])
    BY <1>7 DEF Find
  <2>2. n \in Mail
    BY <1>0 DEF TypeOK
  <2>3. [step |-> "found", mail |-> n, owner |->
          IF n \in Unnamed /\ ~Alive(Owner[n]) THEN None ELSE Owner[n]] \in Task
    BY <2>2 DEF Task
  <2>4. task'[d].step = "found" /\ \A q \in Process \ {d} : task'[q] = task[q]
    BY <1>0, <2>1, <2>3, Becoming
  <2>5. task'[p] = task[p]
    BY <1>a, <2>4
  <2> QED
    BY <1>7, <1>b, <2>5 DEF Find, Keeps
<1>8. ASSUME NEW d \in Drain, Begin(d) PROVE Starts(p, m) \/ Keeps(p, m)
  <2>1. PICK n \in Mail : n = task[d].mail
    BY <1>0, <1>8, TaskTypes DEF Begin
  <2>2. Idle \in Task /\ Sending(n) \in Task
    BY DEF Task, Sending
  <2>3. ~RowLocked(n) /\ (task[d].owner # None => ~UserLocked(task[d].owner))
    BY <1>8, <2>1 DEF Begin, MayBegin
  <2>4. CASE p # d
    <3>1. task'[p] = task[p]
      BY <1>0, <1>8, <2>1, <2>2, <2>4, Becoming DEF Begin
    <3>2. InTransaction(p, m) /\ m # n
      BY <1>b, <1>c, <2>3, <3>1
    <3>3. row'[m] = row[m]
      BY <1>0, <1>8, <2>1, <3>2 DEF Begin, TypeOK
    <3> QED
      BY <3>2, <3>3 DEF Keeps
  <2>5. CASE p = d
    <3>1. ~Become(d, Idle)
      BY <1>0, <1>a, <2>2, <2>5, Becoming
    <3>2. /\ Current(n) /\ (Owner[n] # None => Alive(task[d].owner))
          /\ Become(d, Sending(n)) /\ row' = row /\ erased' = erased
      BY <1>8, <2>1, <3>1 DEF Begin
    <3>3. /\ task'[d] = Sending(n) /\ \A q \in Process \ {d} : task'[q] = task[q]
      BY <1>0, <2>2, <3>2, Becoming
    <3>4. m = n
      BY <1>a, <2>5, <3>3 DEF Sending
    <3>5. Owner[n] # None => task[d].owner = Owner[n] /\ Owner[n] \notin erased
      BY <1>0, <1>8, <2>1, <3>2 DEF Begin, Alive, Finders
    <3> QED
      BY <2>3, <2>5, <3>2, <3>3, <3>4, <3>5 DEF Starts, Current
  <2> QED
    BY <2>4, <2>5
<1>9. ASSUME NEW n \in Mail, Wait(n) PROVE Starts(p, m) \/ Keeps(p, m)
  BY <1>9, <1>b DEF Wait, Keeps
<1>10. ASSUME NEW u \in User, Erase(u) PROVE Starts(p, m) \/ Keeps(p, m)
  <2>1. InTransaction(p, m)
    BY <1>10, <1>b DEF Erase
  <2>2. m \notin Cancelled(u)
    BY <1>10, <1>c, <2>1 DEF Erase, UserLocked, Cancelled
  <2> QED
    BY <1>10, <2>1, <2>2 DEF Erase, Keeps
<1>11. CASE UNCHANGED vars
  BY <1>11, <1>b DEF vars, Keeps
<1> QED
  BY <1>1, <1>2, <1>3, <1>4, <1>5, <1>6, <1>7, <1>8, <1>9, <1>10, <1>11, Steps

LEMMA OneSenderStep ==
  ASSUME Inv, [Next]_vars
  PROVE  OneSender'
<1> SUFFICES ASSUME NEW p \in Process, NEW m \in Mail, InTransaction(p, m)'
             PROVE  /\ row'[m] \in {"inserted", "pending"}
                    /\ \A q \in Process \ {p} : ~InTransaction(q, m)'
  BY DEF OneSender
<1>0. OneSender
  BY DEF Inv
<1>1. CASE Starts(p, m)
  BY <1>1 DEF Starts, RowLocked, InTransaction
<1>2. CASE Keeps(p, m)
  <2>1. ASSUME NEW q \in Process \ {p}, InTransaction(q, m)' PROVE FALSE
    <3>1. Starts(q, m) \/ Keeps(q, m)
      BY <2>1, TxStep
    <3> QED
      BY <1>0, <1>2, <3>1 DEF Starts, Keeps, RowLocked, OneSender
  <2> QED
    BY <1>0, <1>2, <2>1 DEF Keeps, OneSender
<1> QED
  BY <1>1, <1>2, TxStep

\* Erasure keeps clear of the mail in somebody's hands.
LEMMA ErasedStep ==
  ASSUME Inv, [Next]_vars
  PROVE  \/ erased' = erased
         \/ \E u \in User : Erase(u)
<1> QED
  BY Steps DEF Enqueue, EnqueueFails, Send, Record, Abort, Scan, Find, Begin, Wait,
               vars

LEMMA ConfirmsTheLivingStep ==
  ASSUME Inv, [Next]_vars
  PROVE  ConfirmsTheLiving'
<1> SUFFICES ASSUME NEW p \in Process, NEW m \in Mail, InTransaction(p, m)',
                    Owner[m] # None
             PROVE  Owner[m] \notin erased'
  BY DEF ConfirmsTheLiving
<1>1. CASE Starts(p, m)
  BY <1>1 DEF Starts
<1>2. CASE Keeps(p, m)
  <2>1. Owner[m] \notin erased
    BY <1>2 DEF Inv, ConfirmsTheLiving, Keeps
  <2>2. UserLocked(Owner[m])
    BY <1>2 DEF Keeps, UserLocked, RowLocked
  <2>3. ASSUME NEW u \in User, Erase(u) PROVE Owner[m] \notin erased'
    BY <2>1, <2>2, <2>3 DEF Erase
  <2> QED
    BY <2>1, <2>3, ErasedStep
<1> QED
  BY <1>1, <1>2, TxStep

\* What may become of a row.
LEMMA RowStep ==
  ASSUME Inv, [Next]_vars, NEW m \in Mail
  PROVE  \/ row'[m] \in {row[m], "gone"}
         \/ row[m] = "absent" /\ row'[m] = "inserted" /\ MayEnqueue(m)
         \/ row[m] \in {"inserted", "pending"} /\ \E p \in Process : Record(p)
<1>0. TypeOK /\ OneSender /\ Request \subseteq Process /\ Drain \subseteq Process
  BY DEF Inv, Process
<1> DEFINE Goal == \/ row'[m] \in {row[m], "gone"}
                   \/ row[m] = "absent" /\ row'[m] = "inserted" /\ MayEnqueue(m)
                   \/ /\ row[m] \in {"inserted", "pending"}
                      /\ \E p \in Process : Record(p)
<1>1. ASSUME NEW h \in Request, NEW n \in Mail, Enqueue(h, n) \/ EnqueueFails(h, n)
      PROVE  Goal
  BY <1>0, <1>1 DEF Enqueue, EnqueueFails, TypeOK
<1>2. ASSUME NEW p \in Process, Send(p) PROVE Goal
  BY <1>2 DEF Send
<1>3. ASSUME NEW p \in Process, Record(p) PROVE Goal
  <2>1. InTransaction(p, task[p].mail) /\ task[p].mail \in Mail
    BY <1>0, <1>3, TaskTypes DEF Record, InTransaction
  <2>2. CASE m = task[p].mail
    BY <1>0, <1>3, <2>1, <2>2 DEF OneSender
  <2>3. CASE m # task[p].mail
    BY <1>0, <1>3, <2>3 DEF Record, TypeOK
  <2> QED
    BY <2>2, <2>3
<1>4. ASSUME NEW p \in Process, Abort(p) PROVE Goal
  BY <1>4 DEF Abort
<1>5. ASSUME NEW d \in Drain, Scan(d) \/ Find(d) PROVE Goal
  BY <1>5 DEF Scan, Find
<1>6. ASSUME NEW d \in Drain, Begin(d) PROVE Goal
  BY <1>0, <1>6 DEF Begin, TypeOK
<1>7. ASSUME NEW n \in Mail, Wait(n) PROVE Goal
  BY <1>7 DEF Wait
<1>8. ASSUME NEW u \in User, Erase(u) PROVE Goal
  BY <1>8 DEF Erase
<1>9. CASE UNCHANGED vars
  BY <1>9 DEF vars
<1> QED
  BY <1>1, <1>2, <1>3, <1>4, <1>5, <1>6, <1>7, <1>8, <1>9, Steps

LEMMA ErasedGetNothingStep ==
  ASSUME Inv, [Next]_vars
  PROVE  ErasedGetNothing'
<1> SUFFICES ASSUME NEW m \in Mail, Owner[m] \in erased'
             PROVE  row'[m] \in {"absent", "gone"}
  BY DEF ErasedGetNothing
<1>1. CASE Owner[m] \in erased
  <2>1. row[m] \in {"absent", "gone"}
    BY <1>1 DEF Inv, ErasedGetNothing
  <2>2. ~MayEnqueue(m)
    BY <1>1, OutboxAssumption DEF Inv, TypeOK, MayEnqueue
  <2> QED
    BY <2>1, <2>2, RowStep
<1>2. CASE Owner[m] \notin erased
  <2>1. PICK u \in User : Erase(u)
    BY <1>2, ErasedStep
  <2>2. m \in Cancelled(u)
    BY <1>2, <2>1 DEF Erase, Cancelled
  <2> QED
    BY <2>1, <2>2 DEF Erase
<1> QED
  BY <1>1, <1>2

\* Attempts remain for what is not settled.
LEMMA AttemptsStep ==
  ASSUME Inv, [Next]_vars, NEW m \in Mail,
         row'[m] \in {"absent", "inserted", "pending"}
  PROVE  attempts'[m] < MaxAttempts
<1>0. TypeOK /\ Request \subseteq Process /\ Drain \subseteq Process
  BY DEF Inv, Process
<1>1. row[m] \in {"absent", "inserted", "pending"} => attempts[m] < MaxAttempts
  BY DEF Inv, Honest
<1>2. ASSUME NEW p \in Process, Record(p) PROVE attempts'[m] < MaxAttempts
  <2>1. task[p].mail \in Mail
    BY <1>0, <1>2, TaskTypes DEF Record
  <2>2. CASE m = task[p].mail
    <3>1. /\ row'[m] = Outcome(m, task[p].sent)
          /\ attempts'[m] = Counted(m)
      BY <1>0, <1>2, <2>1, <2>2 DEF Record, TypeOK
    <3>2. ~(Counted(m) >= MaxAttempts)
      BY <3>1 DEF Outcome
    <3>3. Counted(m) \in Int
      BY <1>0, OutboxAssumption DEF Counted, TypeOK
    <3> QED
      BY <3>1, <3>2, <3>3, OutboxAssumption
  <2>3. CASE m # task[p].mail
    BY <1>0, <1>1, <1>2, <2>3 DEF Record, TypeOK
  <2> QED
    BY <2>2, <2>3
<1>3. CASE attempts' = attempts
  BY <1>1, <1>3, RowStep, <1>2
<1> QED
  BY <1>2, <1>3, Steps
  DEF Enqueue, EnqueueFails, Send, Abort, Scan, Find, Begin, Wait, Erase, vars

LEMMA HonestStep ==
  ASSUME Inv, [Next]_vars
  PROVE  Honest'
<1> USE OutboxAssumption
<1>0. TypeOK /\ Request \subseteq Process /\ Drain \subseteq Process
  BY DEF Inv, Process
<1> DEFINE H(p) == task[p].step = "record" /\ task[p].sent =>
                     task[p].mail \in delivered
<1>a. \A p \in Process : H(p)
  BY Zenon DEF Inv, Honest
<1>b. ASSUME NEW p \in Process, NEW t \in Task, Become(p, t),
             t.step # "record", delivered' = delivered
      PROVE  \A q \in Process : H(q)'
  <2>1. task'[p] = t /\ \A q \in Process \ {p} : task'[q] = task[q]
    BY <1>0, <1>b, Becoming
  <2> QED
    BY <1>a, <1>b, <2>1, Zenon
<1>c. Idle \in Task /\ Idle.step # "record"
  BY DEF Task, Idle
<1>d. ASSUME NEW n \in Mail
      PROVE  Sending(n) \in Task /\ Sending(n).step # "record"
  BY DEF Task, Sending
<1>1. ASSUME NEW h \in Request, NEW n \in Mail, Enqueue(h, n)
      PROVE  \A q \in Process : H(q)'
  <2>1. Become(h, Sending(n)) /\ delivered' = delivered
    BY <1>1 DEF Enqueue
  <2> HIDE DEF H
  <2> QED
    BY <1>0, <1>b, <1>d, <2>1
<1>2. ASSUME NEW h \in Request, NEW n \in Mail, EnqueueFails(h, n)
      PROVE  \A q \in Process : H(q)'
  <2>1. Become(h, [step |-> "direct", mail |-> n]) /\ delivered' = delivered
    BY <1>2 DEF EnqueueFails
  <2>2. /\ [step |-> "direct", mail |-> n] \in Task
        /\ [step |-> "direct", mail |-> n].step # "record"
    BY DEF Task
  <2> HIDE DEF H
  <2> QED
    BY <1>0, <1>b, <2>1, <2>2
<1>3. ASSUME NEW p \in Process, Send(p) PROVE \A q \in Process : H(q)'
  <2>1. PICK sent \in BOOLEAN :
          /\ delivered' = IF sent THEN delivered \cup {task[p].mail} ELSE delivered
          /\ \/ Become(p, Idle)
             \/ Become(p, [step |-> "record", mail |-> task[p].mail, sent |-> sent])
    BY <1>3 DEF Send
  <2>2. task[p].mail \in Mail
    BY <1>0, <1>3, TaskTypes DEF Send
  <2>3. [step |-> "record", mail |-> task[p].mail, sent |-> sent] \in Task
    BY <2>2 DEF Task
  <2>4. delivered \subseteq delivered' /\ (sent => task[p].mail \in delivered')
    BY <2>1
  <2>5. /\ \A q \in Process \ {p} : task'[q] = task[q]
        /\ \/ task'[p] = Idle
           \/ task'[p] = [step |-> "record", mail |-> task[p].mail, sent |-> sent]
    BY <1>0, <1>c, <2>1, <2>3, Becoming
  <2>6. H(p)'
    BY <1>c, <2>4, <2>5
  <2>7. ASSUME NEW q \in Process \ {p} PROVE H(q)'
    <3>1. task'[q] = task[q] /\ H(q)
      BY <1>a, <2>5, <2>7, Zenon
    <3> QED
      BY <2>4, <3>1, Zenon
  <2> HIDE DEF H
  <2> QED
    BY <2>6, <2>7
<1>4. ASSUME NEW p \in Process, Record(p) \/ Abort(p)
      PROVE  \A q \in Process : H(q)'
  <2>1. Become(p, Idle) /\ delivered' = delivered
    BY <1>4 DEF Record, Abort
  <2> HIDE DEF H
  <2> QED
    BY <1>b, <1>c, <2>1
<1>5. ASSUME NEW d \in Drain, Find(d) PROVE \A q \in Process : H(q)'
  <2>1. PICK n \in left[d] : Become(d, [step |-> "found", mail |-> n, owner |->
               IF n \in Unnamed /\ ~Alive(Owner[n]) THEN None ELSE Owner[n]])
    BY <1>5 DEF Find
  <2>2. n \in Mail
    BY <1>0 DEF TypeOK
  <2> DEFINE t == [step |-> "found", mail |-> n, owner |->
               IF n \in Unnamed /\ ~Alive(Owner[n]) THEN None ELSE Owner[n]]
  <2>3. t \in Task /\ t.step # "record"
    BY <2>2 DEF Task
  <2>4. Become(d, t) /\ delivered' = delivered
    BY <1>5, <2>1 DEF Find
  <2> HIDE DEF H, t
  <2> QED
    BY <1>0, <1>b, <2>3, <2>4
<1>6. ASSUME NEW d \in Drain, Begin(d) PROVE \A q \in Process : H(q)'
  <2>1. PICK n \in Mail : n = task[d].mail
    BY <1>0, <1>6, TaskTypes DEF Begin
  <2>2. (Become(d, Idle) \/ Become(d, Sending(n))) /\ delivered' = delivered
    BY <1>6, <2>1 DEF Begin
  <2> HIDE DEF H
  <2> QED
    BY <1>0, <1>b, <1>c, <1>d, <2>2
<1>7. ASSUME task' = task, delivered' = delivered
      PROVE  \A q \in Process : H(q)'
  BY <1>a, <1>7, Zenon
<1>8. ASSUME NEW d \in Drain, Scan(d) PROVE task' = task /\ delivered' = delivered
  BY <1>8 DEF Scan
<1>9. ASSUME NEW n \in Mail, Wait(n) PROVE task' = task /\ delivered' = delivered
  BY <1>9 DEF Wait
<1>10. ASSUME NEW u \in User, Erase(u) PROVE task' = task /\ delivered' = delivered
  BY <1>10 DEF Erase
<1>11. UNCHANGED vars => task' = task /\ delivered' = delivered
  BY DEF vars
<1>12. \A q \in Process : H(q)'
  <2> HIDE DEF H
  <2> QED
    BY <1>1, <1>2, <1>3, <1>4, <1>5, <1>6, <1>7, <1>8, <1>9, <1>10, <1>11, Steps
<1>13. \A m \in Mail : row'[m] \in {"absent", "inserted", "pending"} =>
         attempts'[m] < MaxAttempts
  BY AttemptsStep
<1> QED
  BY <1>12, <1>13, Zenon DEF Honest

LEMMA FindersStep ==
  ASSUME Inv, [Next]_vars
  PROVE  Finders'
<1> USE OutboxAssumption
<1>0. TypeOK /\ Finders /\ Request \subseteq Process /\ Drain \subseteq Process
  BY DEF Inv, Process
<1>1. ASSUME NEW p \in Process, NEW t \in Task, Become(p, t),
             t.step = "found" => t.owner \in {None, Owner[t.mail]}
      PROVE  Finders'
  BY <1>0, <1>1, Becoming DEF Finders
<1>2. Idle \in Task /\ Idle.step # "found"
  BY DEF Task, Idle
<1>3. ASSUME NEW n \in Mail
      PROVE  Sending(n) \in Task /\ Sending(n).step # "found"
  BY DEF Task, Sending
<1>4. ASSUME NEW h \in Request, NEW n \in Mail, Enqueue(h, n) \/ EnqueueFails(h, n)
      PROVE  Finders'
  <2>1. Become(h, Sending(n)) \/ Become(h, [step |-> "direct", mail |-> n])
    BY <1>4 DEF Enqueue, EnqueueFails
  <2>2. /\ [step |-> "direct", mail |-> n] \in Task
        /\ [step |-> "direct", mail |-> n].step # "found"
    BY DEF Task
  <2> QED
    BY <1>0, <1>1, <1>3, <2>1, <2>2
<1>5. ASSUME NEW p \in Process, Send(p) PROVE Finders'
  <2>1. PICK sent \in BOOLEAN :
          \/ Become(p, Idle)
          \/ Become(p, [step |-> "record", mail |-> task[p].mail, sent |-> sent])
    BY <1>5 DEF Send
  <2>2. task[p].mail \in Mail
    BY <1>0, <1>5, TaskTypes DEF Send
  <2> DEFINE t == [step |-> "record", mail |-> task[p].mail, sent |-> sent]
  <2>3. t \in Task /\ t.step # "found"
    BY <2>2 DEF Task
  <2> HIDE DEF t
  <2>4. Become(p, Idle) \/ Become(p, t)
    BY <2>1 DEF t
  <2> QED
    BY <1>1, <1>2, <2>3, <2>4
<1>6. ASSUME NEW p \in Process, Record(p) \/ Abort(p) PROVE Finders'
  <2>1. Become(p, Idle)
    BY <1>6 DEF Record, Abort
  <2> QED
    BY <1>1, <1>2, <2>1
<1>7. ASSUME NEW d \in Drain, Find(d) PROVE Finders'
  <2>1. PICK n \in left[d] : Become(d, [step |-> "found", mail |-> n, owner |->
               IF n \in Unnamed /\ ~Alive(Owner[n]) THEN None ELSE Owner[n]])
    BY <1>7 DEF Find
  <2>2. n \in Mail
    BY <1>0 DEF TypeOK
  <2> DEFINE t == [step |-> "found", mail |-> n, owner |->
               IF n \in Unnamed /\ ~Alive(Owner[n]) THEN None ELSE Owner[n]]
  <2>3. t \in Task /\ t.owner \in {None, Owner[t.mail]}
    BY <2>2 DEF Task
  <2>4. Become(d, t)
    BY <2>1
  <2> HIDE DEF t
  <2> QED
    BY <1>0, <1>1, <2>3, <2>4
<1>8. ASSUME NEW d \in Drain, Begin(d) PROVE Finders'
  <2>1. PICK n \in Mail : n = task[d].mail
    BY <1>0, <1>8, TaskTypes DEF Begin
  <2>2. Become(d, Idle) \/ Become(d, Sending(n))
    BY <1>8, <2>1 DEF Begin
  <2> QED
    BY <1>0, <1>1, <1>2, <1>3, <2>2
<1>9. CASE task' = task
  BY <1>0, <1>9, Zenon DEF Finders
<1>10. (\E d \in Drain : Scan(d)) \/ (\E n \in Mail : Wait(n))
       \/ (\E u \in User : Erase(u)) \/ UNCHANGED vars => task' = task
  BY DEF Scan, Wait, Erase, vars
<1> QED
  BY <1>4, <1>5, <1>6, <1>7, <1>8, <1>9, <1>10, Steps
-----------------------------------------------------------------------------
LEMMA InvStep == Inv /\ [Next]_vars => Inv'
<1> SUFFICES ASSUME Inv, [Next]_vars PROVE Inv'
  OBVIOUS
<1> QED
  BY TypeStep, OneSenderStep, HonestStep, FindersStep, ConfirmsTheLivingStep,
     ErasedGetNothingStep
  DEF Inv

\* The invariant holds whatever mail there is and however many passes run.
THEOREM Invariance == Spec => []Inv
BY InvInit, InvStep, PTL DEF Spec

\* A failed row has had all its attempts, a sent one was accepted.
THEOREM TypeCorrect == Spec => []TypeOK
<1>1. Inv => TypeOK
  BY DEF Inv
<1> QED
  BY <1>1, Invariance, PTL

\* The row's lock and the second look at it keep a message with one sender.
THEOREM OneSenderAtATime == Spec => []OneSender
<1>1. Inv => OneSender
  BY DEF Inv
<1> QED
  BY <1>1, Invariance, PTL

\* No pass and no request sends a confirmation to a user who has been erased.
THEOREM OnlyTheLivingAreWritten == Spec => []ConfirmsTheLiving
<1>1. Inv => ConfirmsTheLiving
  BY DEF Inv
<1> QED
  BY <1>1, Invariance, PTL

\* Nothing of an erased user's confirmations stays in the outbox or comes to it.
THEOREM NothingForTheErased == Spec => []ErasedGetNothing
<1>1. Inv => ErasedGetNothing
  BY DEF Inv
<1> QED
  BY <1>1, Invariance, PTL

\* After the erasure no confirmation leaves, none stays and none comes.
THEOREM TheErasedAreLeftAlone == Spec => []ErasedAreLeftAlone
<1>1. Inv => ErasedAreLeftAlone
  BY DEF Inv, ErasedAreLeftAlone
<1> QED
  BY <1>1, Invariance, PTL
=============================================================================
