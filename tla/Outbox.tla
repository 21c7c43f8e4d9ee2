------------------------------- MODULE Outbox -------------------------------
(***************************************************************************)
(* The mail outbox (modules/notifications/mail.py): requests that queue    *)
(* and send a message, passes of drain_mail over what is pending, and the  *)
(* erasure of a user, who must get no confirmation mail after it.          *)
(*                                                                         *)
(* A message leaves in the middle of the transaction that records it, so a *)
(* transaction takes three steps here: it begins with its locks and looks, *)
(* it sends, it records and commits.  The locks of a user's mail and of    *)
(* the row are those of whoever is between the first and the last.         *)
(***************************************************************************)
EXTENDS Integers, FiniteSets

CONSTANTS
  Mail,         \* ids of the rows
  User,
  None,         \* nobody
  Owner,        \* Owner[m]: whose confirmation m is; None: mail of another kind
  Unnamed,      \* confirmations of the old system: owner_user_id IS NULL
  Request,      \* coroutines that queue mail
  Drain,        \* passes of drain_mail that may run at a time
  MaxAttempts,  \* MAIL_OUTBOX_MAX_ATTEMPTS
  Limit,        \* rows a pass reads
  MaxStops      \* how often processes stop in the middle (a bound)

ASSUME OutboxAssumption ==
  /\ Mail \subseteq Nat /\ IsFiniteSet(Mail)
  /\ None \notin User
  /\ Owner \in [Mail -> User \cup {None}]
  /\ Unnamed \subseteq {m \in Mail : Owner[m] # None}
  /\ Request \cap Drain = {}
  /\ MaxAttempts \in Nat \ {0} /\ Limit \in Nat \ {0} /\ MaxStops \in Nat

VARIABLES
  row,        \* status of each row; "inserted": not committed yet
  attempts,
  due,        \* rows with next_attempt_at <= now()
  erased,     \* users who have been erased
  delivered,  \* messages the mail server has accepted, once or more
  task,       \* what each request and pass is doing
  left,       \* rows a pass has read and not yet come to
  stops       \* how often a process has stopped

vars == <<row, attempts, due, erased, delivered, task, left, stops>>

Process == Request \cup Drain

Idle == [step |-> "idle"]
Task ==
  {Idle}
  \cup [step : {"found"}, mail : Mail, owner : User \cup {None}]
  \cup [step : {"sending", "direct"}, mail : Mail]
  \cup [step : {"record"}, mail : Mail, sent : BOOLEAN]

TypeOK ==
  /\ row \in [Mail -> {"absent", "inserted", "pending", "sent", "failed", "gone"}]
  /\ attempts \in [Mail -> 0..MaxAttempts]
  /\ due \subseteq Mail /\ erased \subseteq User /\ delivered \subseteq Mail
  /\ task \in [Process -> Task]
  /\ left \in [Drain -> SUBSET Mail]
  /\ stops \in 0..MaxStops
  /\ \A m \in Mail : row[m] = "failed" => attempts[m] = MaxAttempts
  /\ \A m \in Mail : row[m] = "sent" => m \in delivered

Init ==
  /\ row = [m \in Mail |-> IF m \in Unnamed THEN "pending" ELSE "absent"]
  /\ attempts = [m \in Mail |-> 0]
  /\ due = Mail
  /\ erased = {} /\ delivered = {}
  /\ task = [p \in Process |-> Idle]
  /\ left = [d \in Drain |-> {}]
  /\ stops = 0
-----------------------------------------------------------------------------
(* Transactions that send. *)

InTransaction(p, m) == task[p].step \in {"sending", "record"} /\ task[p].mail = m

\* The row is locked by FOR UPDATE, or by its insertion.
RowLocked(m) == \E p \in Process : InTransaction(p, m)

\* mail_user_lock.
UserLocked(u) == \E m \in Mail : Owner[m] = u /\ RowLocked(m)

Become(p, t) == task' = [task EXCEPT ![p] = t]

Sending(m) == [step |-> "sending", mail |-> m]

\* Mutant: whether the owner is still there is not looked up under the lock.
MayEnqueueUnseen(m) == Owner[m] # None => ~UserLocked(Owner[m])

MayEnqueue(m) ==
  Owner[m] # None => ~UserLocked(Owner[m]) /\ Owner[m] \notin erased

\* enqueue_mail or enqueue_confirmation, up to the message.
Enqueue(h, m) ==
  /\ task[h] = Idle /\ row[m] = "absent" /\ MayEnqueue(m)
  /\ row' = [row EXCEPT ![m] = "inserted"]
  /\ Become(h, Sending(m))
  /\ UNCHANGED <<attempts, due, erased, delivered, left, stops>>

\* The row cannot be inserted: enqueue_mail sends without one.
EnqueueFails(h, m) ==
  /\ task[h] = Idle /\ row[m] = "absent" /\ Owner[m] = None
  /\ row' = [row EXCEPT ![m] = "gone"]
  /\ Become(h, [step |-> "direct", mail |-> m])
  /\ UNCHANGED <<attempts, due, erased, delivered, left, stops>>

\* send_email, which turns every failure into FALSE.
Send(p) ==
  /\ task[p].step \in {"sending", "direct"}
  /\ LET m == task[p].mail IN
     \E sent \in BOOLEAN :
       /\ delivered' = IF sent THEN delivered \cup {m} ELSE delivered
       /\ IF task[p].step = "direct" THEN Become(p, Idle)
          ELSE Become(p, [step |-> "record", mail |-> m, sent |-> sent])
  /\ UNCHANGED <<row, attempts, due, erased, left, stops>>

\* Mutant: attempts are not counted.
CountedNever(m) == attempts[m]

Counted(m) == attempts[m] + 1

Outcome(m, sent) ==
  IF sent THEN "sent" ELSE IF Counted(m) >= MaxAttempts THEN "failed" ELSE "pending"

\* record_delivery and the commit.
Record(p) ==
  /\ task[p].step = "record"
  /\ LET m == task[p].mail
         result == Outcome(m, task[p].sent) IN
     /\ row' = [row EXCEPT ![m] = result]
     /\ attempts' = [attempts EXCEPT ![m] = Counted(m)]
     /\ due' = IF result = "pending" THEN due \ {m} ELSE due
  /\ Become(p, Idle)
  /\ UNCHANGED <<erased, delivered, left, stops>>

\* A crash, or a statement that fails: the transaction is rolled back, and a pass
\* ends with it.
Abort(p) ==
  /\ task[p] # Idle /\ stops < MaxStops /\ stops' = stops + 1
  /\ row' = [m \in Mail |->
       IF InTransaction(p, m) /\ row[m] = "inserted" THEN "gone" ELSE row[m]]
  /\ Become(p, Idle)
  /\ left' = [d \in Drain |-> IF d = p THEN {} ELSE left[d]]
  /\ UNCHANGED <<attempts, due, erased, delivered>>
-----------------------------------------------------------------------------
(* Passes over the outbox. *)

Ready == {m \in due : row[m] = "pending"}

\* ORDER BY id LIMIT.
Batch == {m \in Ready : Cardinality({n \in Ready : n < m}) < Limit}

Scan(d) ==
  /\ task[d] = Idle /\ left[d] = {} /\ Ready # {}
  /\ left' = [left EXCEPT ![d] = Batch]
  /\ UNCHANGED <<row, attempts, due, erased, delivered, task, stops>>

Alive(u) == u # None /\ u \notin erased

\* The next row, and whose it is: of a row without owner_user_id, the user who
\* has that address now.
Find(d) ==
  /\ task[d] = Idle
  /\ \E m \in left[d] :
       /\ \A n \in left[d] : m <= n
       /\ Become(d, [step |-> "found", mail |-> m, owner |->
            IF m \in Unnamed /\ ~Alive(Owner[m]) THEN None ELSE Owner[m]])
       /\ left' = [left EXCEPT ![d] = @ \ {m}]
  /\ UNCHANGED <<row, attempts, due, erased, delivered, stops>>

\* Mutant: the row is sent as it was when the pass read it.
CurrentTrusted(m) == TRUE

Current(m) == row[m] = "pending" /\ m \in due

MayBegin(d) ==
  /\ ~RowLocked(task[d].mail)
  /\ task[d].owner # None => ~UserLocked(task[d].owner)

\* The locks, and the second look at the row and its owner.
Begin(d) ==
  /\ task[d].step = "found" /\ MayBegin(d)
  /\ LET m == task[d].mail IN
     \/ /\ ~Current(m)
        /\ Become(d, Idle) /\ UNCHANGED row
     \/ /\ Current(m) /\ Owner[m] # None /\ ~Alive(task[d].owner)
        /\ row' = [row EXCEPT ![m] = "gone"]
        /\ Become(d, Idle)
     \/ /\ Current(m) /\ (Owner[m] # None => Alive(task[d].owner))
        /\ Become(d, Sending(m)) /\ UNCHANGED row
  /\ UNCHANGED <<attempts, due, erased, delivered, left, stops>>

\* next_attempt_at arrives.
Wait(m) ==
  /\ row[m] = "pending" /\ m \notin due
  /\ due' = due \cup {m}
  /\ UNCHANGED <<row, attempts, erased, delivered, task, left, stops>>
-----------------------------------------------------------------------------
(* Erasure. *)

Cancelled(u) == {m \in Mail : Owner[m] = u}

\* anonymize, under the lock of the user's mail.
Erase(u) ==
  /\ u \notin erased /\ ~UserLocked(u)
  /\ erased' = erased \cup {u}
  /\ row' = [m \in Mail |->
       IF m \in Cancelled(u) /\ row[m] # "absent" THEN "gone" ELSE row[m]]
  /\ UNCHANGED <<attempts, due, delivered, task, left, stops>>
-----------------------------------------------------------------------------
Next ==
  \/ \E h \in Request, m \in Mail : Enqueue(h, m) \/ EnqueueFails(h, m)
  \/ \E p \in Process : Send(p) \/ Record(p) \/ Abort(p)
  \/ \E d \in Drain : Scan(d) \/ Find(d) \/ Begin(d)
  \/ \E m \in Mail : Wait(m)
  \/ \E u \in User : Erase(u)

Spec == Init /\ [][Next]_vars

\* The job runs every five minutes, time passes, and what has begun goes on: it
\* stops only so often.  The locks are given up by whoever has them.
Fairness ==
  /\ \A m \in Mail : WF_vars(Wait(m))
  /\ \A p \in Process : WF_vars(Send(p) \/ Record(p))
  /\ \A d \in Drain : WF_vars(Scan(d) \/ Find(d) \/ Begin(d))

FairSpec == Spec /\ Fairness
-----------------------------------------------------------------------------
(* Properties. *)

\* A message is in the hands of one process at a time, and of none any more once
\* it has been recorded as sent or failed (FOR UPDATE and the second look).
OneSender ==
  \A p \in Process, m \in Mail : InTransaction(p, m) =>
    /\ row[m] \in {"inserted", "pending"}
    /\ \A q \in Process \ {p} : ~InTransaction(q, m)

\* No confirmation leaves for somebody who has been erased, though the pass read
\* the row before (mail_user_lock).
ConfirmsTheLiving ==
  \A p \in Process, m \in Mail :
    InTransaction(p, m) /\ Owner[m] # None => Owner[m] \notin erased

\* Erasure leaves no confirmation with its address and link behind, and none is
\* queued after it (anonymize, enqueue_confirmation).
ErasedGetNothing ==
  \A m \in Mail :
    Owner[m] \in erased => row[m] \in {"absent", "gone"}

\* Confirmations of the erased neither leave, nor stay, nor come, whatever a request
\* or a pass has read before the erasure (mail_user_lock, anonymize).
ErasedAreLeftAlone == ConfirmsTheLiving /\ ErasedGetNothing

\* What is pending does not stay so: it is sent, it fails after MaxAttempts, or
\* it is cancelled, whatever the mail server answers and wherever passes stop; so
\* that nothing is pending once requests queue nothing new.
MailIsSettled == <>[](\A m \in Mail : row[m] # "pending")
=============================================================================
