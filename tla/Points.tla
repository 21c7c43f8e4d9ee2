------------------------------- MODULE Points -------------------------------
(***************************************************************************)
(* The points of the members: the ledger and its cached sum                *)
(* (modules/gamification/service.py), and everybody who writes to it: the  *)
(* service route, the office's credits, attendance of events               *)
(* (modules/events/routes.py), referrals and erasure (modules/members),    *)
(* and the monthly decay.                                                  *)
(*                                                                         *)
(* One database transaction is one action; add_in_transaction holds the    *)
(* row lock of the member from its first statement on.  What a request or  *)
(* a decay pass keeps between two transactions is in task and pass.        *)
(*                                                                         *)
(* The keys of the service differ from those the application makes.  An    *)
(* event that exists counts as published, whoever answers it as verified:  *)
(* both are read before the answer is written.                             *)
(***************************************************************************)
EXTENDS Integers, Sequences

CONSTANTS
  Member,
  Event,
  Clerk,        \* coroutines of the office: attend and patch_member
  Pass,         \* decay passes: the scheduled one and those of the service
  Nobody,
  NoKey,
  Never,        \* last_activity_at IS NULL
  Referrer,     \* Referrer[m]: who invited m, or Nobody
  ServiceKey,   \* idempotency keys of the points service
  Amount,       \* deltas of the office and of the service (a bound)
  EventPoints,  \* what events are worth (a bound)
  ReferralPoints,  \* points of the rule "referral"
  Day,          \* the days on which something happens (a bound)
  MonthOf,      \* MonthOf[d]: the month of day d
  MaxRows,      \* rows of a member's ledger that the office adds (a bound)
  MaxTickets    \* RSVPs of one member to one event, one after another (a bound)

ASSUME PointsAssumption ==
  /\ Nobody \notin Member /\ Never \notin Day
  /\ Referrer \in [Member -> Member \cup {Nobody}]
  /\ Amount \subseteq Int /\ EventPoints \subseteq Int /\ ReferralPoints \in Int
  /\ Day \subseteq Nat /\ 0 \in Day
  /\ MonthOf \in [Day -> Nat]
  /\ MaxRows \in Nat /\ MaxTickets \in Nat

VARIABLES
  clock,     \* today
  ledger,    \* points_ledger: the rows of each member, in order
  balance,   \* sum(delta) over the rows of each member
  cached,    \* alumni.points_cached
  activity,  \* alumni.last_activity_at
  erased,    \* members that anonymize has processed
  events,    \* events that exist
  rsvp,      \* event_rsvps: none, going or attended
  ticket,    \* which RSVP row of the pair it is
  task,      \* what each clerk's request is doing
  pass       \* what each decay pass is doing

pointVars == <<ledger, balance, cached, activity>>
eventVars == <<events, rsvp, ticket>>
vars == <<clock, pointVars, erased, eventVars, task, pass>>

InactiveDays == 30
DecayGap == 27

EventKey(e, m) == <<"event", e, m>>
ReferralKey(m) == <<"referral", m>>
DecayKey(m, month) == <<"decay", m, month>>
DecayKeys(m) == {DecayKey(m, MonthOf[d]) : d \in Day}
ServiceKeyOf(k) == <<"service", k>>
UsedKey ==
  {EventKey(e, m) : e \in Event, m \in Member}
  \cup {ReferralKey(m) : m \in Member} \cup {ServiceKeyOf(k) : k \in ServiceKey}
  \cup UNION {DecayKeys(m) : m \in Member}
Key == {NoKey} \cup UsedKey
Row == [reason : {"manual", "event", "referral", "decay"}, key : Key, day : Day]

ASSUME KeyAssumption == NoKey \notin UsedKey

NoTask == [step |-> "idle", member |-> Nobody, event |-> Nobody, ticket |-> 0]
NoPass == [now |-> Never, left |-> {}]

TypeOK ==
  /\ clock \in Day
  /\ ledger \in [Member -> Seq(Row)]
  /\ balance \in [Member -> Int] /\ cached \in [Member -> Int]
  /\ activity \in [Member -> Day \cup {Never}]
  /\ erased \subseteq Member
  /\ events \subseteq Event
  /\ rsvp \in [Event -> [Member -> {"none", "going", "attended"}]]
  /\ ticket \in [Event -> [Member -> Nat]]
  /\ task \in [Clerk -> [step : {"idle", "attend", "credit"},
                         member : Member \cup {Nobody},
                         event : Event \cup {Nobody}, ticket : Nat]]
  /\ pass \in [Pass -> [now : Day \cup {Never}, left : SUBSET Member]]
  /\ \A p \in Pass : pass[p].left = {} <=> pass[p] = NoPass

Init ==
  /\ clock = 0
  /\ ledger = [m \in Member |-> <<>>]
  /\ balance = [m \in Member |-> 0] /\ cached = [m \in Member |-> 0]
  /\ activity = [m \in Member |-> Never]
  /\ erased = {}
  /\ events = Event
  /\ rsvp = [e \in Event |-> [m \in Member |-> "none"]]
  /\ ticket = [e \in Event |-> [m \in Member |-> 0]]
  /\ task = [c \in Clerk |-> NoTask]
  /\ pass = [p \in Pass |-> NoPass]
-----------------------------------------------------------------------------
(* The ledger. *)

RowsOf(m) == {ledger[m][i] : i \in DOMAIN ledger[m]}

KeyUsed(key) == \E m \in Member : \E row \in RowsOf(m) : row.key = key

AppendRow(m, reason, key) ==
  ledger' = [ledger EXCEPT ![m] =
               Append(@, [reason |-> reason, key |-> key, day |-> clock])]

\* Mutant: recompute runs before the row is inserted.
InsertStale(m, delta, reason, key) ==
  /\ AppendRow(m, reason, key)
  /\ balance' = [balance EXCEPT ![m] = @ + delta]
  /\ cached' = [cached EXCEPT ![m] = balance[m]]
  /\ activity' = IF reason = "decay" THEN activity
                 ELSE [activity EXCEPT ![m] = clock]

\* The new row, its effect on last_activity_at and recompute.
Insert(m, delta, reason, key) ==
  /\ AppendRow(m, reason, key)
  /\ balance' = [balance EXCEPT ![m] = @ + delta]
  /\ cached' = [cached EXCEPT ![m] = balance[m] + delta]
  /\ activity' = IF reason = "decay" THEN activity
                 ELSE [activity EXCEPT ![m] = clock]

\* add_in_transaction: a key that has been used only brings the cache up to date.
Add(m, delta, reason, key) ==
  IF key # NoKey /\ KeyUsed(key)
  THEN /\ cached' = [cached EXCEPT ![m] = balance[m]]
       /\ UNCHANGED <<ledger, balance, activity>>
  ELSE Insert(m, delta, reason, key)

\* POST /points of the service, and the office's credit, which has no key and
\* is never called a decay.
GivePoints(m, delta, reason, key) ==
  /\ Len(ledger[m]) < MaxRows
  /\ Add(m, delta, reason, key)
  /\ UNCHANGED <<clock, erased, eventVars, task, pass>>

\* anonymize, for what it does to points: the cache is reset, the ledger stays.
Erase(m) ==
  /\ erased' = erased \cup {m}
  /\ cached' = [cached EXCEPT ![m] = 0]
  /\ UNCHANGED <<clock, ledger, balance, activity, eventVars, task, pass>>
-----------------------------------------------------------------------------
(* Attendance and referrals. *)

\* Mutant: an attended RSVP can be cancelled as well.
CancellableAttended(e, m) == rsvp[e][m] # "none"

Cancellable(e, m) == rsvp[e][m] = "going"

\* POST /events/{id}/rsvp answers the first time and cancels the second.
Rsvp(e, m) ==
  /\ e \in events
  /\ \/ /\ rsvp[e][m] = "none" /\ ticket[e][m] < MaxTickets
        /\ rsvp' = [rsvp EXCEPT ![e][m] = "going"]
        /\ ticket' = [ticket EXCEPT ![e][m] = @ + 1]
     \/ /\ Cancellable(e, m)
        /\ rsvp' = [rsvp EXCEPT ![e][m] = "none"]
        /\ UNCHANGED ticket
  /\ UNCHANGED <<clock, pointVars, erased, events, task, pass>>

\* DELETE /admin/events/{id}: the RSVPs go with their event.
DeleteEvent(e) ==
  /\ events' = events \ {e}
  /\ rsvp' = [rsvp EXCEPT ![e] = [m \in Member |-> "none"]]
  /\ UNCHANGED <<clock, pointVars, erased, ticket, task, pass>>

Finish(c) == task' = [task EXCEPT ![c] = NoTask]

\* attend up to its transaction: the row is read by its id, without a lock.
Attend(c, e, m) ==
  /\ task[c] = NoTask /\ rsvp[e][m] # "none"
  /\ task' = [task EXCEPT ![c] = [step |-> "attend", member |-> m, event |-> e,
                                  ticket |-> ticket[e][m]]]
  /\ UNCHANGED <<clock, pointVars, erased, eventVars, pass>>

\* The RSVP is there, and the same, when the transaction looks again.
StillGoing(t) ==
  rsvp[t.event][t.member] = "going" /\ ticket[t.event][t.member] = t.ticket

\* The transaction of attend.
AttendCommit(c) ==
  /\ task[c].step = "attend"
  /\ LET t == task[c] IN
     IF StillGoing(t)
     THEN /\ \E delta \in EventPoints :
               Add(t.member, delta, "event", EventKey(t.event, t.member))
          /\ rsvp' = [rsvp EXCEPT ![t.event][t.member] = "attended"]
     ELSE UNCHANGED <<pointVars, rsvp>>
  /\ Finish(c)
  /\ UNCHANGED <<clock, erased, events, ticket, pass>>

\* PATCH /admin/members/{id} up to the commit of the status "verified", which
\* the member may have had before.
Verify(c, m) ==
  /\ task[c] = NoTask /\ Referrer[m] # Nobody
  /\ task' = [task EXCEPT ![c] = [NoTask EXCEPT !.step = "credit", !.member = m]]
  /\ UNCHANGED <<clock, pointVars, erased, eventVars, pass>>

\* Its credit for the member's referrer.
CreditReferral(c) ==
  /\ task[c].step = "credit"
  /\ Add(Referrer[task[c].member], ReferralPoints, "referral",
         ReferralKey(task[c].member))
  /\ Finish(c)
  /\ UNCHANGED <<clock, erased, eventVars, pass>>

\* A crash or an exception between the steps of a request.
ClerkStops(c) ==
  /\ task[c] # NoTask
  /\ Finish(c)
  /\ UNCHANGED <<clock, pointVars, erased, eventVars, pass>>
-----------------------------------------------------------------------------
(* decay: a pass over a snapshot of the inactive members. *)

\* Mutant: activity is not looked at again under the lock.
StillInactiveTrusted(m, now) == TRUE

\* activity.  Never counts as inactive.
StillInactive(m, now) ==
  activity[m] # Never => activity[m] <= now - InactiveDays

DecayedRecently(m, now) ==
  \E row \in RowsOf(m) : row.reason = "decay" /\ now - row.day < DecayGap

NothingToTake(delta) == delta >= 0

\* decay_delta: 15 percent, rounded half up.
DecayDelta(points) == -(((IF points > 0 THEN points ELSE 0) * 15 + 50) \div 100)

DecayStart(p) ==
  /\ pass[p] = NoPass
  /\ \E m \in Member : StillInactive(m, clock)
  /\ pass' = [pass EXCEPT ![p] =
       [now |-> clock, left |-> {m \in Member : StillInactive(m, clock)}]]
  /\ UNCHANGED <<clock, pointVars, erased, eventVars, task>>

RowDone(p, m) ==
  LET rest == pass[p].left \ {m} IN
  pass' = [pass EXCEPT ![p] = IF rest = {} THEN NoPass
                              ELSE [now |-> pass[p].now, left |-> rest]]

\* The transaction of one row.
DecayRow(p, m) ==
  /\ m \in pass[p].left
  /\ LET now == pass[p].now
         delta == DecayDelta(balance[m]) IN
     IF \/ ~StillInactive(m, now)
        \/ DecayedRecently(m, now)
        \/ NothingToTake(delta)
     THEN UNCHANGED pointVars
     ELSE Add(m, delta, "decay", DecayKey(m, MonthOf[now]))
  /\ RowDone(p, m)
  /\ UNCHANGED <<clock, erased, eventVars, task>>

\* An exception in one row is logged and the pass goes on.
DecayRowFails(p, m) ==
  /\ m \in pass[p].left
  /\ RowDone(p, m)
  /\ UNCHANGED <<clock, pointVars, erased, eventVars, task>>

DecayStops(p) ==
  /\ pass[p] # NoPass
  /\ pass' = [pass EXCEPT ![p] = NoPass]
  /\ UNCHANGED <<clock, pointVars, erased, eventVars, task>>

Tick ==
  /\ \E d \in Day : d > clock /\ clock' = d
  /\ UNCHANGED <<pointVars, erased, eventVars, task, pass>>
-----------------------------------------------------------------------------
LedgerNext ==
  \E m \in Member :
    \/ \E delta \in Amount, reason \in {"manual", "decay"},
          key \in {NoKey} \cup {ServiceKeyOf(k) : k \in ServiceKey} :
         GivePoints(m, delta, reason, key)
    \/ Erase(m)

EventNext ==
  \E e \in Event :
    \/ DeleteEvent(e)
    \/ \E m \in Member : Rsvp(e, m) \/ \E c \in Clerk : Attend(c, e, m)

ClerkNext ==
  \E c \in Clerk :
    \/ AttendCommit(c) \/ CreditReferral(c) \/ ClerkStops(c)
    \/ \E m \in Member : Verify(c, m)

PassNext ==
  \E p \in Pass :
    \/ DecayStart(p) \/ DecayStops(p)
    \/ \E m \in Member : DecayRow(p, m) \/ DecayRowFails(p, m)

Next == LedgerNext \/ EventNext \/ ClerkNext \/ PassNext \/ Tick

Spec == Init /\ [][Next]_vars
-----------------------------------------------------------------------------
(* Properties. *)

\* A key is credited once, whichever members, clerks and passes use it again
\* (the lock and the lookup of add_in_transaction).
OneRowPerKey ==
  \A m, n \in Member : \A i \in DOMAIN ledger[m], j \in DOMAIN ledger[n] :
    ledger[m][i].key = ledger[n][j].key /\ ledger[m][i].key # NoKey =>
      m = n /\ i = j

\* Of the RSVPs of an event that exists, exactly the attended ones have brought
\* points, though attend reads the row before it locks it and members cancel
\* and answer again meanwhile.
AttendedIffCredited ==
  \A e \in events, m \in Member :
    rsvp[e][m] = "attended" <=>
      \E row \in RowsOf(m) : row.key = EventKey(e, m)

\* No credit comes twice, and attendance is credited exactly where it stands.
CreditsAreDue == OneRowPerKey /\ AttendedIffCredited

\* points_cached is the sum of the ledger, for everybody who was not erased.
CacheFollowsLedger ==
  \A m \in Member :
    cached[m] = balance[m] \/ (m \in erased /\ cached[m] = 0)

\* No pass lets a member decay within DecayGap days of a decay before, by a pass
\* or by the service, also when passes overlap each other or the month's end.
DecaysApart ==
  \A m \in Member : \A i, j \in DOMAIN ledger[m] :
    i < j /\ ledger[m][i].reason = "decay" /\ ledger[m][j].key \in DecayKeys(m) =>
      ledger[m][j].day - ledger[m][i].day >= DecayGap

\* Whoever was active in the last InactiveDays days does not decay, also when
\* the activity came after the pass had selected its members (the second look at
\* last_activity_at, under the lock of the row).
ActiveMembersSpared ==
  \A m \in Member : \A i, j \in DOMAIN ledger[m] :
    i < j /\ ledger[m][i].reason # "decay" /\ ledger[m][j].key \in DecayKeys(m) =>
      ledger[m][j].day - ledger[m][i].day >= InactiveDays

\* A pass leaves a member less than before and something: it never overdraws,
\* though the office may have put the sum below zero in the meantime.
DecayLeavesSome ==
  [][\A m \in Member :
       Len(ledger'[m]) > Len(ledger[m])
       /\ ledger'[m][Len(ledger'[m])].key \in DecayKeys(m) =>
         0 < balance'[m] /\ balance'[m] < balance[m]]_vars

\* Members decay neither twice in DecayGap days, nor while they are active, nor
\* below nothing, though passes overlap credits, each other and the end of a month.
DecayIsFair == [](DecaysApart /\ ActiveMembersSpared) /\ DecayLeavesSome
=============================================================================
