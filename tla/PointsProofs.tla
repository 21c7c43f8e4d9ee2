---------------------------- MODULE PointsProofs ----------------------------
(***************************************************************************)
(* Proofs about Points, for all members, events, clerks, passes and days.  *)
(*                                                                         *)
(* Inv adds to TypeOK whom the clerks' requests are about (Tasks), that a  *)
(* pass and the last activity are of the past, no row but a decay's being  *)
(* younger than last_activity_at (Clocks), and whose rows carry an event's *)
(* key (OwnEvents).                                                        *)
(***************************************************************************)
EXTENDS Points, SequenceTheorems, TLAPS

Tasks ==
  \A c \in Clerk :
    /\ task[c].step = "attend" => task[c].member \in Member /\ task[c].event \in Event
    /\ task[c].step = "credit" =>
         task[c].member \in Member /\ Referrer[task[c].member] \in Member

Clocks ==
  /\ \A p \in Pass : pass[p].left # {} => pass[p].now \in Day /\ pass[p].now <= clock
  /\ \A m \in Member : activity[m] \in Day => activity[m] <= clock
  /\ \A m \in Member : \A i \in DOMAIN ledger[m] :
       ledger[m][i].reason # "decay" =>
         activity[m] \in Day /\ ledger[m][i].day <= activity[m]

OwnEvents ==
  \A m, n \in Member : \A e \in Event : \A row \in RowsOf(m) :
    row.key = EventKey(e, n) => m = n

Inv == TypeOK /\ Tasks /\ Clocks /\ OwnEvents
-----------------------------------------------------------------------------
(* Keys. *)

LEMMA EventKeyOf ==
  ASSUME NEW e, NEW m, NEW f, NEW n, EventKey(e, m) = EventKey(f, n)
  PROVE  e = f /\ m = n
BY DEF EventKey

LEMMA EventKeyUsed ==
  ASSUME NEW e \in Event, NEW m \in Member
  PROVE  /\ EventKey(e, m) \in Key /\ EventKey(e, m) # NoKey
         /\ \A n \in Member : EventKey(e, m) \notin DecayKeys(n)
<1>1. EventKey(e, m) \in UsedKey
  BY DEF UsedKey
<1> QED
  BY <1>1, KeyAssumption DEF Key, DecayKeys, DecayKey, EventKey

LEMMA ReferralKeyUsed ==
  ASSUME NEW m \in Member
  PROVE  /\ ReferralKey(m) \in Key /\ ReferralKey(m) # NoKey
         /\ \A n \in Member : ReferralKey(m) \notin DecayKeys(n)
         /\ \A e \in Event, n \in Member : ReferralKey(m) # EventKey(e, n)
<1>1. ReferralKey(m) \in UsedKey
  BY DEF UsedKey
<1> QED
  BY <1>1, KeyAssumption DEF Key, DecayKeys, DecayKey, ReferralKey, EventKey

LEMMA ServiceKeyUsed ==
  ASSUME NEW k \in ServiceKey
  PROVE  /\ ServiceKeyOf(k) \in Key /\ ServiceKeyOf(k) # NoKey
         /\ \A n \in Member : ServiceKeyOf(k) \notin DecayKeys(n)
         /\ \A e \in Event, n \in Member : ServiceKeyOf(k) # EventKey(e, n)
<1>1. ServiceKeyOf(k) \in UsedKey
  BY DEF UsedKey
<1> QED
  BY <1>1, KeyAssumption DEF Key, DecayKeys, DecayKey, ServiceKeyOf, EventKey

LEMMA DecayKeyUsed ==
  ASSUME NEW m \in Member, NEW d \in Day
  PROVE  /\ DecayKey(m, MonthOf[d]) \in DecayKeys(m)
         /\ DecayKey(m, MonthOf[d]) \in Key /\ DecayKey(m, MonthOf[d]) # NoKey
         /\ \A e \in Event, n \in Member : DecayKey(m, MonthOf[d]) # EventKey(e, n)
<1>1. DecayKey(m, MonthOf[d]) \in DecayKeys(m)
  BY DEF DecayKeys
<1>2. DecayKey(m, MonthOf[d]) \in UsedKey
  BY <1>1 DEF UsedKey
<1> QED
  BY <1>1, <1>2, KeyAssumption DEF Key, DecayKey, EventKey

LEMMA NoKeyUnused ==
  /\ NoKey \in Key
  /\ \A n \in Member : NoKey \notin DecayKeys(n)
  /\ \A e \in Event, n \in Member : NoKey # EventKey(e, n)
<1>1. \A n \in Member : NoKey \notin DecayKeys(n)
  BY KeyAssumption DEF UsedKey
<1> QED
  BY <1>1, EventKeyUsed DEF Key
-----------------------------------------------------------------------------
(* What a step does to the ledger. *)

\* The row of the office, the service or a referral; its key, if any, is new.
Credited(m, delta, reason, key) ==
  /\ Insert(m, delta, reason, key)
  /\ key = NoKey \/ ~KeyUsed(key)
  /\ key \in Key /\ key \notin DecayKeys(m)
  /\ \A e \in Event, n \in Member : key # EventKey(e, n)

\* The transaction of attend.
Attended(m, e, delta) ==
  /\ rsvp[e][m] = "going" /\ rsvp' = [rsvp EXCEPT ![e][m] = "attended"]
  /\ Add(m, delta, "event", EventKey(e, m))
  /\ UNCHANGED <<events, erased>>

\* The row of a decay pass that began at now.
Decayed(m, now) ==
  /\ Insert(m, DecayDelta(balance[m]), "decay", DecayKey(m, MonthOf[now]))
  /\ ~KeyUsed(DecayKey(m, MonthOf[now]))
  /\ StillInactive(m, now) /\ ~DecayedRecently(m, now)
  /\ ~NothingToTake(DecayDelta(balance[m]))
  /\ now <= clock

\* No row; the cache is left, brought up to date or reset with the profile.
Kept ==
  /\ UNCHANGED <<ledger, balance, activity>>
  /\ \/ UNCHANGED cached
     \/ \E m \in Member : cached' = [cached EXCEPT ![m] = balance[m]]
     \/ \E m \in Member : cached' = [cached EXCEPT ![m] = 0] /\ m \in erased'

LedgerStep ==
  \/ Kept
  \/ \E m \in Member, delta \in Int, key \in Key,
        reason \in {"manual", "referral", "decay"} : Credited(m, delta, reason, key)
  \/ \E m \in Member, now \in Day : Decayed(m, now)

\* The RSVPs of the events that remain are as attended as before.
AttendanceKept ==
  /\ events' \subseteq events /\ erased \subseteq erased'
  /\ \A e \in events', m \in Member :
       rsvp'[e][m] = "attended" <=> rsvp[e][m] = "attended"

LEMMA Adding ==
  ASSUME NEW m \in Member, NEW delta, NEW reason, NEW key \in Key,
         Add(m, delta, reason, key), key \notin DecayKeys(m),
         \A e \in Event, n \in Member : key # EventKey(e, n)
  PROVE  Kept \/ Credited(m, delta, reason, key)
BY DEF Add, Kept, Credited

\* AttendanceKept, action by action.
LEMMA AttendanceSteps ==
  ASSUME TypeOK, [Next]_vars
  PROVE  AttendanceKept \/ \E c \in Clerk : AttendCommit(c) /\ StillGoing(task[c])
<1>1. CASE UNCHANGED <<events, rsvp>> /\ erased \subseteq erased'
  BY <1>1 DEF AttendanceKept
<1>2. ASSUME NEW e \in Event, DeleteEvent(e)
      PROVE  AttendanceKept
  BY <1>2 DEF DeleteEvent, AttendanceKept, TypeOK
<1>3. ASSUME NEW e \in Event, NEW m \in Member, Rsvp(e, m)
      PROVE  AttendanceKept
  <2>1. rsvp[e][m] # "attended" /\ \E v \in {"none", "going"} :
          rsvp' = [rsvp EXCEPT ![e][m] = v]
    BY <1>3 DEF Rsvp, Cancellable
  <2>2. \A f \in Event, n \in Member :
          rsvp'[f][n] = "attended" <=> rsvp[f][n] = "attended"
    BY <2>1 DEF TypeOK
  <2> QED
    BY <1>3, <2>2 DEF Rsvp, AttendanceKept, TypeOK
<1>4. LedgerNext \/ PassNext \/ Tick \/ UNCHANGED vars =>
        UNCHANGED <<events, rsvp>> /\ erased \subseteq erased'
  BY DEF LedgerNext, GivePoints, Erase, PassNext, DecayStart, DecayStops, DecayRow,
         DecayRowFails, Tick, vars, eventVars
<1>5. \A c \in Clerk, e \in Event, m \in Member :
        Attend(c, e, m) \/ CreditReferral(c) \/ ClerkStops(c) \/ Verify(c, m) =>
          UNCHANGED <<events, rsvp>> /\ erased \subseteq erased'
  BY DEF Attend, CreditReferral, ClerkStops, Verify, eventVars
<1>6. \A c \in Clerk : AttendCommit(c) /\ ~StillGoing(task[c]) =>
        UNCHANGED <<events, rsvp>> /\ erased \subseteq erased'
  BY DEF AttendCommit
<1>7. CASE EventNext
  BY <1>1, <1>2, <1>3, <1>5, <1>7 DEF EventNext
<1>8. CASE ClerkNext
  <2>1. \A c \in Clerk : CreditReferral(c) \/ ClerkStops(c) =>
          UNCHANGED <<events, rsvp>> /\ erased \subseteq erased'
    BY DEF CreditReferral, ClerkStops, eventVars
  <2>2. \A c \in Clerk, m \in Member : Verify(c, m) =>
          UNCHANGED <<events, rsvp>> /\ erased \subseteq erased'
    BY DEF Verify, eventVars
  <2> QED
    BY <1>1, <1>6, <1>8, <2>1, <2>2 DEF ClerkNext
<1> QED
  BY <1>1, <1>4, <1>7, <1>8 DEF Next

LEMMA LedgerSteps ==
  ASSUME Inv, [Next]_vars
  PROVE  \/ LedgerStep /\ AttendanceKept
         \/ \E m \in Member, e \in Event, delta \in Int : Attended(m, e, delta)
<1> USE DEF Inv
<1>1. ASSUME NEW m \in Member, NEW delta \in Amount, NEW reason \in {"manual", "decay"},
             NEW key \in {NoKey} \cup {ServiceKeyOf(k) : k \in ServiceKey},
             GivePoints(m, delta, reason, key)
      PROVE  LedgerStep
  <2>1. /\ key \in Key /\ key \notin DecayKeys(m)
        /\ \A e \in Event, n \in Member : key # EventKey(e, n)
    BY NoKeyUnused, ServiceKeyUsed
  <2>2. Kept \/ Credited(m, delta, reason, key)
    BY <1>1, <2>1, Adding DEF GivePoints
  <2> QED
    BY <2>1, <2>2, PointsAssumption DEF LedgerStep, PointsAssumption
<1>2. ASSUME NEW m \in Member, Erase(m)
      PROVE  LedgerStep
  BY <1>2 DEF Erase, Kept, LedgerStep
<1>3. ASSUME NEW c \in Clerk, CreditReferral(c)
      PROVE  LedgerStep
  <2> DEFINE n == task[c].member
  <2>1. n \in Member /\ Referrer[n] \in Member
    BY <1>3 DEF CreditReferral, Tasks
  <2>2. /\ ReferralKey(n) \in Key /\ ReferralKey(n) \notin DecayKeys(Referrer[n])
        /\ \A e \in Event, k \in Member : ReferralKey(n) # EventKey(e, k)
    BY <2>1, ReferralKeyUsed
  <2>3. Kept \/ Credited(Referrer[n], ReferralPoints, "referral", ReferralKey(n))
    BY <1>3, <2>1, <2>2, Adding DEF CreditReferral
  <2> QED
    BY <2>1, <2>2, <2>3, PointsAssumption DEF LedgerStep, PointsAssumption
<1>4. ASSUME NEW p \in Pass, NEW m \in Member, DecayRow(p, m)
      PROVE  LedgerStep
  <2> DEFINE now == pass[p].now
  <2>1. now \in Day /\ now <= clock
    BY <1>4 DEF DecayRow, Clocks
  <2>2. DecayKey(m, MonthOf[now]) # NoKey
    BY <2>1, DecayKeyUsed, Zenon
  <2>3. Kept \/ Decayed(m, now)
    BY <1>4, <2>1, <2>2 DEF DecayRow, Add, Kept, Decayed, pointVars
  <2> QED
    BY <2>1, <2>3 DEF LedgerStep
<1>5. UNCHANGED pointVars => LedgerStep
  BY DEF pointVars, Kept, LedgerStep
<1>6. ASSUME NEW c \in Clerk, AttendCommit(c), StillGoing(task[c])
      PROVE  \E m \in Member, e \in Event, delta \in Int : Attended(m, e, delta)
  <2> DEFINE t == task[c]
  <2>1. t.member \in Member /\ t.event \in Event
    BY <1>6 DEF AttendCommit, Tasks
  <2>2. PICK delta \in EventPoints :
           Add(t.member, delta, "event", EventKey(t.event, t.member))
    BY <1>6 DEF AttendCommit
  <2>3. Attended(t.member, t.event, delta)
    BY <1>6, <2>2 DEF AttendCommit, StillGoing, Attended
  <2> QED
    BY <2>1, <2>3, PointsAssumption DEF PointsAssumption
<1>7. ASSUME NEW c \in Clerk, AttendCommit(c), ~StillGoing(task[c])
      PROVE  UNCHANGED pointVars
  BY <1>7 DEF AttendCommit
<1>8. EventNext => UNCHANGED pointVars
  BY DEF EventNext, DeleteEvent, Rsvp, Attend
<1>9. ASSUME NEW c \in Clerk, ClerkStops(c) \/ \E m \in Member : Verify(c, m)
      PROVE  UNCHANGED pointVars
  BY <1>9 DEF ClerkStops, Verify
<1>10. ASSUME NEW p \in Pass,
              DecayStart(p) \/ DecayStops(p) \/ \E m \in Member : DecayRowFails(p, m)
       PROVE  UNCHANGED pointVars
  BY <1>10 DEF DecayStart, DecayStops, DecayRowFails
<1>11. Tick \/ UNCHANGED vars => UNCHANGED pointVars
  BY DEF Tick, vars
<1>12. LedgerNext => LedgerStep
  BY <1>1, <1>2, Zenon DEF LedgerNext
<1>13. PassNext => LedgerStep
  BY <1>4, <1>5, <1>10 DEF PassNext
<1>14. ClerkNext =>
         LedgerStep \/ \E c \in Clerk : AttendCommit(c) /\ StillGoing(task[c])
  BY <1>3, <1>5, <1>7, <1>9 DEF ClerkNext
<1> QED
  BY <1>5, <1>6, <1>8, <1>11, <1>12, <1>13, <1>14, AttendanceSteps DEF Next
-----------------------------------------------------------------------------
(* What a new row leaves of the ledger. *)

\* m has one more row, the others have theirs.
Longer(m, row) ==
  /\ \A n \in Member : DOMAIN ledger[n] = 1..Len(ledger[n]) /\ Len(ledger[n]) \in Nat
  /\ \A n \in Member \ {m} : ledger'[n] = ledger[n]
  /\ DOMAIN ledger'[m] = 1..(Len(ledger[m]) + 1)
  /\ Len(ledger'[m]) = Len(ledger[m]) + 1
  /\ \A i \in DOMAIN ledger[m] : ledger'[m][i] = ledger[m][i]
  /\ ledger'[m][Len(ledger[m]) + 1] = row

LEMMA InsertedRow ==
  ASSUME TypeOK, NEW m \in Member, NEW delta, NEW reason, NEW key,
         Insert(m, delta, reason, key)
  PROVE  Longer(m, [reason |-> reason, key |-> key, day |-> clock])
<1> DEFINE new == [reason |-> reason, key |-> key, day |-> clock]
<1>1. ledger \in [Member -> Seq(Row)] /\ ledger' = [ledger EXCEPT ![m] = Append(@, new)]
  BY DEF TypeOK, Insert, AppendRow
<1>2. ledger'[m] = Append(ledger[m], new)
  BY <1>1
<1>3. ledger[m] \in Seq(Row)
  BY <1>1
<1> HIDE DEF new
<1>4. /\ DOMAIN Append(ledger[m], new) = 1..(Len(ledger[m]) + 1)
      /\ Len(Append(ledger[m], new)) = Len(ledger[m]) + 1
      /\ \A i \in 1..Len(ledger[m]) : Append(ledger[m], new)[i] = ledger[m][i]
      /\ Append(ledger[m], new)[Len(ledger[m]) + 1] = new
  BY <1>3
<1>5. \A n \in Member : DOMAIN ledger[n] = 1..Len(ledger[n]) /\ Len(ledger[n]) \in Nat
  BY <1>1
<1> QED
  BY <1>1, <1>2, <1>4, <1>5 DEF new, Longer

\* A key nobody has used stays single.
LEMMA FreshKey ==
  ASSUME TypeOK, OneRowPerKey, NEW m \in Member, NEW delta, NEW reason, NEW key,
         Insert(m, delta, reason, key), key = NoKey \/ ~KeyUsed(key)
  PROVE  OneRowPerKey'
<1> SUFFICES ASSUME NEW a \in Member, NEW b \in Member,
                    NEW i \in DOMAIN ledger'[a], NEW j \in DOMAIN ledger'[b],
                    ledger'[a][i].key = ledger'[b][j].key, ledger'[a][i].key # NoKey
             PROVE  a = b /\ i = j
  BY DEF OneRowPerKey
<1> DEFINE row == [reason |-> reason, key |-> key, day |-> clock]
           Old(n, k) == k \in DOMAIN ledger[n]
           New(n, k) == n = m /\ k = Len(ledger[m]) + 1
<1>0. Longer(m, row)
  BY InsertedRow
<1>1. (Old(a, i) \/ New(a, i)) /\ (Old(b, j) \/ New(b, j))
  BY <1>0 DEF Longer
<1>2. \A n \in Member : \A k : Old(n, k) => ledger'[n][k] = ledger[n][k]
  BY <1>0 DEF Longer
<1>3. ledger'[m][Len(ledger[m]) + 1].key = key
  BY <1>0 DEF Longer
<1>4. \A n \in Member : \A k : Old(n, k) /\ ledger'[n][k].key # NoKey => ledger'[n][k].key # key
  BY <1>2 DEF KeyUsed, RowsOf
<1>5. CASE Old(a, i) /\ Old(b, j)
  BY <1>2, <1>5 DEF OneRowPerKey
<1>6. CASE Old(a, i) /\ New(b, j)
  BY <1>3, <1>4, <1>6
<1>7. CASE New(a, i) /\ Old(b, j)
  BY <1>3, <1>4, <1>7
<1> QED
  BY <1>1, <1>5, <1>6, <1>7
-----------------------------------------------------------------------------
(* Type correctness. *)

PointTypes ==
  /\ ledger \in [Member -> Seq(Row)]
  /\ balance \in [Member -> Int] /\ cached \in [Member -> Int]
  /\ activity \in [Member -> Day \cup {Never}]

OtherTypes ==
  /\ clock \in Day
  /\ erased \subseteq Member
  /\ events \subseteq Event
  /\ rsvp \in [Event -> [Member -> {"none", "going", "attended"}]]
  /\ ticket \in [Event -> [Member -> Nat]]
  /\ task \in [Clerk -> [step : {"idle", "attend", "credit"},
                         member : Member \cup {Nobody},
                         event : Event \cup {Nobody}, ticket : Nat]]
  /\ pass \in [Pass -> [now : Day \cup {Never}, left : SUBSET Member]]
  /\ \A p \in Pass : pass[p].left = {} <=> pass[p] = NoPass

LEMMA InsertTypes ==
  ASSUME TypeOK, NEW m \in Member, NEW delta \in Int,
         NEW reason \in {"manual", "event", "referral", "decay"}, NEW key \in Key,
         Insert(m, delta, reason, key)
  PROVE  PointTypes'
<1> DEFINE row == [reason |-> reason, key |-> key, day |-> clock]
<1>1. row \in Row
  BY DEF Row, TypeOK
<1>2. Append(ledger[m], row) \in Seq(Row)
  BY <1>1 DEF TypeOK
<1>3. ledger' \in [Member -> Seq(Row)]
  <2>1. ledger' = [ledger EXCEPT ![m] = Append(ledger[m], row)]
    BY DEF Insert, AppendRow, TypeOK
  <2> QED
    BY <1>2, <2>1 DEF TypeOK
<1>4. balance' \in [Member -> Int] /\ cached' \in [Member -> Int]
  BY DEF Insert, TypeOK
<1>5. activity' \in [Member -> Day \cup {Never}]
  BY DEF Insert, TypeOK
<1> QED
  BY <1>3, <1>4, <1>5 DEF PointTypes

LEMMA DecayDeltaInt ==
  ASSUME NEW points \in Int
  PROVE  DecayDelta(points) \in Int
BY DEF DecayDelta

LEMMA PointTypesKept ==
  ASSUME Inv, [Next]_vars
  PROVE  PointTypes'
<1> USE DEF Inv
<1>1. CASE Kept
  BY <1>1 DEF Kept, TypeOK, PointTypes
<1>2. ASSUME NEW m \in Member, NEW delta \in Int, NEW key \in Key,
             NEW reason \in {"manual", "referral", "decay"},
             Credited(m, delta, reason, key)
      PROVE  PointTypes'
  BY <1>2, InsertTypes DEF Credited
<1>3. ASSUME NEW m \in Member, NEW now \in Day, Decayed(m, now)
      PROVE  PointTypes'
  BY <1>3, InsertTypes, DecayDeltaInt, DecayKeyUsed DEF Decayed, TypeOK
<1>4. ASSUME NEW m \in Member, NEW e \in Event, NEW delta \in Int, Attended(m, e, delta)
      PROVE  PointTypes'
  <2>1. EventKey(e, m) \in Key
    BY EventKeyUsed
  <2>2. CASE Insert(m, delta, "event", EventKey(e, m))
    BY <2>1, <2>2, InsertTypes
  <2>3. CASE cached' = [cached EXCEPT ![m] = balance[m]]
             /\ UNCHANGED <<ledger, balance, activity>>
    BY <2>3 DEF TypeOK, PointTypes
  <2> QED
    BY <1>4, <2>2, <2>3 DEF Attended, Add
<1> QED
  BY <1>1, <1>2, <1>3, <1>4, LedgerSteps DEF LedgerStep

\* A change of one entry of a table by event and member.
LEMMA EntryChanged ==
  ASSUME NEW S, NEW table \in [Event -> [Member -> S]],
         NEW e \in Event, NEW m \in Member, NEW v \in S
  PROVE  [table EXCEPT ![e][m] = v] \in [Event -> [Member -> S]]
<1> DEFINE entries == [table[e] EXCEPT ![m] = v]
<1>1. table[e] \in [Member -> S]
  OBVIOUS
<1>2. entries \in [Member -> S]
  BY <1>1
<1>3. [table EXCEPT ![e][m] = v] = [table EXCEPT ![e] = entries]
  OBVIOUS
<1> QED
  BY <1>2, <1>3

LEMMA OtherTypesKept ==
  ASSUME Inv, [Next]_vars
  PROVE  OtherTypes' /\ Tasks'
<1> USE DEF Inv, TypeOK, OtherTypes, Tasks
<1>1. ASSUME NEW m \in Member, NEW delta \in Amount, NEW reason, NEW key,
             GivePoints(m, delta, reason, key)
      PROVE  OtherTypes' /\ Tasks'
  BY <1>1 DEF GivePoints, eventVars
<1>2. ASSUME NEW m \in Member, Erase(m)
      PROVE  OtherTypes' /\ Tasks'
  BY <1>2 DEF Erase, eventVars
<1>3. ASSUME NEW e \in Event, DeleteEvent(e)
      PROVE  OtherTypes' /\ Tasks'
  BY <1>3 DEF DeleteEvent
<1>4. ASSUME NEW e \in Event, NEW m \in Member, Rsvp(e, m)
      PROVE  OtherTypes' /\ Tasks'
  <2>1. \A v \in {"none", "going", "attended"} : [rsvp EXCEPT ![e][m] = v]
          \in [Event -> [Member -> {"none", "going", "attended"}]]
    BY EntryChanged
  <2>2. ticket[e][m] + 1 \in Nat
    OBVIOUS
  <2>3. [ticket EXCEPT ![e][m] = @ + 1] \in [Event -> [Member -> Nat]]
    BY <2>2, EntryChanged
  <2> QED
    BY <1>4, <2>1, <2>3 DEF Rsvp
<1>5. ASSUME NEW c \in Clerk, NEW e \in Event, NEW m \in Member, Attend(c, e, m)
      PROVE  OtherTypes' /\ Tasks'
  BY <1>5 DEF Attend, eventVars
<1>6. ASSUME NEW c \in Clerk, AttendCommit(c)
      PROVE  OtherTypes' /\ Tasks'
  <2>1. rsvp' \in [Event -> [Member -> {"none", "going", "attended"}]]
    <3>1. task[c].event \in Event /\ task[c].member \in Member
      BY <1>6 DEF AttendCommit
    <3>2. [rsvp EXCEPT ![task[c].event][task[c].member] = "attended"]
            \in [Event -> [Member -> {"none", "going", "attended"}]]
      BY <3>1, EntryChanged
    <3> QED
      BY <1>6, <3>2 DEF AttendCommit
  <2> QED
    BY <1>6, <2>1 DEF AttendCommit, Finish, NoTask
<1>7. ASSUME NEW c \in Clerk, CreditReferral(c) \/ ClerkStops(c)
      PROVE  OtherTypes' /\ Tasks'
  <2>1. task' = [task EXCEPT ![c] = NoTask]
    BY <1>7 DEF CreditReferral, ClerkStops, Finish
  <2>2. UNCHANGED <<clock, erased, eventVars, pass>>
    BY <1>7 DEF CreditReferral, ClerkStops
  <2> QED
    BY <2>1, <2>2 DEF NoTask, eventVars
<1>8. ASSUME NEW c \in Clerk, NEW m \in Member, Verify(c, m)
      PROVE  OtherTypes' /\ Tasks'
  BY <1>8, PointsAssumption DEF Verify, NoTask, eventVars, PointsAssumption
<1>9. ASSUME NEW p \in Pass, DecayStart(p) \/ DecayStops(p)
      PROVE  OtherTypes' /\ Tasks'
  <2>1. CASE DecayStart(p)
    <3> DEFINE chosen == {m \in Member : StillInactive(m, clock)}
    <3>1. pass' = [pass EXCEPT ![p] = [now |-> clock, left |-> chosen]] /\ chosen # {}
      BY <2>1 DEF DecayStart
    <3>2. \A q \in Pass : pass'[q] = IF q = p THEN [now |-> clock, left |-> chosen] ELSE pass[q]
      BY <3>1
    <3> HIDE DEF chosen
    <3>3. [now |-> clock, left |-> chosen] # NoPass
      BY <3>1 DEF NoPass
    <3>4. chosen \subseteq Member
      BY DEF chosen
    <3> QED
      BY <2>1, <3>1, <3>2, <3>3, <3>4 DEF DecayStart, eventVars
  <2>2. CASE DecayStops(p)
    BY <2>2 DEF DecayStops, NoPass, eventVars
  <2> QED
    BY <1>9, <2>1, <2>2
<1>10. ASSUME NEW p \in Pass, NEW m \in Member, RowDone(p, m), m \in pass[p].left,
              UNCHANGED <<clock, erased, eventVars, task>>
       PROVE  OtherTypes' /\ Tasks'
  <2> DEFINE rest == pass[p].left \ {m}
             next == [now |-> pass[p].now, left |-> rest]
  <2>1. pass' = [pass EXCEPT ![p] = IF rest = {} THEN NoPass ELSE next]
    BY <1>10 DEF RowDone
  <2>2. next \in [now : Day \cup {Never}, left : SUBSET Member]
    OBVIOUS
  <2>3. rest # {} => next # NoPass
    BY DEF NoPass
  <2>4. NoPass.left = {} /\ next.left = rest
    BY DEF NoPass
  <2>5. NoPass \in [now : Day \cup {Never}, left : SUBSET Member]
    BY DEF NoPass
  <2> HIDE DEF next, rest
  <2>6. \A q \in Pass :
          pass'[q] = IF q = p THEN IF rest = {} THEN NoPass ELSE next ELSE pass[q]
    BY <2>1
  <2> QED
    BY <1>10, <2>1, <2>2, <2>3, <2>4, <2>5, <2>6 DEF eventVars
<1>11. ASSUME NEW p \in Pass, NEW m \in Member, DecayRow(p, m) \/ DecayRowFails(p, m)
       PROVE  OtherTypes' /\ Tasks'
  BY <1>10, <1>11 DEF DecayRow, DecayRowFails
<1>12. CASE Tick
  BY <1>12 DEF Tick, eventVars
<1>13. CASE UNCHANGED vars
  BY <1>13 DEF vars, eventVars
<1> QED
  BY <1>1, <1>2, <1>3, <1>4, <1>5, <1>6, <1>7, <1>8, <1>9, <1>11, <1>12, <1>13
  DEF Next, LedgerNext, EventNext, ClerkNext, PassNext
-----------------------------------------------------------------------------
(* The inductive invariant. *)

LEMMA TypesSplit == TypeOK <=> PointTypes /\ OtherTypes
BY DEF TypeOK, PointTypes, OtherTypes

LEMMA InitInv ==
  ASSUME Init
  PROVE  Inv
<1>1. PointTypes
  <2>1. <<>> \in Seq(Row)
    OBVIOUS
  <2> QED
    BY <2>1 DEF Init, PointTypes
<1>2. OtherTypes
  BY PointsAssumption DEF Init, OtherTypes, NoTask, NoPass, PointsAssumption
<1>3. \A m \in Member : DOMAIN ledger[m] = {}
  <2>1. DOMAIN <<>> = {}
    OBVIOUS
  <2> QED
    BY <2>1, Zenon DEF Init
<1>4. Tasks /\ Clocks
  BY <1>3, PointsAssumption DEF Init, Tasks, Clocks, NoTask, NoPass, PointsAssumption
<1>5. OwnEvents
  BY <1>3 DEF OwnEvents, RowsOf
<1> QED
  BY <1>1, <1>2, <1>4, <1>5, TypesSplit DEF Inv

\* Where a step may add a row, and which.
RowAdded ==
  \E m \in Member, delta \in Int, key \in Key,
     reason \in {"manual", "event", "referral", "decay"} :
    /\ Insert(m, delta, reason, key)
    /\ key = NoKey \/ ~KeyUsed(key)
    /\ \A e \in Event, n \in Member : key = EventKey(e, n) => n = m

LEMMA RowSteps ==
  ASSUME Inv, [Next]_vars
  PROVE  UNCHANGED <<ledger, balance, activity>> \/ RowAdded
<1>1. CASE Kept
  BY <1>1 DEF Kept
<1>2. ASSUME NEW m \in Member, NEW delta \in Int, NEW key \in Key,
             NEW reason \in {"manual", "referral", "decay"},
             Credited(m, delta, reason, key)
      PROVE  RowAdded
  BY <1>2 DEF Credited, RowAdded
<1>3. ASSUME NEW m \in Member, NEW now \in Day, Decayed(m, now)
      PROVE  RowAdded
  <2>1. DecayDelta(balance[m]) \in Int
    BY DecayDeltaInt DEF Inv, TypeOK
  <2>2. /\ DecayKey(m, MonthOf[now]) \in Key
        /\ \A e \in Event, n \in Member : DecayKey(m, MonthOf[now]) # EventKey(e, n)
    BY DecayKeyUsed
  <2> QED
    BY <1>3, <2>1, <2>2 DEF Decayed, RowAdded
<1>4. ASSUME NEW m \in Member, NEW e \in Event, NEW delta \in Int, Attended(m, e, delta)
      PROVE  UNCHANGED <<ledger, balance, activity>> \/ RowAdded
  <2>1. EventKey(e, m) \in Key
    BY EventKeyUsed
  <2>2. \A f \in Event, n \in Member : EventKey(e, m) = EventKey(f, n) => n = m
    BY EventKeyOf
  <2>3. \/ UNCHANGED <<ledger, balance, activity>>
        \/ Insert(m, delta, "event", EventKey(e, m)) /\ ~KeyUsed(EventKey(e, m))
    BY <1>4, EventKeyUsed DEF Attended, Add
  <2> QED
    BY <2>1, <2>2, <2>3 DEF RowAdded
<1> QED
  BY <1>1, <1>2, <1>3, <1>4, LedgerSteps DEF LedgerStep

\* What a pass that is at work becomes: the same one, or one that begins now.
PassKept ==
  \A p \in Pass : pass'[p].left # {} =>
    pass'[p].now = clock \/ (pass[p].left # {} /\ pass'[p].now = pass[p].now)

LEMMA PassSteps ==
  ASSUME TypeOK, [Next]_vars
  PROVE  PassKept
<1>1. UNCHANGED pass => PassKept
  BY DEF PassKept
<1>2. ASSUME NEW p \in Pass, DecayStart(p)
      PROVE  PassKept
  BY <1>2 DEF DecayStart, PassKept, TypeOK
<1>3. ASSUME NEW p \in Pass, DecayStops(p)
      PROVE  PassKept
  BY <1>3 DEF DecayStops, NoPass, PassKept, TypeOK
<1>4. ASSUME NEW p \in Pass, NEW m \in Member, m \in pass[p].left, RowDone(p, m)
      PROVE  PassKept
  BY <1>4 DEF RowDone, NoPass, PassKept, TypeOK
<1>5. LedgerNext \/ EventNext \/ ClerkNext \/ Tick \/ UNCHANGED vars => UNCHANGED pass
  BY DEF LedgerNext, GivePoints, Erase, EventNext, DeleteEvent, Rsvp, Attend, ClerkNext,
         AttendCommit, CreditReferral, ClerkStops, Verify, Tick, vars
<1>6. PassNext => PassKept
  BY <1>2, <1>3, <1>4 DEF PassNext, DecayRow, DecayRowFails
<1> QED
  BY <1>1, <1>5, <1>6 DEF Next

LEMMA ClockSteps ==
  ASSUME TypeOK, [Next]_vars
  PROVE  clock \in Nat /\ clock' \in Nat /\ clock <= clock'
<1>1. \A d \in Day : d \in Nat
  BY PointsAssumption DEF PointsAssumption
<1>2. clock \in Nat
  BY <1>1 DEF TypeOK
<1>3. Tick \/ UNCHANGED clock
  BY DEF Next, LedgerNext, GivePoints, Erase, EventNext, DeleteEvent, Rsvp, Attend, ClerkNext,
         AttendCommit, CreditReferral, ClerkStops, Verify, PassNext, DecayStart, DecayStops,
         DecayRow, DecayRowFails, vars
<1> QED
  BY <1>1, <1>2, <1>3 DEF Tick

LEMMA ClocksKept ==
  ASSUME Inv, [Next]_vars
  PROVE  Clocks'
<1>1. /\ TypeOK /\ Clocks /\ Never \notin Day /\ clock \in Day
      /\ \A d \in Day : d \in Nat
  BY PointsAssumption DEF PointsAssumption, TypeOK, Inv
<1>2. clock \in Nat /\ clock' \in Nat /\ clock <= clock'
  BY <1>1, ClockSteps
<1>3. \A p \in Pass : pass'[p].left # {} => pass'[p].now \in Day /\ pass'[p].now <= clock'
  <2>1. PassKept
    BY <1>1, PassSteps
  <2> SUFFICES ASSUME NEW p \in Pass, pass'[p].left # {}
               PROVE  pass'[p].now \in Day /\ pass'[p].now <= clock'
    OBVIOUS
  <2>2. CASE pass'[p].now = clock
    BY <1>1, <1>2, <2>2
  <2>3. CASE pass[p].left # {} /\ pass'[p].now = pass[p].now
    <3>1. pass[p].now \in Day /\ pass[p].now <= clock
      BY <1>1, <2>3 DEF Clocks
    <3>2. pass[p].now \in Nat /\ pass'[p].now = pass[p].now
      BY <1>1, <2>3, <3>1
    <3> QED
      BY <1>2, <3>1, <3>2
  <2> QED
    BY <2>1, <2>2, <2>3 DEF PassKept
<1>4. CASE UNCHANGED <<ledger, balance, activity>>
  <2>1. ASSUME NEW m \in Member, activity'[m] \in Day
        PROVE  activity'[m] <= clock'
    <3>1. activity[m] \in Nat /\ activity[m] <= clock
      BY <1>1, <1>4, <2>1 DEF Clocks
    <3> QED
      BY <1>2, <1>4, <3>1
  <2> QED
    BY <1>1, <1>3, <1>4, <2>1 DEF Clocks
<1>5. CASE RowAdded
  <2>1. PICK m \in Member, delta \in Int, key \in Key,
             reason \in {"manual", "event", "referral", "decay"} :
          Insert(m, delta, reason, key)
    BY <1>5 DEF RowAdded
  <2> DEFINE row == [reason |-> reason, key |-> key, day |-> clock]
  <2>2. Longer(m, row)
    BY <1>1, <2>1, InsertedRow
  <2>3. \A n \in Member : activity'[n] =
          IF n = m /\ reason # "decay" THEN clock ELSE activity[n]
    BY <1>1, <2>1 DEF Insert, TypeOK
  <2>4. ASSUME NEW n \in Member, activity'[n] \in Day
        PROVE  activity'[n] <= clock'
    <3>1. CASE n = m /\ reason # "decay"
      BY <1>2, <2>3, <3>1
    <3>2. CASE ~(n = m /\ reason # "decay")
      <4>1. activity'[n] = activity[n]
        BY <2>3, <3>2
      <4>2. activity[n] \in Nat /\ activity[n] <= clock
        BY <1>1, <2>4, <4>1 DEF Clocks
      <4> QED
        BY <1>2, <4>1, <4>2
    <3> QED
      BY <3>1, <3>2
  <2>5. ASSUME NEW n \in Member, NEW i \in DOMAIN ledger'[n], ledger'[n][i].reason # "decay"
        PROVE  activity'[n] \in Day /\ ledger'[n][i].day <= activity'[n]
    <3>1. CASE n # m
      <4>1. ledger'[n] = ledger[n] /\ activity'[n] = activity[n]
        BY <2>2, <2>3, <3>1 DEF Longer
      <4> QED
        BY <1>1, <2>5, <4>1 DEF Clocks
    <3>2. CASE n = m /\ i = Len(ledger[m]) + 1
      <4>1. ledger'[n][i] = row
        BY <2>2, <3>2 DEF Longer
      <4>2. reason # "decay" /\ ledger'[n][i].day = clock
        BY <2>5, <4>1
      <4> QED
        BY <1>1, <1>2, <2>3, <3>2, <4>2
    <3>3. CASE n = m /\ i \in DOMAIN ledger[m]
      <4>1. /\ ledger[m][i].reason # "decay" /\ ledger'[n][i] = ledger[m][i]
        BY <2>2, <2>5, <3>3 DEF Longer
      <4>2. activity[m] \in Day /\ ledger[m][i].day <= activity[m] /\ activity[m] <= clock
        BY <1>1, <3>3, <4>1 DEF Clocks
      <4>3. ledger[m][i].day \in Nat
        <5>1. ledger[m] \in Seq(Row)
          BY <1>1 DEF TypeOK
        <5>2. ledger[m][i] \in Row
          BY <3>3, <5>1
        <5> QED
          BY <1>1, <5>2 DEF Row
      <4>4. activity'[n] = clock \/ activity'[n] = activity[m]
        BY <2>3, <3>3
      <4>5. activity[m] \in Nat
        BY <1>1, <4>2
      <4> QED
        BY <1>1, <1>2, <4>1, <4>2, <4>3, <4>4, <4>5
    <3> QED
      BY <2>2, <2>5, <3>1, <3>2, <3>3 DEF Longer
  <2> QED
    BY <1>3, <2>4, <2>5 DEF Clocks
<1> QED
  BY <1>4, <1>5, RowSteps

LEMMA OwnEventsKept ==
  ASSUME Inv, [Next]_vars
  PROVE  OwnEvents'
<1> USE DEF Inv
<1>1. CASE UNCHANGED <<ledger, balance, activity>>
  BY <1>1 DEF OwnEvents, RowsOf
<1>2. CASE RowAdded
  <2>1. PICK m \in Member, delta \in Int, key \in Key,
             reason \in {"manual", "event", "referral", "decay"} :
          /\ Insert(m, delta, reason, key)
          /\ \A e \in Event, n \in Member : key = EventKey(e, n) => n = m
    BY <1>2 DEF RowAdded
  <2> DEFINE row == [reason |-> reason, key |-> key, day |-> clock]
  <2>2. Longer(m, row)
    BY <2>1, InsertedRow
  <2>3. ASSUME NEW a \in Member, NEW n \in Member, NEW e \in Event,
               NEW i \in DOMAIN ledger'[a], ledger'[a][i].key = EventKey(e, n)
        PROVE  a = n
    <3>1. CASE i \in DOMAIN ledger[a]
      BY <2>2, <2>3, <3>1 DEF OwnEvents, RowsOf, Longer
    <3>2. CASE a = m /\ i = Len(ledger[m]) + 1
      BY <2>1, <2>2, <2>3, <3>2 DEF Longer
    <3> QED
      BY <2>2, <3>1, <3>2 DEF Longer
  <2> QED
    BY <2>3 DEF OwnEvents, RowsOf
<1> QED
  BY <1>1, <1>2, RowSteps

LEMMA NextInv ==
  ASSUME Inv, [Next]_vars
  PROVE  Inv'
BY PointTypesKept, OtherTypesKept, ClocksKept, OwnEventsKept
DEF Inv, TypeOK, PointTypes, OtherTypes

\* The invariant the other theorems rest on.
THEOREM Invariance == Spec => []Inv
<1>1. Init => Inv
  BY InitInv
<1>2. Inv /\ [Next]_vars => Inv'
  BY NextInv
<1> QED
  BY <1>1, <1>2, PTL DEF Spec

\* Type correctness of the points, their clerks and passes.
THEOREM TypeCorrect == Spec => []TypeOK
<1>1. Inv => TypeOK
  BY DEF Inv
<1> QED
  BY <1>1, Invariance, PTL
-----------------------------------------------------------------------------
(* One row per key. *)

LEMMA KeysStaySingle ==
  ASSUME Inv, OneRowPerKey, [Next]_vars
  PROVE  OneRowPerKey'
<1>1. CASE UNCHANGED <<ledger, balance, activity>>
  BY <1>1 DEF OneRowPerKey
<1>2. CASE RowAdded
  <2>1. PICK m \in Member, delta \in Int, key \in Key,
             reason \in {"manual", "event", "referral", "decay"} :
          Insert(m, delta, reason, key) /\ (key = NoKey \/ ~KeyUsed(key))
    BY <1>2 DEF RowAdded
  <2> QED
    BY <2>1, FreshKey DEF Inv
<1> QED
  BY <1>1, <1>2, RowSteps

\* Whoever repeats a credit with its key, at whatever time, credits it once.
THEOREM CreditedOnce == Spec => []OneRowPerKey
<1>1. Init => OneRowPerKey
  <2>1. DOMAIN <<>> = {}
    OBVIOUS
  <2> QED
    BY <2>1 DEF Init, OneRowPerKey
<1>2. Inv /\ OneRowPerKey /\ [Next]_vars => OneRowPerKey'
  BY KeysStaySingle
<1> QED
  BY <1>1, <1>2, Invariance, PTL DEF Spec
-----------------------------------------------------------------------------
(* Attendance. *)

\* Which rows bear a key after a new row.
LEMMA KeysAfter ==
  ASSUME NEW m \in Member, NEW row, Longer(m, row), NEW n \in Member, NEW key
  PROVE  (\E r \in RowsOf(n)' : r.key = key) <=>
           (\E r \in RowsOf(n) : r.key = key) \/ (n = m /\ row.key = key)
<1>1. CASE n # m
  BY <1>1 DEF Longer, RowsOf
<1>2. CASE n = m
  BY <1>2 DEF Longer, RowsOf
<1> QED
  BY <1>1, <1>2

LEMMA AttendanceStays ==
  ASSUME Inv, AttendedIffCredited, [Next]_vars
  PROVE  AttendedIffCredited'
<1> DEFINE Bears(n, key) == \E r \in RowsOf(n) : r.key = key
<1>1. TypeOK
  BY DEF Inv
<1>2. CASE AttendanceKept /\ UNCHANGED ledger
  BY <1>1, <1>2 DEF AttendanceKept, AttendedIffCredited, RowsOf
<1>3. ASSUME NEW m \in Member, NEW delta, NEW reason, NEW key, AttendanceKept,
             Insert(m, delta, reason, key),
             \A e \in Event, n \in Member : key # EventKey(e, n)
      PROVE  AttendedIffCredited'
  <2> DEFINE row == [reason |-> reason, key |-> key, day |-> clock]
  <2>1. Longer(m, row)
    BY <1>1, <1>3, InsertedRow
  <2> SUFFICES ASSUME NEW e \in events', NEW n \in Member
               PROVE  rsvp'[e][n] = "attended" <=> Bears(n, EventKey(e, n))'
    BY DEF AttendedIffCredited
  <2>2. e \in Event /\ e \in events
    BY <1>1, <1>3 DEF AttendanceKept, TypeOK
  <2>3. Bears(n, EventKey(e, n))' <=> Bears(n, EventKey(e, n))
    BY <1>3, <2>1, <2>2, KeysAfter, SMTT(30)
  <2> QED
    BY <1>3, <2>2, <2>3 DEF AttendanceKept, AttendedIffCredited
<1>4. ASSUME NEW m \in Member, NEW e \in Event, NEW delta \in Int, Attended(m, e, delta)
      PROVE  AttendedIffCredited'
  <2> SUFFICES ASSUME NEW f \in events', NEW n \in Member
               PROVE  rsvp'[f][n] = "attended" <=> Bears(n, EventKey(f, n))'
    BY DEF AttendedIffCredited
  <2>1. f \in events /\ f \in Event
    BY <1>1, <1>4 DEF Attended, TypeOK
  <2>2. rsvp'[f][n] = IF f = e /\ n = m THEN "attended" ELSE rsvp[f][n]
    BY <1>1, <1>4, <2>1 DEF Attended, TypeOK
  <2>3. rsvp[f][n] = "attended" <=> Bears(n, EventKey(f, n))
    BY <2>1 DEF AttendedIffCredited
  <2>4. CASE Insert(m, delta, "event", EventKey(e, m))
    <3> DEFINE row == [reason |-> "event", key |-> EventKey(e, m), day |-> clock]
    <3>1. Longer(m, row)
      BY <1>1, <2>4, InsertedRow
    <3>2. Bears(n, EventKey(f, n))' <=>
            Bears(n, EventKey(f, n)) \/ (n = m /\ EventKey(e, m) = EventKey(f, n))
      BY <3>1, KeysAfter
    <3>3. EventKey(e, m) = EventKey(f, n) <=> f = e /\ n = m
      BY EventKeyOf
    <3> QED
      BY <2>2, <2>3, <3>2, <3>3
  <2>5. CASE KeyUsed(EventKey(e, m)) /\ UNCHANGED ledger
    <3>1. PICK k \in Member : Bears(k, EventKey(e, m))
      BY <2>5 DEF KeyUsed
    <3>2. k = m
      BY <3>1 DEF Inv, OwnEvents
    <3>3. Bears(n, EventKey(f, n))' <=> Bears(n, EventKey(f, n))
      BY <2>5 DEF RowsOf
    <3> QED
      BY <2>2, <2>3, <3>1, <3>2, <3>3
  <2> QED
    BY <1>4, <2>4, <2>5, EventKeyUsed DEF Attended, Add
<1>5. CASE AttendanceKept /\ LedgerStep
  <2>1. CASE Kept
    BY <1>2, <1>5, <2>1 DEF Kept
  <2>2. ASSUME NEW m \in Member, NEW delta \in Int, NEW key \in Key,
               NEW reason \in {"manual", "referral", "decay"},
               Credited(m, delta, reason, key)
        PROVE  AttendedIffCredited'
    BY <1>3, <1>5, <2>2 DEF Credited
  <2>3. ASSUME NEW m \in Member, NEW now \in Day, Decayed(m, now)
        PROVE  AttendedIffCredited'
    BY <1>3, <1>5, <2>3, DecayKeyUsed DEF Decayed
  <2> QED
    BY <1>5, <2>1, <2>2, <2>3 DEF LedgerStep
<1> QED
  BY <1>4, <1>5, LedgerSteps

\* The office, the members and the cancellations they race with leave exactly the
\* attended RSVPs of an event credited.
THEOREM AttendanceIsCredited == Spec => []AttendedIffCredited
<1>1. Init => AttendedIffCredited
  <2>1. DOMAIN <<>> = {}
    OBVIOUS
  <2> QED
    BY <2>1, ZenonT(30) DEF Init, AttendedIffCredited, RowsOf
<1>2. Inv /\ AttendedIffCredited /\ [Next]_vars => AttendedIffCredited'
  BY AttendanceStays
<1> QED
  BY <1>1, <1>2, Invariance, PTL DEF Spec

\* Whatever is repeated and interleaved, each credit is written once and for
\* attendance that stands: the properties of attend and add_in_transaction.
THEOREM CreditsStayDue == Spec => []CreditsAreDue
  BY CreditedOnce, AttendanceIsCredited, PTL DEF CreditsAreDue
-----------------------------------------------------------------------------
(* The cache. *)

LEMMA CacheStays ==
  ASSUME Inv, CacheFollowsLedger, [Next]_vars
  PROVE  CacheFollowsLedger'
<1>1. TypeOK
  BY DEF Inv
<1>2. ASSUME NEW m \in Member, NEW delta, NEW reason, NEW key, erased \subseteq erased',
             Insert(m, delta, reason, key)
      PROVE  CacheFollowsLedger'
  BY <1>1, <1>2 DEF Insert, CacheFollowsLedger, TypeOK
<1>3. ASSUME NEW m \in Member, erased \subseteq erased', UNCHANGED balance,
             cached' = [cached EXCEPT ![m] = balance[m]]
      PROVE  CacheFollowsLedger'
  BY <1>1, <1>3 DEF CacheFollowsLedger, TypeOK
<1>4. CASE Kept /\ erased \subseteq erased'
  <2>1. CASE UNCHANGED cached
    BY <1>4, <2>1 DEF Kept, CacheFollowsLedger
  <2>2. ASSUME NEW m \in Member, m \in erased', cached' = [cached EXCEPT ![m] = 0]
        PROVE  CacheFollowsLedger'
    BY <1>1, <1>4, <2>2 DEF Kept, CacheFollowsLedger, TypeOK
  <2> QED
    BY <1>3, <1>4, <2>1, <2>2 DEF Kept
<1>5. CASE AttendanceKept /\ LedgerStep
  BY <1>2, <1>4, <1>5 DEF AttendanceKept, LedgerStep, Credited, Decayed
<1>6. ASSUME NEW m \in Member, NEW e \in Event, NEW delta \in Int, Attended(m, e, delta)
      PROVE  CacheFollowsLedger'
  BY <1>2, <1>3, <1>6 DEF Attended, Add
<1> QED
  BY <1>5, <1>6, LedgerSteps

\* Discounts and levels are computed from a cache that no credit, retry or decay
\* leaves behind; only erasure resets it.
THEOREM CacheIsCurrent == Spec => []CacheFollowsLedger
<1>1. Init => CacheFollowsLedger
  BY DEF Init, CacheFollowsLedger
<1>2. Inv /\ CacheFollowsLedger /\ [Next]_vars => CacheFollowsLedger'
  BY CacheStays
<1> QED
  BY <1>1, <1>2, Invariance, PTL DEF Spec
-----------------------------------------------------------------------------
(* Decay. *)

\* The only new rows with a decay's key are those of passes.
LEMMA DecaySteps ==
  ASSUME Inv, [Next]_vars
  PROVE  \/ UNCHANGED <<ledger, balance>>
         \/ \E m \in Member, delta \in Int : \E reason, key :
              Insert(m, delta, reason, key) /\ key \notin DecayKeys(m)
         \/ \E m \in Member, now \in Day : Decayed(m, now)
<1>1. ASSUME NEW m \in Member, NEW e \in Event, NEW delta \in Int, Attended(m, e, delta)
      PROVE  \/ UNCHANGED <<ledger, balance>>
             \/ Insert(m, delta, "event", EventKey(e, m)) /\ EventKey(e, m) \notin DecayKeys(m)
  BY <1>1, EventKeyUsed DEF Attended, Add
<1> QED
  BY <1>1, LedgerSteps DEF LedgerStep, Kept, Credited

\* What a pass knew when it wrote its row: rows and activity were old enough.
LEMMA DecayedLate ==
  ASSUME Inv, NEW m \in Member, NEW now \in Day, Decayed(m, now),
         NEW i \in DOMAIN ledger[m]
  PROVE  /\ ledger[m][i].reason = "decay" => clock - ledger[m][i].day >= DecayGap
         /\ ledger[m][i].reason # "decay" => clock - ledger[m][i].day >= InactiveDays
<1>1. /\ \A d \in Day : d \in Nat
      /\ Never \notin Day /\ clock \in Nat /\ now \in Nat /\ now <= clock
  BY PointsAssumption DEF PointsAssumption, Inv, TypeOK, Decayed
<1>2. ledger[m][i].day \in Nat
  <2>1. ledger[m] \in Seq(Row)
    BY DEF Inv, TypeOK
  <2>2. ledger[m][i] \in Row
    BY <2>1
  <2> QED
    BY <1>1, <2>2 DEF Row
<1>3. ASSUME ledger[m][i].reason = "decay"
      PROVE  clock - ledger[m][i].day >= DecayGap
  <2>1. ~(now - ledger[m][i].day < DecayGap)
    BY <1>3 DEF Decayed, DecayedRecently, RowsOf
  <2> QED
    BY <1>1, <1>2, <2>1 DEF DecayGap
<1>4. ASSUME ledger[m][i].reason # "decay"
      PROVE  clock - ledger[m][i].day >= InactiveDays
  <2>1. activity[m] \in Day /\ ledger[m][i].day <= activity[m]
    BY <1>4 DEF Inv, Clocks
  <2>2. activity[m] \in Nat /\ activity[m] <= now - InactiveDays
    BY <1>1, <2>1 DEF Decayed, StillInactive
  <2> QED
    BY <1>1, <1>2, <2>1, <2>2 DEF InactiveDays
<1> QED
  BY <1>3, <1>4

\* The rows before a decay are old enough: those of decays and the others.
DecaysLate ==
  \A m \in Member : \A i, j \in DOMAIN ledger[m] :
    i < j /\ ledger[m][j].key \in DecayKeys(m) =>
      /\ ledger[m][i].reason = "decay" => ledger[m][j].day - ledger[m][i].day >= DecayGap
      /\ ledger[m][i].reason # "decay" =>
           ledger[m][j].day - ledger[m][i].day >= InactiveDays

LEMMA DecaysStayLate ==
  ASSUME Inv, DecaysLate, [Next]_vars
  PROVE  DecaysLate'
<1>1. CASE UNCHANGED <<ledger, balance>>
  BY <1>1 DEF DecaysLate
<1>2. ASSUME NEW m \in Member, NEW delta, NEW reason, NEW key,
             Insert(m, delta, reason, key),
             key \in DecayKeys(m) => \E now \in Day : Decayed(m, now)
      PROVE  DecaysLate'
  <2> DEFINE row == [reason |-> reason, key |-> key, day |-> clock]
             last == Len(ledger[m]) + 1
  <2>1. Longer(m, row)
    BY <1>2, InsertedRow DEF Inv
  <2> SUFFICES ASSUME NEW n \in Member, NEW i \in DOMAIN ledger'[n],
                      NEW j \in DOMAIN ledger'[n], i < j,
                      ledger'[n][j].key \in DecayKeys(n)
               PROVE  /\ ledger'[n][i].reason = "decay" =>
                           ledger'[n][j].day - ledger'[n][i].day >= DecayGap
                      /\ ledger'[n][i].reason # "decay" =>
                           ledger'[n][j].day - ledger'[n][i].day >= InactiveDays
    BY DEF DecaysLate
  <2>2. CASE n # m
    BY <2>1, <2>2 DEF Longer, DecaysLate
  <2>3. CASE n = m /\ j # last
    <3>1. i \in DOMAIN ledger[m] /\ j \in DOMAIN ledger[m]
      BY <2>1, <2>3 DEF Longer
    <3>2. ledger'[m][i] = ledger[m][i] /\ ledger'[m][j] = ledger[m][j]
      BY <2>1, <3>1 DEF Longer
    <3> QED
      BY <2>3, <3>1, <3>2 DEF DecaysLate
  <2>4. CASE n = m /\ j = last
    <3>1. ledger'[m][j] = row
      BY <2>1, <2>4 DEF Longer
    <3>2. i \in DOMAIN ledger[m]
      BY <2>1, <2>4 DEF Longer
    <3>3. ledger'[m][i] = ledger[m][i]
      BY <2>1, <3>2 DEF Longer
    <3>4. PICK now \in Day : Decayed(m, now)
      BY <1>2, <2>4, <3>1
    <3> QED
      BY <2>4, <3>1, <3>2, <3>3, <3>4, DecayedLate
  <2> QED
    BY <2>2, <2>3, <2>4
<1>3. ASSUME NEW m \in Member, NEW now \in Day, Decayed(m, now)
      PROVE  DecaysLate'
  BY <1>2, <1>3 DEF Decayed
<1> QED
  BY <1>1, <1>2, <1>3, DecaySteps

LEMMA DecaysAlwaysLate == Spec => []DecaysLate
<1>1. Init => DecaysLate
  <2>1. DOMAIN <<>> = {}
    OBVIOUS
  <2> QED
    BY <2>1 DEF Init, DecaysLate
<1>2. Inv /\ DecaysLate /\ [Next]_vars => DecaysLate'
  BY DecaysStayLate
<1> QED
  BY <1>1, <1>2, Invariance, PTL DEF Spec

\* However passes overlap each other and the ends of months, they leave
\* DecayGap days between two decays.
THEOREM DecaysStayApart == Spec => []DecaysApart
<1>1. DecaysLate => DecaysApart
  BY DEF DecaysLate, DecaysApart
<1> QED
  BY <1>1, DecaysAlwaysLate, PTL

\* Whatever a pass selected before, it spares whoever was active meanwhile.
THEOREM ActiveSpared == Spec => []ActiveMembersSpared
<1>1. DecaysLate => ActiveMembersSpared
  BY DEF DecaysLate, ActiveMembersSpared
<1> QED
  BY <1>1, DecaysAlwaysLate, PTL

LEMMA DecayDeltaBounds ==
  ASSUME NEW points \in Int, DecayDelta(points) < 0
  PROVE  0 < points + DecayDelta(points) /\ points + DecayDelta(points) < points
<1>1. points > 0
  BY DEF DecayDelta
<1>2. DecayDelta(points) = -((points * 15 + 50) \div 100)
  BY <1>1 DEF DecayDelta
<1> QED
  BY <1>1, <1>2

LEMMA DecayStepLeavesSome ==
  ASSUME Inv, [Next]_vars, NEW m \in Member,
         Len(ledger'[m]) > Len(ledger[m]),
         ledger'[m][Len(ledger'[m])].key \in DecayKeys(m)
  PROVE  0 < balance'[m] /\ balance'[m] < balance[m]
<1>1. TypeOK
  BY DEF Inv
<1>2. CASE UNCHANGED <<ledger, balance>>
  <2>1. Len(ledger[m]) \in Nat
    BY <1>1 DEF TypeOK
  <2> QED
    BY <1>2, <2>1
<1>3. ASSUME NEW n \in Member, NEW delta, NEW reason, NEW key,
             Insert(n, delta, reason, key)
      PROVE  n = m /\ key \in DecayKeys(m)
  <2>1. Longer(n, [reason |-> reason, key |-> key, day |-> clock])
    BY <1>1, <1>3, InsertedRow
  <2>2. n = m
    BY <2>1 DEF Longer
  <2> QED
    BY <2>1, <2>2 DEF Longer
<1>4. ASSUME NEW n \in Member, NEW now \in Day, Decayed(n, now)
      PROVE  0 < balance'[m] /\ balance'[m] < balance[m]
  <2>1. n = m
    BY <1>3, <1>4 DEF Decayed
  <2>2. balance[m] \in Int /\ DecayDelta(balance[m]) \in Int
    BY <1>1, DecayDeltaInt DEF TypeOK
  <2>3. DecayDelta(balance[m]) < 0
    BY <1>4, <2>1, <2>2 DEF Decayed, NothingToTake
  <2>4. balance'[m] = balance[m] + DecayDelta(balance[m])
    BY <1>1, <1>4, <2>1 DEF Decayed, Insert, TypeOK
  <2> QED
    BY <2>2, <2>3, <2>4, DecayDeltaBounds
<1> QED
  BY <1>2, <1>3, <1>4, DecaySteps

\* A decay takes something and leaves something, whatever the office has credited
\* or taken before.
THEOREM DecayNeverOverdraws == Spec => DecayLeavesSome
<1>1. Inv /\ [Next]_vars =>
        [\A m \in Member :
           Len(ledger'[m]) > Len(ledger[m])
           /\ ledger'[m][Len(ledger'[m])].key \in DecayKeys(m) =>
             0 < balance'[m] /\ balance'[m] < balance[m]]_vars
  BY DecayStepLeavesSome
<1> QED
  BY <1>1, Invariance, PTL DEF Spec, DecayLeavesSome

\* The three together: passes keep their distance from each other and from
\* activity, and never overdraw.
THEOREM DecayStaysFair == Spec => DecayIsFair
  BY DecaysStayApart, ActiveSpared, DecayNeverOverdraws, PTL DEF DecayIsFair
=============================================================================
