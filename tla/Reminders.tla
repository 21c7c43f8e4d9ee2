------------------------------ MODULE Reminders ------------------------------
(* The daily passes that remind of events and of podcast subscriptions, beside *)
(* members who answer, an office that moves events and payments that extend    *)
(* subscriptions. A pass works with what it read at its start and flags a row  *)
(* after its messages, so it may be cut off between the two. A message that     *)
(* fails is logged, and its row is flagged like the others.                     *)
EXTENDS Naturals, FiniteSets

CONSTANTS
    Event, Guest,
    Clock,      \* days of an instance, counted from 1 January of FirstYear
    FirstYear,
    Window,     \* days before the end in which a subscriber is reminded
    MaxPaid,    \* bound on the years a subscriber pays for
    MaxCuts     \* bound on the passes that are cut off

VARIABLES
    today,
    minutes,    \* jobs whose minute of today is still to come
    serving,    \* "up", "stopping" or "down"
    pass,       \* per job: what it is at
    event,      \* per event: state, day of its reminder, flag, whom its messages reached
                \* (told) or did not (missed), how often they were sent
    answers,    \* who is coming
    late,       \* history: who answered after a pass last read the answers
    sub,        \* per subscriber: end, flag, letters about this end that arrived (told) or one
                \* that did not (missed), end owed, years paid
    cuts        \* passes that were cut off

remindersVars == <<today, minutes, serving, pass, event, answers, late, sub, cuts>>

Job == {"event-reminders", "podcast-reminders"}
NoPass == [step |-> "idle", left |-> {}, at |-> "none", who |-> {}]
Gone == [state |-> "absent", due |-> 0, flag |-> FALSE, told |-> {}, missed |-> {}, rounds |-> 0]

-----------------------------------------------------------------------------
(* Dates. A year later is twelve months after the first of the month, and then *)
(* the day of the month: 29 February becomes 1 March.                          *)

Leap(y) == y % 4 = 0 /\ (y % 100 # 0 \/ y % 400 = 0)
DaysBefore == <<0, 31, 59, 90, 120, 151, 181, 212, 243, 273, 304, 334>>
MonthStart(k) ==
    LET year == k \div 12
        month == k % 12
    IN  365 * year + DaysBefore[month + 1]
        + Cardinality({y \in 0..year : Leap(FirstYear + y) /\ (y < year \/ month >= 2)})
MonthAt(d) == CHOOSE k \in 12 * (d \div 366)..(12 * (d \div 365) + 11) : MonthStart(k) <= d /\ d < MonthStart(k + 1)
AddMonths(d, n) == MonthStart(MonthAt(d) + n) + (d - MonthStart(MonthAt(d)))

\* Mutant: what is left of the year before is lost.
NextFromNow(until, now) == AddMonths(now, 12)
NextPodcastExpiry(until, now) == AddMonths(IF until > now THEN until ELSE now, 12)

-----------------------------------------------------------------------------
(* Jobs: a tick starts a job in its minute, unless its last run still goes on. *)

Started(j, left) ==
    /\ serving = "up"
    /\ j \in minutes
    /\ pass[j].step = "idle"
    /\ minutes' = minutes \ {j}
    /\ pass' = [pass EXCEPT ![j] = IF left = {} THEN NoPass ELSE [NoPass EXCEPT !.step = "next", !.left = left]]

TickEvents ==
    /\ Started("event-reminders",
               {e \in Event : event[e].state = "published" /\ event[e].due = today /\ ~event[e].flag})
    /\ UNCHANGED <<today, serving, event, answers, late, sub, cuts>>

Expiring(g) == sub[g].until > today /\ sub[g].until <= today + Window
TickPodcasts ==
    /\ Started("podcast-reminders",
               {<<g, sub[g].until>> : g \in {g \in Guest : Expiring(g) /\ ~sub[g].flag}})
    /\ UNCHANGED <<today, serving, event, answers, late, sub, cuts>>

\* The minute passes while the job's last run goes on, or nobody is there.
Skipped(j) ==
    /\ j \in minutes
    /\ serving # "up" \/ pass[j].step # "idle"
    /\ minutes' = minutes \ {j}
    /\ UNCHANGED <<today, serving, pass, event, answers, late, sub, cuts>>

Stop ==
    /\ serving = "up"
    /\ serving' = "stopping"
    /\ UNCHANGED <<today, minutes, pass, event, answers, late, sub, cuts>>

\* An error, the end of the twenty seconds a stop waits, or a crash.
Cut(j) ==
    /\ pass[j].step # "idle"
    /\ cuts < MaxCuts
    /\ pass' = [pass EXCEPT ![j] = NoPass]
    /\ cuts' = cuts + 1
    /\ UNCHANGED <<today, minutes, serving, event, answers, late, sub>>
Restart ==
    /\ serving = "stopping"
    /\ \A j \in Job : pass[j].step = "idle"
    /\ serving' = "up"
    /\ UNCHANGED <<today, minutes, pass, event, answers, late, sub, cuts>>

NextDay(d) ==
    /\ today < d
    /\ \A x \in Clock : x <= today \/ d <= x
    /\ minutes = {}
    /\ today' = d
    /\ minutes' = Job
    /\ UNCHANGED <<serving, pass, event, answers, late, sub, cuts>>

-----------------------------------------------------------------------------
(* event_reminders: answers, messages, flag; a deleted event ends the pass.    *)

Events == pass["event-reminders"]
Then(p) == pass' = [pass EXCEPT !["event-reminders"] = p]
Rest(p) == IF p.left = {} THEN NoPass ELSE [NoPass EXCEPT !.step = "next", !.left = p.left]

\* Mutant: the flag is set before the messages.
ReadFlagging(e) ==
    /\ Events.step = "next"
    /\ e \in Events.left
    /\ Then([step |-> "push", left |-> Events.left \ {e}, at |-> e, who |-> answers[e]])
    /\ late' = [late EXCEPT ![e] = {}]
    /\ event' = [event EXCEPT ![e].flag = @ \/ event[e].state # "absent"]
    /\ UNCHANGED <<today, minutes, serving, answers, sub, cuts>>
ReadAnswers(e) ==
    /\ Events.step = "next"
    /\ e \in Events.left
    /\ Then([step |-> "push", left |-> Events.left \ {e}, at |-> e, who |-> answers[e]])
    /\ late' = [late EXCEPT ![e] = {}]
    /\ UNCHANGED <<today, minutes, serving, event, answers, sub, cuts>>

\* to_many: a member may have no subscription, and a failure is only logged.
Told(row, who, lost) ==
    IF row.state = "absent" THEN row
    ELSE [row EXCEPT !.told = row.told \cup (who \ lost), !.missed = row.missed \cup lost,
                     !.rounds = row.rounds + 1]
PushEvent ==
    LET e == Events.at
    IN  /\ Events.step = "push"
        /\ \E lost \in SUBSET Events.who : event' = [event EXCEPT ![e] = Told(event[e], Events.who, lost)]
        /\ Then([Events EXCEPT !.step = "flag"])
        /\ UNCHANGED <<today, minutes, serving, answers, late, sub, cuts>>

FlagEvent ==
    LET e == Events.at
    IN  /\ Events.step = "flag"
        /\ IF event[e].state = "absent"
           THEN Then(NoPass) /\ UNCHANGED event
           ELSE Then(Rest(Events)) /\ event' = [event EXCEPT ![e].flag = TRUE]
        /\ UNCHANGED <<today, minutes, serving, answers, late, sub, cuts>>

-----------------------------------------------------------------------------
(* podcast_reminders: one push to all, then letter and flag one by one.        *)

Podcasts == pass["podcast-reminders"]
ThenPodcasts(p) == pass' = [pass EXCEPT !["podcast-reminders"] = p]

\* send_email does not say why it failed, without an address or mail it is not called.
Letter(r, sent) ==
    /\ Podcasts.step = "next"
    /\ r \in Podcasts.left
    /\ sub' = IF sub[r[1]].until # r[2] THEN sub
              ELSE IF sent THEN [sub EXCEPT ![r[1]].told = @ + 1]
              ELSE [sub EXCEPT ![r[1]].missed = TRUE]
    /\ ThenPodcasts([step |-> "flag", left |-> Podcasts.left \ {r}, at |-> r[1], who |-> {}])
    /\ UNCHANGED <<today, minutes, serving, event, answers, late, cuts>>

FlagSubscriber ==
    /\ Podcasts.step = "flag"
    /\ sub' = [sub EXCEPT ![Podcasts.at].flag = TRUE]
    /\ ThenPodcasts(Rest(Podcasts))
    /\ UNCHANGED <<today, minutes, serving, event, answers, late, cuts>>

-----------------------------------------------------------------------------
(* Requests: payments, answers, the office.                                    *)

\* A pass of whose rows this subscriber is one is overtaken by the payment.
Overtakes(g) == Podcasts.at = g \/ \E r \in Podcasts.left : r[1] = g
Extend(g) ==
    /\ sub[g].paid < MaxPaid
    /\ sub' = [sub EXCEPT ![g] =
          [until |-> NextPodcastExpiry(@.until, today), flag |-> FALSE, told |-> 0, missed |-> FALSE,
           owed |-> (IF @.owed > today THEN @.owed ELSE today) + 365,
           paid |-> @.paid + 1, overtook |-> Overtakes(g)]]
    /\ UNCHANGED <<today, minutes, serving, pass, event, answers, late, cuts>>

Rsvp(e, g) ==
    /\ event[e].state = "published"
    /\ IF g \in answers[e]
       THEN answers' = [answers EXCEPT ![e] = @ \ {g}] /\ late' = [late EXCEPT ![e] = @ \ {g}]
       ELSE answers' = [answers EXCEPT ![e] = @ \cup {g}] /\ late' = [late EXCEPT ![e] = @ \cup {g}]
    /\ UNCHANGED <<today, minutes, serving, pass, event, sub, cuts>>

\* A new day, or a new state; the flag stays as it is.
Create(e, d) ==
    /\ event[e].state = "absent"
    /\ today < d
    /\ Events.at # e /\ e \notin Events.left
    /\ event' = [event EXCEPT ![e] = [Gone EXCEPT !.state = "published", !.due = d]]
    /\ UNCHANGED <<today, minutes, serving, pass, answers, late, sub, cuts>>
Patch(e, d, state) ==
    /\ event[e].state # "absent"
    /\ event' = [event EXCEPT ![e].due = d, ![e].state = state]
    /\ UNCHANGED <<today, minutes, serving, pass, answers, late, sub, cuts>>
DeleteEvent(e) ==
    /\ event[e].state # "absent"
    /\ event' = [event EXCEPT ![e] = Gone]
    /\ answers' = [answers EXCEPT ![e] = {}]
    /\ late' = [late EXCEPT ![e] = {}]
    /\ UNCHANGED <<today, minutes, serving, pass, sub, cuts>>

-----------------------------------------------------------------------------
InitReminders ==
    /\ today = CHOOSE d \in Clock : \A x \in Clock : d <= x
    /\ minutes = Job
    /\ serving = "up"
    /\ pass = [j \in Job |-> NoPass]
    /\ event = [e \in Event |-> Gone]
    /\ answers = [e \in Event |-> {}] /\ late = [e \in Event |-> {}]
    /\ sub = [g \in Guest |-> [until |-> 0, flag |-> FALSE, told |-> 0, missed |-> FALSE, owed |-> 0, paid |-> 0,
                            overtook |-> FALSE]]
    /\ cuts = 0

NextReminders ==
    \/ TickEvents \/ TickPodcasts \/ Stop \/ Restart
    \/ \E j \in Job : Skipped(j) \/ Cut(j)
    \/ \E d \in Clock : NextDay(d) \/ \E e \in Event : Create(e, d) \/ \E s \in {"published", "canceled"} : Patch(e, d, s)
    \/ \E e \in Event : ReadAnswers(e) \/ DeleteEvent(e) \/ \E g \in Guest : Rsvp(e, g)
    \/ PushEvent \/ FlagEvent \/ FlagSubscriber
    \/ \E r \in Podcasts.left, sent \in BOOLEAN : Letter(r, sent)
    \/ \E g \in Guest : Extend(g)
RemindersSpec == InitReminders /\ [][NextReminders]_remindersVars

-----------------------------------------------------------------------------
\* A flag stands for messages that were sent, whether or not they arrived: of a
\* flagged event everybody was told, or the message failed, whose answer was there
\* when the pass read them, and a flagged subscriber was told of the present end, or
\* the letter failed, or a payment overtook the pass; and nobody is told more often
\* than a pass was cut off. What failed is not tried again.
RemindersMatchFlags ==
    /\ \A e \in Event :
          /\ event[e].flag => answers[e] \ late[e] \subseteq event[e].told \cup event[e].missed
          /\ event[e].rounds <= 1 + cuts
    /\ \A g \in Guest :
          /\ sub[g].flag /\ sub[g].told = 0 => sub[g].missed \/ sub[g].overtook
          /\ sub[g].told <= 1 + cuts

\* Every year that is paid lasts a year: from the end of what was paid before, or
\* from today if that is over, at least 365 days and one more at most.
PaidYearsLast ==
    \A g \in Guest : sub[g].owed <= sub[g].until /\ sub[g].until <= sub[g].owed + sub[g].paid
=============================================================================
