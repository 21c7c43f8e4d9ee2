------------------------------ MODULE Admission ------------------------------
(* What stands before a handler: the limits on requests per client, and the    *)
(* counters of failed logins per address and client. All are kept in memory,   *)
(* with the times of a clock that only grows; a login is checked before its    *)
(* password is verified in a thread and counted after it.                      *)
EXTENDS Naturals, Sequences, FiniteSets

CONSTANTS
    Limited,    \* the limits a request is under: of the client, then of the route
    Maximum,    \* per limit: requests
    Span,       \* per limit: seconds in which they may come
    Sweep, Keep,    \* how often old counters are removed, and how old they are
    Visitor, Login, \* clients, and requests of login in progress
    MaxEmail, MaxIp,    \* failures after which an address, a client, is locked
    LockEmail, LockIp,  \* for how long
    AttemptSpan,    \* WINDOW_SECONDS
    EndOfTime       \* bound on the clock

VARIABLES
    clock,
    entries,    \* per limit: times of the requests that count
    swept,      \* when old counters were last removed
    served,     \* history: times of the requests that passed, within the span
    byEmail, byIp,  \* failures: how many, since when, locked until
    login,      \* per login: its client while its password is verified
    wrong       \* history: failures of the address since a success, within the span

limits == <<entries, swept, served>>
attempts == <<byEmail, byIp, login, wrong>>
admissionVars == <<clock, limits, attempts>>

NoFails == [fails |-> 0, first |-> 0, until |-> 0]
\* What is left of the times when those a span before now have left at the front.
Recent(times, span, now) ==
    LET gone == CHOOSE n \in 0..Len(times) :
                    /\ \A m \in 1..n : times[m] + span <= now
                    /\ n < Len(times) => times[n + 1] + span > now
    IN  SubSeq(times, gone + 1, Len(times))

-----------------------------------------------------------------------------
(* RateLimits.check: the counters that have been left alone are removed, then  *)
(* the ones before the span; a refused request makes the last one younger.     *)

Swept(all, now) ==
    [l \in Limited |->
        IF now - swept >= Sweep /\ all[l] # <<>> /\ now - all[l][Len(all[l])] >= Keep THEN <<>> ELSE all[l]]
Allowed(l, times) == Len(times) < Maximum[l]
Counted(l, times, now) ==
    IF Allowed(l, times) THEN Append(times, now)
    ELSE IF times # <<>> THEN [times EXCEPT ![Len(times)] = now] ELSE times

\* The middleware asks for the client's limit first and stops when it is reached.
Request ==
    LET now == clock
        all == Swept(entries, now)
        global == Recent(all["global"], Span["global"], now)
        route == Recent(all["route"], Span["route"], now)
        pass == Allowed("global", global)
    IN  /\ entries' = [l \in Limited |->
                        CASE l = "global" -> Counted(l, global, now)
                          [] l = "route" /\ pass -> Counted(l, route, now)
                          [] OTHER -> all[l]]
        /\ swept' = IF now - swept >= Sweep THEN now ELSE swept
        /\ served' = [l \in Limited |->
                        IF Allowed("global", global) /\ (l = "route" => Allowed("route", route))
                        THEN Append(served[l], now) ELSE served[l]]
        /\ UNCHANGED <<clock, attempts>>

-----------------------------------------------------------------------------
(* login.                                                                      *)

\* cleanup, then either counter's lock.
Stale(e, now) == e.until < now /\ now - e.first > AttemptSpan
Cleaned(now) == /\ byEmail' = IF Stale(byEmail, now) THEN NoFails ELSE byEmail
                /\ byIp' = [v \in Visitor |-> IF Stale(byIp[v], now) THEN NoFails ELSE byIp[v]]
Locked(v) == byEmail.until > clock \/ byIp[v].until > clock

StartLogin(h, v) ==
    /\ login[h] = "none"
    /\ Cleaned(clock)
    /\ login' = IF Locked(v) THEN login ELSE [login EXCEPT ![h] = v]
    /\ UNCHANGED <<clock, limits, wrong>>

\* Mutant: only the first failure counts.
FailedOnce(e, maximum, duration) == IF e.fails = 0 THEN [fails |-> 1, first |-> clock, until |-> 0] ELSE e
Failed(e, maximum, duration) ==
    LET old == IF e.fails = 0 \/ clock - e.first > AttemptSpan
               THEN [fails |-> 0, first |-> clock, until |-> 0] ELSE e
    IN  [fails |-> old.fails + 1, first |-> old.first,
         until |-> IF old.fails + 1 >= maximum THEN clock + duration ELSE old.until]
WrongPassword(h) ==
    /\ login[h] # "none"
    /\ byEmail' = Failed(byEmail, MaxEmail, LockEmail)
    /\ byIp' = [byIp EXCEPT ![login[h]] = Failed(byIp[login[h]], MaxIp, LockIp)]
    /\ wrong' = Append(wrong, clock)
    /\ login' = [login EXCEPT ![h] = "none"]
    /\ UNCHANGED <<clock, limits>>

\* Both counters are forgotten, whatever they were.
RightPassword(h) ==
    /\ login[h] # "none"
    /\ byEmail' = NoFails
    /\ byIp' = [byIp EXCEPT ![login[h]] = NoFails]
    /\ wrong' = <<>>
    /\ login' = [login EXCEPT ![h] = "none"]
    /\ UNCHANGED <<clock, limits>>

\* The request is cancelled, or the database fails: nothing is counted.
LoginStops(h) ==
    /\ login[h] # "none"
    /\ login' = [login EXCEPT ![h] = "none"]
    /\ UNCHANGED <<clock, limits, byEmail, byIp, wrong>>

Passes ==
    /\ clock < EndOfTime
    /\ clock' = clock + 1
    /\ served' = [l \in Limited |-> Recent(served[l], Span[l], clock')]
    /\ wrong' = Recent(wrong, AttemptSpan, clock')
    /\ UNCHANGED <<entries, swept, byEmail, byIp, login>>

-----------------------------------------------------------------------------
InitAdmission ==
    /\ clock = 0
    /\ entries = [l \in Limited |-> <<>>] /\ served = [l \in Limited |-> <<>>]
    /\ swept = 0
    /\ byEmail = NoFails /\ byIp = [v \in Visitor |-> NoFails]
    /\ login = [h \in Login |-> "none"]
    /\ wrong = <<>>
NextAdmission ==
    \/ Request \/ Passes
    \/ \E h \in Login : WrongPassword(h) \/ RightPassword(h) \/ LoginStops(h) \/ \E v \in Visitor : StartLogin(h, v)
AdmissionSpec == InitAdmission /\ [][NextAdmission]_admissionVars

-----------------------------------------------------------------------------
\* In no span of its length do more requests pass a limit than its maximum,
\* though counters are removed while they count. Wrong passwords of an address
\* are bounded too: by two windows that meet, each a failure short of the lock,
\* and in either of them by the other logins that were being verified when the
\* lock came: the lock of the first ends with a late one of them (fail).
LimitsAreKept ==
    /\ \A l \in Limited : Len(served[l]) <= Maximum[l]
    /\ Len(wrong) <= 2 * (MaxEmail - 1) + 2 * (Cardinality(Login) - 1)
=============================================================================
