--------------------------- MODULE AccountsProofs ---------------------------
(***************************************************************************)
(* Proofs about Accounts, for all members, addresses, Telegram accounts,   *)
(* handlers and links.                                                     *)
(*                                                                         *)
(* token_version and the password move together, so that a session or a    *)
(* link of the present version is one of the present password (Sessions,   *)
(* Links); every link that has been used exists (UsedLinks); until the     *)
(* office verifies it again, an erased profile is not verified and has no  *)
(* Telegram account (Erased); who was admitted through Telegram has one    *)
(* (Guests).                                                               *)
(***************************************************************************)
EXTENDS AccountsRefinement, FiniteSetTheorems, TLAPS

\* s was issued to somebody who knew the password of its version.
Knows(s) ==
  /\ s.ver <= VersionOf(s.member)
  /\ s.by = "password" =>
       s.sub = "user" /\ (s.ver = VersionOf(s.member) => s.pw = password[s.member])

Sessions ==
  /\ \A s \in sessions : Knows(s)
  /\ \A h \in Handler : task[h].step = "login" => Knows(task[h].session)

Linked(j) ==
  /\ reset[j].ver <= VersionOf(reset[j].member)
  /\ reset[j].ver = VersionOf(reset[j].member) =>
       reset[j].issued = password[reset[j].member]

Links == \A j \in Jti : reset[j] # None /\ reset[j].ver # None => Linked(j)

UsedLinks == \A j \in used : reset[j] # None

Erased ==
  \A m \in Member : account[m] = "gone" =>
    /\ "votes" \notin personal[m]
    /\ m \notin reopened =>
         telegram[m] = None /\ verification[m] # "verified" /\ "photo" \notin personal[m]

Guests ==
  \A h \in Handler :
    task[h].step = "write" /\ task[h].session.sub # "user" => task[h].telegram # None
-----------------------------------------------------------------------------
(* Types. *)

LEMMA VersionIsNat ==
  ASSUME TypeOK, NEW m \in Member
  PROVE  VersionOf(m) \in Nat
BY DEF TypeOK, Version, VersionOf

LEMMA TaskTypes ==
  ASSUME TypeOK, NEW h \in Handler
  PROVE  /\ task[h] \in Task
         /\ task[h].step = "register" => task[h].email \in Email
         /\ task[h].step = "login" => task[h].session \in Session
         /\ task[h].step = "reset" => task[h].jti \in Jti
         /\ task[h].step = "write" =>
              task[h].session \in Session /\ task[h].kind \in Kind
<1>1. task[h] \in Task
  BY DEF TypeOK
<1> QED
  BY <1>1 DEF Task, Idle

LEMMA SessionTypes ==
  ASSUME NEW s \in Session
  PROVE  s.member \in Member /\ s.ver \in Nat /\ s.pw \in Nat /\ s.sub \in Subject
BY DEF Session

LEMMA ResetTypes ==
  ASSUME TypeOK, NEW j \in Jti, reset[j] # None
  PROVE  /\ reset[j] \in Reset /\ reset[j].member \in Member
         /\ reset[j].ver \in Version /\ reset[j].issued \in Nat
<1>1. reset[j] \in Reset
  BY DEF TypeOK
<1> QED
  BY <1>1 DEF Reset

LEMMA TypeInit == Init => TypeOK
BY AccountAssumption DEF Init, TypeOK, Version, Verification, Task, Idle

\* A handler's step keeps the type of task.
LEMMA Starting ==
  ASSUME TypeOK, NEW h \in Handler, NEW t \in Task, Start(h, t)
  PROVE  task' \in [Handler -> Task]
BY DEF TypeOK, Start

LEMMA Finishing ==
  ASSUME TypeOK, NEW h \in Handler, Finish(h)
  PROVE  task' \in [Handler -> Task]
BY DEF TypeOK, Finish, Task

LEMMA TypeStep == TypeOK /\ [Next]_vars => TypeOK'
<1> SUFFICES ASSUME TypeOK, [Next]_vars PROVE TypeOK'
  OBVIOUS
<1> USE DEF userVars, profileVars
<1>1. ASSUME NEW m \in Member, Confirm(m) PROVE TypeOK'
  BY <1>1 DEF TypeOK, Confirm
<1>2. ASSUME NEW m \in Member, Forgot(m) PROVE TypeOK'
  <2>1. PICK j \in Jti : reset' = [reset EXCEPT ![j] =
          [member |-> m, ver |-> version[m], issued |-> password[m]]]
    BY <1>2 DEF Forgot
  <2>2. [member |-> m, ver |-> version[m], issued |-> password[m]] \in Reset
    BY DEF TypeOK, Reset
  <2> QED
    BY <1>2, <2>1, <2>2 DEF TypeOK, Forgot
<1>3. ASSUME NEW m \in Member, Erase(m) PROVE TypeOK'
  <2>1. version' \in [Member -> Version]
    BY <1>3, VersionIsNat DEF TypeOK, Erase, Version
  <2> QED
    BY <1>3, <2>1, AccountAssumption
    DEF TypeOK, Erase, ReleaseAddress, Unlink, Verification
<1>4. ASSUME NEW m \in Member, NEW t \in Telegram, ConsumeLink(m, t) PROVE TypeOK'
  BY <1>4 DEF TypeOK, ConsumeLink
<1>5. ASSUME NEW m \in Member, NEW v \in Ruling, PatchMember(m, v)
      PROVE  TypeOK'
  BY <1>5, AccountAssumption DEF TypeOK, PatchMember, Verification
<1>6. ASSUME NEW h \in Handler, NEW e \in Email, RegisterStart(h, e) PROVE TypeOK'
  <2>1. [step |-> "register", email |-> e] \in Task
    BY DEF Task
  <2> QED
    BY <1>6, <2>1, Starting DEF TypeOK, RegisterStart
<1>7. ASSUME NEW h \in Handler, NEW m \in Member, LoginStart(h, m) PROVE TypeOK'
  <2> DEFINE s == [member |-> m, by |-> "password", sub |-> "user",
                   ver |-> VersionOf(m), pw |-> password[m]]
  <2>1. s \in Session
    BY VersionIsNat DEF TypeOK, Session, Subject
  <2>2. [step |-> "login", session |-> s] \in Task
    BY <2>1 DEF Task
  <2> QED
    BY <1>7, <2>2, Starting DEF TypeOK, LoginStart
<1>8. ASSUME NEW h \in Handler, NEW m \in Member, TelegramStart(h, m) PROVE TypeOK'
  <2> DEFINE s == [member |-> m, by |-> "telegram",
                   sub |-> IF account[m] = "gone" THEN telegram[m] ELSE "user",
                   ver |-> VersionOf(m), pw |-> 0]
  <2>1. telegram[m] \in Telegram
    BY <1>8 DEF TypeOK, TelegramStart
  <2>2. s \in Session
    BY <2>1, VersionIsNat DEF TypeOK, Session, Subject
  <2>3. [step |-> "login", session |-> s] \in Task
    BY <2>2 DEF Task
  <2> QED
    BY <1>8, <2>3, Starting DEF TypeOK, TelegramStart
<1>9. ASSUME NEW h \in Handler, NEW j \in Jti, ResetStart(h, j) PROVE TypeOK'
  <2>1. [step |-> "reset", jti |-> j] \in Task
    BY DEF Task
  <2> QED
    BY <1>9, <2>1, Starting DEF TypeOK, ResetStart
<1>10. ASSUME NEW h \in Handler, NEW s \in sessions, NEW kind \in Kind,
              Admit(h, s, kind)
       PROVE  TypeOK'
  <2>1. s \in Session /\ s.member \in Member
    BY SessionTypes DEF TypeOK
  <2>2. [step |-> "write", session |-> s, kind |-> kind,
         verification |-> verification[s.member],
         telegram |-> telegram[s.member]] \in Task
    BY <2>1 DEF TypeOK, Task
  <2> QED
    BY <1>10, <2>2, Starting DEF TypeOK, Admit
<1>11. ASSUME NEW h \in Handler, RegisterCommit(h) PROVE TypeOK'
  <2>1. task' \in [Handler -> Task] /\ UNCHANGED <<password, version, telegram, code, reopened,
                                                  sessions, reset, used>>
    BY <1>11, Finishing DEF RegisterCommit
  <2>2. CASE UNCHANGED <<account, email, verification, personal>>
    BY <2>1, <2>2 DEF TypeOK
  <2>3. CASE \E m \in Member :
          /\ account' = [account EXCEPT ![m] = "unverified"]
          /\ email' = [email EXCEPT ![m] = task[h].email]
          /\ verification' = [verification EXCEPT ![m] = "pending"]
          /\ personal' = [personal EXCEPT ![m] = {"profile"}]
    <3>1. task[h].email \in Email /\ task[h].email # None
      BY <1>11, TaskTypes, AccountAssumption DEF RegisterCommit
    <3> QED
      BY <2>1, <2>3, <3>1 DEF TypeOK, Verification
  <2> QED
    BY <1>11, <2>2, <2>3 DEF RegisterCommit
<1>12. ASSUME NEW h \in Handler, LoginFinish(h) PROVE TypeOK'
  <2>1. sessions' \subseteq Session
    BY <1>12, TaskTypes DEF TypeOK, LoginFinish, Issued
  <2> QED
    BY <1>12, <2>1, Finishing DEF TypeOK, LoginFinish
<1>13. ASSUME NEW h \in Handler, ResetCommit(h) PROVE TypeOK'
  <2> DEFINE j == task[h].jti
  <2>1. j \in Jti
    BY <1>13, TaskTypes DEF ResetCommit
  <2>2. CASE Usable(j)
    <3>1. reset[j].member \in Member
      BY <2>1, <2>2, ResetTypes DEF Usable
    <3>2. version' \in [Member -> Version] /\ password' \in [Member -> Nat]
      BY <1>13, <2>2, <3>1, VersionIsNat DEF TypeOK, ResetCommit, Version
    <3> QED
      BY <1>13, <2>1, <2>2, <3>2, Finishing DEF TypeOK, ResetCommit
  <2>3. CASE ~Usable(j)
    BY <1>13, <2>3, Finishing DEF TypeOK, ResetCommit
  <2> QED
    BY <2>2, <2>3
<1>14. ASSUME NEW h \in Handler, Write(h) PROVE TypeOK'
  <2>1. task[h].session \in Session /\ task[h].session.member \in Member
        /\ task[h].kind \in Kind
    BY <1>14, TaskTypes, SessionTypes DEF Write
  <2>2. code' \subseteq Member
    BY <1>14, <2>1 DEF TypeOK, Write
  <2>3. personal' \in [Member -> SUBSET (Kind \cup {"profile"})]
    BY <1>14, <2>1 DEF TypeOK, Write
  <2> QED
    BY <1>14, <2>2, <2>3, Finishing DEF TypeOK, Write
<1>15. ASSUME NEW h \in Handler, HandlerStops(h) PROVE TypeOK'
  BY <1>15, Finishing DEF TypeOK, HandlerStops
<1>16. CASE UNCHANGED vars
  BY <1>16 DEF TypeOK, vars
<1> QED
  BY <1>1, <1>2, <1>3, <1>4, <1>5, <1>6, <1>7, <1>8, <1>9, <1>10, <1>11, <1>12,
     <1>13, <1>14, <1>15, <1>16
  DEF Next, MemberNext, HandlerNext

\* Every state's variables have their types, and exactly the users that exist
\* have an address.
THEOREM TypeCorrect == Spec => []TypeOK
BY TypeInit, TypeStep, PTL DEF Spec
-----------------------------------------------------------------------------
(* One account per address, one profile per Telegram account. *)

\* Which actions write users and addresses.
LEMMA UserSteps ==
  ASSUME [Next]_vars
  PROVE  \/ UNCHANGED <<account, email>>
         \/ \E h \in Handler : RegisterCommit(h) /\ StillFree(task[h].email)
         \/ \E m \in Member : Confirm(m) \/ Erase(m)
<1> USE DEF userVars, profileVars
<1>1. ASSUME MemberNext
      PROVE  \/ UNCHANGED <<account, email>>
             \/ \E h \in Handler : RegisterCommit(h) /\ StillFree(task[h].email)
             \/ \E m \in Member : Confirm(m) \/ Erase(m)
  BY <1>1 DEF MemberNext, Forgot, ConsumeLink, PatchMember
<1>2. ASSUME HandlerNext
      PROVE  \/ UNCHANGED <<account, email>>
             \/ \E h \in Handler : RegisterCommit(h) /\ StillFree(task[h].email)
             \/ \E m \in Member : Confirm(m) \/ Erase(m)
  <2>1. ASSUME NEW h \in Handler, RegisterCommit(h)
        PROVE  UNCHANGED <<account, email>> \/ StillFree(task[h].email)
    BY <2>1 DEF RegisterCommit
  <2> QED
    BY <1>2, <2>1 DEF HandlerNext, RegisterStart, LoginStart, TelegramStart, ResetStart,
           Admit, LoginFinish, ResetCommit, Write, HandlerStops
<1>3. CASE UNCHANGED vars
  BY <1>3 DEF vars
<1> QED
  BY <1>1, <1>2, <1>3 DEF Next

LEMMA EmailStep ==
  ASSUME TypeOK, OneAccountPerEmail, [Next]_vars
  PROVE  OneAccountPerEmail'
<1>1. ASSUME NEW h \in Handler, RegisterCommit(h), StillFree(task[h].email)
      PROVE  OneAccountPerEmail'
  <2>1. PICK m \in Member :
          /\ account' = [account EXCEPT ![m] = "unverified"]
          /\ email' = [email EXCEPT ![m] = task[h].email]
    BY <1>1 DEF RegisterCommit
  <2>2. \A n \in Member : Recoverable(n) => email[n] # task[h].email
    BY <1>1 DEF StillFree, Taken
  <2> QED
    BY <2>1, <2>2 DEF TypeOK, OneAccountPerEmail, Recoverable
<1>2. ASSUME NEW m \in Member, Confirm(m) PROVE OneAccountPerEmail'
  BY <1>2 DEF TypeOK, OneAccountPerEmail, Recoverable, Confirm
<1>3. ASSUME NEW m \in Member, Erase(m) PROVE OneAccountPerEmail'
  BY <1>3 DEF TypeOK, OneAccountPerEmail, Recoverable, Erase, ReleaseAddress
<1>4. CASE UNCHANGED <<account, email>>
  BY <1>4 DEF OneAccountPerEmail, Recoverable
<1> QED
  BY <1>1, <1>2, <1>3, <1>4, UserSteps

\* No two registrations leave two accounts of one address.
THEOREM EmailIsUnique == Spec => []OneAccountPerEmail
<1>1. Init => OneAccountPerEmail
  BY AccountAssumption DEF Init, OneAccountPerEmail, Recoverable
<1> QED
  BY <1>1, EmailStep, TypeCorrect, PTL DEF Spec

LEMMA TelegramSteps ==
  ASSUME [Next]_vars
  PROVE  \/ UNCHANGED telegram
         \/ \E m \in Member : Erase(m) \/ \E t \in Telegram : ConsumeLink(m, t)
<1> USE DEF userVars, profileVars
<1>1. ASSUME MemberNext
      PROVE  \/ UNCHANGED telegram
             \/ \E m \in Member : Erase(m) \/ \E t \in Telegram : ConsumeLink(m, t)
  BY <1>1 DEF MemberNext, Confirm, Forgot, PatchMember
<1>2. ASSUME HandlerNext
      PROVE  \/ UNCHANGED telegram
             \/ \E m \in Member : Erase(m) \/ \E t \in Telegram : ConsumeLink(m, t)
  BY <1>2 DEF HandlerNext, RegisterStart, LoginStart, TelegramStart, ResetStart, Admit,
         RegisterCommit, LoginFinish, ResetCommit, Write, HandlerStops
<1>3. CASE UNCHANGED vars
  BY <1>3 DEF vars
<1> QED
  BY <1>1, <1>2, <1>3 DEF Next

\* No Telegram account leads to two profiles.
THEOREM TelegramIsUnique == Spec => []OneProfilePerTelegram
<1>1. Init => OneProfilePerTelegram
  BY DEF Init, OneProfilePerTelegram
<1>2. TypeOK /\ OneProfilePerTelegram /\ [Next]_vars => OneProfilePerTelegram'
  <2> SUFFICES ASSUME TypeOK, OneProfilePerTelegram, [Next]_vars
               PROVE  OneProfilePerTelegram'
    OBVIOUS
  <2>1. ASSUME NEW m \in Member, NEW t \in Telegram, ConsumeLink(m, t)
        PROVE  OneProfilePerTelegram'
    BY <2>1 DEF TypeOK, OneProfilePerTelegram, ConsumeLink, FreeFor
  <2>2. ASSUME NEW m \in Member, Erase(m) PROVE OneProfilePerTelegram'
    BY <2>2 DEF TypeOK, OneProfilePerTelegram, Erase, Unlink
  <2>3. CASE UNCHANGED telegram
    BY <2>3 DEF OneProfilePerTelegram
  <2> QED
    BY <2>1, <2>2, <2>3, TelegramSteps
<1> QED
  BY <1>1, <1>2, TypeCorrect, PTL DEF Spec
-----------------------------------------------------------------------------
(* Passwords, sessions and reset links. *)

\* A version that has not moved is one of the same password.
Together ==
  \A m \in Member :
    /\ VersionOf(m) <= VersionOf(m)'
    /\ VersionOf(m)' = VersionOf(m) => password'[m] = password[m]

\* Which actions write versions and passwords.
LEMMA VersionSteps ==
  ASSUME [Next]_vars
  PROVE  \/ UNCHANGED <<version, password>>
         \/ \E m \in Member : Erase(m)
         \/ \E h \in Handler : ResetCommit(h) /\ Usable(task[h].jti)
<1> USE DEF userVars, profileVars
<1>1. ASSUME MemberNext
      PROVE  \/ UNCHANGED <<version, password>>
             \/ \E m \in Member : Erase(m)
             \/ \E h \in Handler : ResetCommit(h) /\ Usable(task[h].jti)
  BY <1>1 DEF MemberNext, Confirm, Forgot, ConsumeLink, PatchMember
<1>2. ASSUME HandlerNext
      PROVE  \/ UNCHANGED <<version, password>>
             \/ \E m \in Member : Erase(m)
             \/ \E h \in Handler : ResetCommit(h) /\ Usable(task[h].jti)
  BY <1>2 DEF HandlerNext, RegisterStart, LoginStart, TelegramStart, ResetStart, Admit,
         RegisterCommit, LoginFinish, ResetCommit, Write, HandlerStops
<1>3. CASE UNCHANGED vars
  BY <1>3 DEF vars
<1> QED
  BY <1>1, <1>2, <1>3 DEF Next

LEMMA TogetherStep ==
  ASSUME TypeOK, [Next]_vars
  PROVE  Together
<1>1. ASSUME NEW m \in Member, Erase(m) PROVE Together
  BY <1>1, VersionIsNat, AccountAssumption
  DEF TypeOK, Together, Erase, Version, VersionOf
<1>2. ASSUME NEW h \in Handler, ResetCommit(h), Usable(task[h].jti) PROVE Together
  <2>1. task[h].jti \in Jti
    BY <1>2, TaskTypes DEF ResetCommit
  <2>2. reset[task[h].jti].member \in Member
    BY <1>2, <2>1, ResetTypes DEF Usable
  <2> QED
    BY <1>2, <2>2, VersionIsNat, AccountAssumption
    DEF TypeOK, Together, ResetCommit, Version, VersionOf
<1>3. CASE UNCHANGED <<version, password>>
  BY <1>3, VersionIsNat DEF Together, VersionOf
<1> QED
  BY <1>1, <1>2, <1>3, VersionSteps

\* What a session knew stays known.
LEMMA KnownStays ==
  ASSUME TypeOK, TypeOK', Together, NEW s \in Session, Knows(s)
  PROVE  Knows(s)'
<1>1. s.member \in Member /\ s.ver \in Nat
  BY SessionTypes
<1>2. VersionOf(s.member) \in Nat
  BY <1>1, VersionIsNat
<1>3. VersionOf(s.member)' \in Nat
  BY <1>1 DEF TypeOK, VersionOf, Version
<1> QED
  BY <1>1, <1>2, <1>3 DEF Knows, Together

LEMMA SessionSteps ==
  ASSUME [Next]_vars
  PROVE  \/ UNCHANGED sessions
         \/ \E h \in Handler : LoginFinish(h)
<1> USE DEF userVars, profileVars
<1>1. ASSUME MemberNext
      PROVE  \/ UNCHANGED sessions
             \/ \E h \in Handler : LoginFinish(h)
  BY <1>1 DEF MemberNext, Confirm, Forgot, Erase, ConsumeLink, PatchMember
<1>2. ASSUME HandlerNext
      PROVE  \/ UNCHANGED sessions
             \/ \E h \in Handler : LoginFinish(h)
  BY <1>2 DEF HandlerNext, RegisterStart, LoginStart, TelegramStart, ResetStart, Admit,
         RegisterCommit, ResetCommit, Write, HandlerStops
<1>3. CASE UNCHANGED vars
  BY <1>3 DEF vars
<1> QED
  BY <1>1, <1>2, <1>3 DEF Next

\* A login that has begun was under way before, or has just read the profile.
LEMMA LoginSteps ==
  ASSUME TypeOK, [Next]_vars, NEW h \in Handler, task'[h].step = "login"
  PROVE  \/ task'[h] = task[h]
         \/ \E m \in Member : LoginStart(h, m) \/ TelegramStart(h, m)
<1>1. \/ UNCHANGED task
      \/ \E g \in Handler :
           \/ Finish(g)
           \/ \E e \in Email : RegisterStart(g, e)
           \/ \E m \in Member : LoginStart(g, m) \/ TelegramStart(g, m)
           \/ \E j \in Jti : ResetStart(g, j)
           \/ \E s \in sessions, kind \in Kind : Admit(g, s, kind)
  BY DEF Next, MemberNext, HandlerNext, vars, userVars, profileVars, Confirm,
         Forgot, ConsumeLink, PatchMember, Erase, RegisterCommit, LoginFinish,
         ResetCommit, Write, HandlerStops
<1>2. ASSUME NEW g \in Handler, Finish(g) PROVE task'[h] = task[h]
  BY <1>2 DEF TypeOK, Finish, Idle
<1>3. ASSUME NEW g \in Handler, NEW e \in Email, RegisterStart(g, e)
      PROVE  task'[h] = task[h]
  BY <1>3 DEF TypeOK, RegisterStart, Start
<1>4. ASSUME NEW g \in Handler, NEW j \in Jti, ResetStart(g, j)
      PROVE  task'[h] = task[h]
  BY <1>4 DEF TypeOK, ResetStart, Start
<1>5. ASSUME NEW g \in Handler, NEW s \in sessions, NEW kind \in Kind,
             Admit(g, s, kind)
      PROVE  task'[h] = task[h]
  BY <1>5 DEF TypeOK, Admit, Start
<1>6. ASSUME NEW g \in Handler, NEW m \in Member,
             LoginStart(g, m) \/ TelegramStart(g, m)
      PROVE  g = h \/ task'[h] = task[h]
  BY <1>6 DEF TypeOK, LoginStart, TelegramStart, Start
<1> QED
  BY <1>1, <1>2, <1>3, <1>4, <1>5, <1>6

LEMMA SessionsStep ==
  ASSUME TypeOK, TypeOK', Sessions, [Next]_vars
  PROVE  Sessions'
<1>1. Together
  BY TogetherStep
<1>2. ASSUME NEW s \in sessions' PROVE Knows(s)'
  <2>1. CASE s \in sessions
    BY <2>1, <1>1, KnownStays DEF TypeOK, Sessions
  <2>2. CASE s \notin sessions
    <3>1. PICK h \in Handler : LoginFinish(h)
      BY <1>2, <2>2, SessionSteps
    <3>2. s = task[h].session /\ task[h].step = "login"
      BY <1>2, <2>2, <3>1 DEF LoginFinish, Issued
    <3> QED
      BY <3>2, <1>1, KnownStays, TaskTypes DEF Sessions
  <2> QED
    BY <2>1, <2>2
<1>3. ASSUME NEW h \in Handler, task'[h].step = "login"
      PROVE  Knows(task[h].session)'
  <2>1. CASE task'[h] = task[h]
    BY <2>1, <1>1, <1>3, KnownStays, TaskTypes DEF Sessions
  <2>2. ASSUME NEW m \in Member, LoginStart(h, m)
        PROVE  Knows(task[h].session)'
    BY <2>2, VersionIsNat
    DEF TypeOK, LoginStart, Start, Knows, VersionOf, userVars, profileVars
  <2>3. ASSUME NEW m \in Member, TelegramStart(h, m)
        PROVE  Knows(task[h].session)'
    BY <2>3, VersionIsNat
    DEF TypeOK, TelegramStart, Start, Knows, VersionOf, userVars, profileVars
  <2> QED
    BY <1>3, <2>1, <2>2, <2>3, LoginSteps
<1> QED
  BY <1>2, <1>3 DEF Sessions

\* Nobody is let in by a session of a password that has been replaced.
THEOREM SessionsAreOfThePassword == Spec => []SessionsKnowPassword
<1>1. Init => Sessions
  BY DEF Init, Sessions, Idle
<1>2. Spec => []Sessions
  BY <1>1, SessionsStep, TypeCorrect, PTL DEF Spec
<1>3. TypeOK /\ Sessions => SessionsKnowPassword
  BY AccountAssumption
  DEF TypeOK, Sessions, Knows, SessionsKnowPassword, Accepted, Session
<1> QED
  BY <1>2, <1>3, TypeCorrect, PTL

\* Which actions write reset links.
LEMMA LinkSteps ==
  ASSUME [Next]_vars
  PROVE  \/ UNCHANGED reset
         \/ \E m \in Member : Forgot(m)
<1> USE DEF userVars, profileVars
<1>1. ASSUME MemberNext
      PROVE  \/ UNCHANGED reset
             \/ \E m \in Member : Forgot(m)
  BY <1>1 DEF MemberNext, Confirm, Erase, ConsumeLink, PatchMember
<1>2. ASSUME HandlerNext
      PROVE  \/ UNCHANGED reset
             \/ \E m \in Member : Forgot(m)
  BY <1>2 DEF HandlerNext, RegisterStart, LoginStart, TelegramStart, ResetStart, Admit,
         RegisterCommit, LoginFinish, ResetCommit, Write, HandlerStops
<1>3. CASE UNCHANGED vars
  BY <1>3 DEF vars
<1> QED
  BY <1>1, <1>2, <1>3 DEF Next

LEMMA LinksStep ==
  ASSUME TypeOK, TypeOK', Links, [Next]_vars
  PROVE  Links'
<1>1. Together
  BY TogetherStep
<1>2. ASSUME NEW j \in Jti, reset[j] # None, reset[j].ver # None,
             reset'[j] = reset[j]
      PROVE  Linked(j)'
  <2>1. PICK m \in Member, v \in Nat : m = reset[j].member /\ v = reset[j].ver
    BY <1>2, ResetTypes DEF Version
  <2>2. VersionOf(m) \in Nat
    BY <2>1, VersionIsNat
  <2>3. VersionOf(m)' \in Nat
    BY <2>1 DEF TypeOK, VersionOf, Version
  <2>4. v <= VersionOf(m) /\ (v = VersionOf(m) => reset[j].issued = password[m])
    BY <1>2, <2>1 DEF Links, Linked
  <2>5. VersionOf(m) <= VersionOf(m)'
        /\ (VersionOf(m)' = VersionOf(m) => password'[m] = password[m])
    BY <1>1, <2>1 DEF Together
  <2>6. v <= VersionOf(m)' /\ (v = VersionOf(m)' => reset[j].issued = password'[m])
    BY <2>1, <2>2, <2>3, <2>4, <2>5
  <2> QED
    BY <1>2, <2>1, <2>6 DEF Linked, VersionOf
<1>3. CASE UNCHANGED reset
  BY <1>2, <1>3 DEF Links
<1>4. ASSUME NEW m \in Member, Forgot(m) PROVE Links'
  <2>1. PICK i \in Jti : reset[i] = None /\ reset' = [reset EXCEPT ![i] =
          [member |-> m, ver |-> version[m], issued |-> password[m]]]
    BY <1>4 DEF Forgot
  <2>2. UNCHANGED <<version, password>>
    BY <1>4 DEF Forgot, userVars, profileVars
  <2>3. \A j \in Jti \ {i} : reset'[j] = reset[j]
    BY <2>1 DEF TypeOK
  <2>4. reset'[i] = [member |-> m, ver |-> version[m], issued |-> password[m]]
    BY <2>1 DEF TypeOK
  <2>5. version[m] # None => version[m] \in Nat /\ VersionOf(m)' = version[m]
    BY <2>2 DEF TypeOK, Version, VersionOf
  <2> QED
    BY <1>2, <2>2, <2>3, <2>4, <2>5 DEF Links, Linked, VersionOf
<1> QED
  BY <1>3, <1>4, LinkSteps

\* A link mailed before another reset does not work after it.
THEOREM OnlyTheLatestPassword == Spec => []OlderLinksAreDead
<1>1. Init => Links
  BY DEF Init, Links
<1>2. Spec => []Links
  BY <1>1, LinksStep, TypeCorrect, PTL DEF Spec
<1>3. TypeOK /\ Links => OlderLinksAreDead
  BY ResetTypes DEF Links, Linked, OlderLinksAreDead, Usable, Current
<1> QED
  BY <1>2, <1>3, TypeCorrect, PTL

\* Links that have been used by m.
UsedBy(m) == {j \in used : reset[j].member = m}

LEMMA UsedIsFinite ==
  ASSUME TypeOK, NEW m \in Member
  PROVE  IsFiniteSet(UsedBy(m))
BY AccountAssumption, FS_Subset, UsedBy(m) \subseteq Jti DEF TypeOK, UsedBy

\* Which actions write passwords and used links.
LEMMA UsedSteps ==
  ASSUME [Next]_vars
  PROVE  \/ UNCHANGED <<used, password>>
         \/ \E h \in Handler : ResetCommit(h) /\ Usable(task[h].jti)
<1> USE DEF userVars, profileVars
<1>1. ASSUME MemberNext
      PROVE  \/ UNCHANGED <<used, password>>
             \/ \E h \in Handler : ResetCommit(h) /\ Usable(task[h].jti)
  BY <1>1 DEF MemberNext, Confirm, Forgot, Erase, ConsumeLink, PatchMember
<1>2. ASSUME HandlerNext
      PROVE  \/ UNCHANGED <<used, password>>
             \/ \E h \in Handler : ResetCommit(h) /\ Usable(task[h].jti)
  BY <1>2 DEF HandlerNext, RegisterStart, LoginStart, TelegramStart, ResetStart, Admit,
         RegisterCommit, LoginFinish, ResetCommit, Write, HandlerStops
<1>3. CASE UNCHANGED vars
  BY <1>3 DEF vars
<1> QED
  BY <1>1, <1>2, <1>3 DEF Next

\* A link that has been used is not made again.
LEMMA UsedLinksStay ==
  ASSUME TypeOK, UsedLinks, [Next]_vars, NEW j \in used
  PROVE  reset'[j] = reset[j] /\ reset[j] # None
BY LinkSteps DEF TypeOK, UsedLinks, Forgot

LEMMA ResetsStep ==
  ASSUME TypeOK, UsedLinks, OneResetPerLink, [Next]_vars
  PROVE  UsedLinks' /\ OneResetPerLink'
<1>1. CASE UNCHANGED <<used, password>>
  <2>1. \A m \in Member : UsedBy(m)' = UsedBy(m)
    BY <1>1, UsedLinksStay DEF UsedBy
  <2>2. UsedLinks'
    BY <1>1, UsedLinksStay DEF UsedLinks
  <2> QED
    BY <1>1, <2>1, <2>2 DEF OneResetPerLink, UsedBy
<1>2. ASSUME NEW h \in Handler, ResetCommit(h), Usable(task[h].jti)
      PROVE  UsedLinks' /\ OneResetPerLink'
  <2>1. PICK j \in Jti : j = task[h].jti /\ reset[j] # None /\ j \notin used
    BY <1>2, TaskTypes DEF ResetCommit, Usable, Unused
  <2>2. PICK m \in Member : m = reset[j].member
    BY <2>1, ResetTypes
  <2>3. /\ used' = used \cup {j} /\ UNCHANGED reset
        /\ password' = [password EXCEPT ![m] = @ + 1]
    BY <1>2, <2>1, <2>2 DEF ResetCommit
  <2>4. UsedLinks'
    BY <2>1, <2>3 DEF UsedLinks
  <2>5. UsedBy(m)' = UsedBy(m) \cup {j} /\ j \notin UsedBy(m)
    BY <2>1, <2>2, <2>3 DEF UsedBy
  <2>6. Cardinality(UsedBy(m)') = Cardinality(UsedBy(m)) + 1
    BY <2>2, <2>5, UsedIsFinite, FS_AddElement
  <2>7. \A n \in Member \ {m} : UsedBy(n)' = UsedBy(n)
    BY <2>2, <2>3 DEF UsedBy
  <2>8. \A n \in Member : password[n] = Cardinality(UsedBy(n))
    BY DEF OneResetPerLink, UsedBy
  <2>9. \A n \in Member : password'[n] = Cardinality(UsedBy(n)')
    BY <2>2, <2>3, <2>6, <2>7, <2>8 DEF TypeOK
  <2> QED
    BY <2>4, <2>9 DEF OneResetPerLink, UsedBy
<1> QED
  BY <1>1, <1>2, UsedSteps

\* The password changed once for each link that was used.
THEOREM ResetsAreOnce == Spec => []OneResetPerLink
<1>1. Init => UsedLinks /\ OneResetPerLink
  <2>1. Init => \A m \in Member : UsedBy(m) = {}
    BY DEF Init, UsedBy
  <2> QED
    BY <2>1, FS_EmptySet DEF Init, UsedLinks, OneResetPerLink, UsedBy
<1> QED
  BY <1>1, ResetsStep, TypeCorrect, PTL DEF Spec

\* Every change of the password has spent a link of its own and ended the older ones.
THEOREM ResetsSpendLinks == Spec => []ResetLinksAreSpent
<1>1. OneResetPerLink /\ OlderLinksAreDead => ResetLinksAreSpent
  BY DEF ResetLinksAreSpent
<1> QED
  BY <1>1, ResetsAreOnce, OnlyTheLatestPassword, PTL
-----------------------------------------------------------------------------
(* Erasure. *)

LEMMA ErasedStep ==
  ASSUME TypeOK, Erased, Guests, [Next]_vars
  PROVE  Erased'
<1> USE DEF userVars, profileVars
<1>1. ASSUME NEW h \in Handler, RegisterCommit(h) PROVE Erased'
  BY <1>1 DEF TypeOK, Erased, RegisterCommit
<1>2. ASSUME NEW m \in Member, Confirm(m) PROVE Erased'
  BY <1>2 DEF TypeOK, Erased, Confirm
<1>3. ASSUME NEW m \in Member, Erase(m) PROVE Erased'
  BY <1>3 DEF TypeOK, Erased, Erase, Unlink
<1>4. ASSUME NEW m \in Member, NEW t \in Telegram, ConsumeLink(m, t) PROVE Erased'
  BY <1>4 DEF TypeOK, Erased, ConsumeLink
<1>5. ASSUME NEW m \in Member, NEW v \in Ruling, PatchMember(m, v)
      PROVE  Erased'
  <2>1. CASE account[m] = "gone" /\ v = "verified"
    BY <1>5, <2>1 DEF TypeOK, Erased, PatchMember
  <2>2. CASE ~(account[m] = "gone" /\ v = "verified")
    BY <1>5, <2>2 DEF TypeOK, Erased, PatchMember
  <2> QED
    BY <2>1, <2>2
<1>6. ASSUME NEW h \in Handler, Write(h) PROVE Erased'
  <2> DEFINE t == task[h]
             m == t.session.member
  <2>1. m \in Member /\ UNCHANGED <<account, telegram, verification, reopened>>
    BY <1>6, TaskTypes, SessionTypes DEF Write
  <2>2. CASE account[m] = "gone"
    <3>1. t.kind = "votes" => ~MayWrite(t)
      BY <2>2 DEF MayWrite, Recoverable
    <3>2. t.kind = "photo" /\ m \notin reopened => ~MayWrite(t)
      BY <1>6, <2>1, <2>2 DEF Erased, Guests, MayWrite, SameProfile, Recoverable, Write
    <3> QED
      BY <1>6, <2>1, <3>1, <3>2 DEF TypeOK, Erased, Write
  <2>3. CASE account[m] # "gone"
    BY <1>6, <2>1, <2>3 DEF TypeOK, Erased, Write
  <2> QED
    BY <2>2, <2>3
<1>7. CASE UNCHANGED <<account, telegram, verification, personal, reopened>>
  BY <1>7 DEF Erased
<1> QED
  BY <1>1, <1>2, <1>3, <1>4, <1>5, <1>6, <1>7
  DEF Next, MemberNext, HandlerNext, vars, Forgot, RegisterStart, LoginStart,
      TelegramStart, ResetStart, Admit, LoginFinish, ResetCommit, HandlerStops

\* A request admitted with a Telegram session has read the account it is of.
LEMMA GuestsStep ==
  ASSUME TypeOK, Guests, [Next]_vars
  PROVE  Guests'
<1>1. ASSUME NEW h \in Handler, NEW s \in sessions, NEW kind \in Kind,
             Admit(h, s, kind)
      PROVE  Guests'
  <2>1. s.sub # "user" => telegram[s.member] # None
    BY <1>1 DEF Admit, Accepted
  <2> QED
    BY <1>1, <2>1 DEF TypeOK, Guests, Admit, Start
<1>2. ASSUME NEW h \in Handler, Finish(h) PROVE Guests'
  BY <1>2 DEF TypeOK, Guests, Finish, Idle
<1>3. ASSUME NEW h \in Handler, NEW e \in Email, RegisterStart(h, e) PROVE Guests'
  BY <1>3 DEF TypeOK, Guests, RegisterStart, Start
<1>4. ASSUME NEW h \in Handler, NEW m \in Member, LoginStart(h, m) PROVE Guests'
  BY <1>4 DEF TypeOK, Guests, LoginStart, Start
<1>5. ASSUME NEW h \in Handler, NEW m \in Member, TelegramStart(h, m) PROVE Guests'
  BY <1>5 DEF TypeOK, Guests, TelegramStart, Start
<1>6. ASSUME NEW h \in Handler, NEW j \in Jti, ResetStart(h, j) PROVE Guests'
  BY <1>6 DEF TypeOK, Guests, ResetStart, Start
<1>7. CASE UNCHANGED task
  BY <1>7 DEF Guests
<1> QED
  BY <1>1, <1>2, <1>3, <1>4, <1>5, <1>6, <1>7
  DEF Next, MemberNext, HandlerNext, vars, Confirm, Forgot, ConsumeLink, PatchMember,
      Erase, RegisterCommit, LoginFinish, ResetCommit, Write, HandlerStops

LEMMA ErasedHolds == Spec => []Erased
<1>1. Init => Erased /\ Guests
  BY DEF Init, Erased, Guests, Idle
<1>2. Spec => []Guests
  BY <1>1, GuestsStep, TypeCorrect, PTL DEF Spec
<1> QED
  BY <1>1, <1>2, ErasedStep, TypeCorrect, PTL DEF Spec

\* Nobody has a password session that an erased profile accepts.
LEMMA PasswordsEnd ==
  ASSUME TypeOK, Sessions, NEW s \in sessions, account[s.member] = "gone", Accepted(s)
  PROVE  s.by = "telegram"
<1>1. s \in Session
  BY DEF TypeOK
<1>2. s.sub # "user"
  BY <1>1, AccountAssumption DEF TypeOK, Accepted, Session
<1>3. Knows(s)
  BY DEF Sessions
<1>4. s.by \in {"password", "telegram"}
  BY <1>1 DEF Session
<1> QED
  BY <1>2, <1>3, <1>4 DEF Knows

\* Erasure is the end of access until the office verifies the profile again, and of
\* access by password and reset link for good; votes under way are not written into
\* it, photos only after such a verification.
THEOREM ErasureCloses == Spec => []ErasedStayOut
<1>1. Init => Sessions
  BY DEF Init, Sessions, Idle
<1>2. Spec => []Sessions
  BY <1>1, SessionsStep, TypeCorrect, PTL DEF Spec
<1>3. TypeOK /\ Erased /\ Sessions => ErasedHaveNoAccess
  <2> SUFFICES ASSUME TypeOK, Erased, Sessions, NEW m \in Member, account[m] = "gone"
               PROVE  /\ m \notin reopened =>
                           telegram[m] = None /\ \A s \in sessions : s.member = m => ~Accepted(s)
                      /\ \A s \in sessions : s.member = m /\ Accepted(s) => s.by = "telegram"
                      /\ \A j \in Jti : reset[j] # None /\ reset[j].member = m => ~Usable(j)
    BY DEF ErasedHaveNoAccess
  <2>1. m \notin reopened => telegram[m] = None
    BY DEF Erased
  <2>2. \A s \in sessions : s.member = m /\ Accepted(s) => telegram[m] # None
    BY DEF Accepted
  <2>3. \A s \in sessions : s.member = m /\ Accepted(s) => s.by = "telegram"
    BY PasswordsEnd
  <2>4. \A j \in Jti : reset[j].member = m => ~Usable(j)
    BY DEF Usable, Recoverable
  <2> QED
    BY <2>1, <2>2, <2>3, <2>4
<1>4. Erased => LateWritesAreRefused
  BY DEF Erased, LateWritesAreRefused
<1>5. TypeOK /\ Erased /\ Sessions => ErasedStayOut
  BY <1>3, <1>4 DEF ErasedStayOut
<1> QED
  BY <1>2, <1>5, ErasedHolds, TypeCorrect, PTL
-----------------------------------------------------------------------------
(* Accounts implements Access. *)

\* A session of Telegram that carries the present version is of the account that
\* an erased profile has now.
Fresh(s) ==
  s.ver = VersionOf(s.member) /\ s.sub # "user" =>
    account[s.member] = "gone" /\ telegram[s.member] = s.sub

Holders ==
  /\ \A s \in sessions :
       Fresh(s) /\ (s.sub = "user" => account[s.member] \in {"active", "gone"})
  /\ \A h \in Handler : task[h].step = "login" => Fresh(task[h].session)

\* Which actions write what Fresh compares, in the order of the proof.
LEMMA ProfileSteps ==
  ASSUME [Next]_vars
  PROVE  \/ UNCHANGED <<account, version, telegram>>
         \/ \E m \in Member : Erase(m)
         \/ \E h \in Handler : ResetCommit(h) /\ Usable(task[h].jti)
         \/ \E h \in Handler : RegisterCommit(h) /\ StillFree(task[h].email)
         \/ \E m \in Member : Confirm(m) \/ \E t \in Telegram : ConsumeLink(m, t)
<1> USE DEF userVars, profileVars
<1>1. ASSUME MemberNext
      PROVE  \/ UNCHANGED <<account, version, telegram>>
             \/ \E m \in Member : Erase(m)
             \/ \E h \in Handler : ResetCommit(h) /\ Usable(task[h].jti)
             \/ \E h \in Handler : RegisterCommit(h) /\ StillFree(task[h].email)
             \/ \E m \in Member : Confirm(m) \/ \E t \in Telegram : ConsumeLink(m, t)
  BY <1>1 DEF MemberNext, Forgot, PatchMember
<1>2. ASSUME HandlerNext
      PROVE  \/ UNCHANGED <<account, version, telegram>>
             \/ \E m \in Member : Erase(m)
             \/ \E h \in Handler : ResetCommit(h) /\ Usable(task[h].jti)
             \/ \E h \in Handler : RegisterCommit(h) /\ StillFree(task[h].email)
             \/ \E m \in Member : Confirm(m) \/ \E t \in Telegram : ConsumeLink(m, t)
  BY <1>2 DEF HandlerNext, RegisterStart, LoginStart, TelegramStart, ResetStart, Admit,
         RegisterCommit, LoginFinish, ResetCommit, Write, HandlerStops
<1>3. CASE UNCHANGED vars
  BY <1>3 DEF vars
<1> QED
  BY <1>1, <1>2, <1>3 DEF Next

\* An erased profile stays one, and users who confirmed their address stay confirmed.
LEMMA AccountsAge ==
  ASSUME TypeOK, [Next]_vars, NEW m \in Member
  PROVE  /\ account[m] = "gone" => account'[m] = "gone"
         /\ account[m] \in {"active", "gone"} => account'[m] \in {"active", "gone"}
<1>1. ASSUME NEW h \in Handler, RegisterCommit(h), StillFree(task[h].email)
      PROVE  account[m] \in {"active", "gone"} => account'[m] = account[m]
  BY <1>1 DEF TypeOK, RegisterCommit
<1>2. ASSUME NEW n \in Member, Confirm(n)
      PROVE  account[m] \in {"active", "gone"} => account'[m] = account[m]
  BY <1>2 DEF TypeOK, Confirm
<1>3. ASSUME NEW n \in Member, Erase(n)
      PROVE  account'[m] = account[m] \/ account'[m] = "gone"
  BY <1>3 DEF TypeOK, Erase
<1> QED
  BY <1>1, <1>2, <1>3, UserSteps

LEMMA EraseAges ==
  ASSUME TypeOK, NEW m \in Member, Erase(m)
  PROVE  /\ VersionOf(m) < VersionOf(m)'
         /\ \A n \in Member \ {m} : /\ VersionOf(n)' = VersionOf(n)
                                    /\ account'[n] = account[n]
                                    /\ telegram'[n] = telegram[n]
<1>1. VersionOf(m) \in Nat
  BY VersionIsNat
<1>2. version' = [version EXCEPT ![m] = VersionOf(m) + 1]
  BY DEF Erase
<1>3. version'[m] = VersionOf(m) + 1 /\ version'[m] # None
  BY <1>1, <1>2, AccountAssumption DEF TypeOK
<1>4. \A n \in Member \ {m} : version'[n] = version[n]
  BY <1>2 DEF TypeOK
<1> QED
  BY <1>1, <1>3, <1>4 DEF TypeOK, Erase, Unlink, VersionOf

LEMMA ResetAges ==
  ASSUME TypeOK, NEW h \in Handler, ResetCommit(h), Usable(task[h].jti)
  PROVE  \E m \in Member :
           /\ Recoverable(m) /\ m = reset[task[h].jti].member
           /\ password' = [password EXCEPT ![m] = @ + 1]
           /\ VersionOf(m) < VersionOf(m)'
           /\ \A n \in Member \ {m} : VersionOf(n)' = VersionOf(n)
           /\ UNCHANGED <<account, telegram, reopened, sessions>>
<1>1. PICK j \in Jti : j = task[h].jti
  BY TaskTypes DEF ResetCommit
<1>2. PICK m \in Member : m = reset[j].member /\ Recoverable(m)
  BY <1>1, ResetTypes DEF Usable
<1>3. VersionOf(m) \in Nat
  BY <1>2, VersionIsNat
<1>4. /\ version' = [version EXCEPT ![m] = VersionOf(m) + 1]
      /\ password' = [password EXCEPT ![m] = @ + 1]
      /\ UNCHANGED <<account, telegram, reopened, sessions>>
  BY <1>1, <1>2 DEF ResetCommit
<1>5. version'[m] = VersionOf(m) + 1 /\ version'[m] # None
  BY <1>2, <1>3, <1>4, AccountAssumption DEF TypeOK
<1>6. \A n \in Member \ {m} : version'[n] = version[n]
  BY <1>2, <1>4 DEF TypeOK
<1>7. VersionOf(m) < VersionOf(m)' /\ \A n \in Member \ {m} : VersionOf(n)' = VersionOf(n)
  BY <1>3, <1>5, <1>6 DEF VersionOf
<1> QED
  BY <1>1, <1>2, <1>4, <1>7

LEMMA FreshStays ==
  ASSUME TypeOK, TypeOK', [Next]_vars, NEW s \in Session, Knows(s), Fresh(s)
  PROVE  Fresh(s)'
<1> DEFINE n == s.member
<1>1. n \in Member /\ s.ver \in Nat /\ s.sub \in Subject
  BY SessionTypes
<1>2. VersionOf(n) \in Nat /\ s.ver <= VersionOf(n)
  BY <1>1, VersionIsNat DEF Knows
<1>3. VersionOf(n)' \in Nat
  BY <1>1 DEF TypeOK, VersionOf, Version
<1>4. ASSUME NEW m \in Member, Erase(m) PROVE Fresh(s)'
  <2>1. CASE n = m
    BY <1>1, <1>2, <1>3, <1>4, <2>1, EraseAges DEF Fresh
  <2>2. CASE n # m
    BY <1>1, <1>4, <2>2, EraseAges DEF Fresh
  <2> QED
    BY <2>1, <2>2
<1>5. ASSUME NEW h \in Handler, ResetCommit(h), Usable(task[h].jti) PROVE Fresh(s)'
  BY <1>1, <1>2, <1>3, <1>5, ResetAges DEF Fresh
<1>6. ASSUME NEW h \in Handler, RegisterCommit(h), StillFree(task[h].email) PROVE Fresh(s)'
  <2>1. PICK m \in Member : account[m] = "absent" /\ account' = [account EXCEPT ![m] = "unverified"]
    BY <1>6 DEF RegisterCommit
  <2>2. UNCHANGED <<version, telegram>>
    BY <1>6 DEF RegisterCommit
  <2> QED
    BY <1>1, <2>1, <2>2 DEF TypeOK, Fresh, VersionOf
<1>7. ASSUME NEW m \in Member, Confirm(m) PROVE Fresh(s)'
  BY <1>1, <1>7 DEF TypeOK, Fresh, VersionOf, Confirm, profileVars
<1>8. ASSUME NEW m \in Member, NEW t \in Telegram, ConsumeLink(m, t) PROVE Fresh(s)'
  <2>1. UNCHANGED <<account, version>> /\ telegram' = [telegram EXCEPT ![m] = t]
        /\ telegram[m] \in {None, t}
    BY <1>8 DEF ConsumeLink, userVars
  <2>2. s.sub # "user" => s.sub # None
    BY <1>1, AccountAssumption DEF Subject
  <2> QED
    BY <1>1, <2>1, <2>2 DEF TypeOK, Fresh, VersionOf
<1>9. CASE UNCHANGED <<account, version, telegram>>
  BY <1>9 DEF Fresh, VersionOf
<1> QED
  BY <1>4, <1>5, <1>6, <1>7, <1>8, <1>9, ProfileSteps

LEMMA HoldersStep ==
  ASSUME TypeOK, TypeOK', Sessions, Holders, [Next]_vars
  PROVE  Holders'
<1>1. ASSUME NEW s \in sessions'
      PROVE  Fresh(s)' /\ (s.sub = "user" => account'[s.member] \in {"active", "gone"})
  <2>1. CASE s \in sessions
    BY <2>1, FreshStays, AccountsAge, SessionTypes DEF TypeOK, Sessions, Holders
  <2>2. CASE s \notin sessions
    <3>1. PICK h \in Handler : LoginFinish(h)
      BY <1>1, <2>2, SessionSteps
    <3>2. s = task[h].session /\ task[h].step = "login" /\ s \in Session
          /\ (s.sub = "user" => account[s.member] = "active") /\ UNCHANGED account
      BY <1>1, <2>2, <3>1, TaskTypes DEF LoginFinish, Issued, userVars
    <3> QED
      BY <3>2, FreshStays DEF Sessions, Holders
  <2> QED
    BY <2>1, <2>2
<1>2. ASSUME NEW h \in Handler, task'[h].step = "login"
      PROVE  Fresh(task[h].session)'
  <2>1. CASE task'[h] = task[h]
    <3>1. task[h].session \in Session /\ Knows(task[h].session) /\ Fresh(task[h].session)
      BY <2>1, <1>2, TaskTypes DEF Sessions, Holders
    <3>2. \A s \in Session : Knows(s) /\ Fresh(s) => Fresh(s)'
      BY FreshStays
    <3>3. task'[h].session = task[h].session
      BY <2>1
    <3> QED
      BY <3>1, <3>2, <3>3 DEF Fresh, VersionOf
  <2>2. ASSUME NEW m \in Member, LoginStart(h, m)
        PROVE  Fresh(task[h].session)'
    BY <2>2 DEF TypeOK, LoginStart, Start, Fresh
  <2>3. ASSUME NEW m \in Member, TelegramStart(h, m)
        PROVE  Fresh(task[h].session)'
    BY <2>3 DEF TypeOK, TelegramStart, Start, Fresh, userVars, profileVars
  <2> QED
    BY <1>2, <2>1, <2>2, <2>3, LoginSteps
<1> QED
  BY <1>1, <1>2 DEF Holders

\* But for logins, resets and erasures no step changes which sessions are accepted.
LEMMA AcceptedStay ==
  ASSUME TypeOK, Holders, NEW s \in sessions,
         \/ \E h \in Handler : RegisterCommit(h) /\ StillFree(task[h].email)
         \/ \E m \in Member : Confirm(m) \/ \E t \in Telegram : ConsumeLink(m, t)
  PROVE  Accepted(s)' <=> Accepted(s)
<1> DEFINE n == s.member
<1>1. s \in Session /\ n \in Member /\ s.sub \in Subject /\ (s.sub # "user" => s.sub # None)
  BY SessionTypes, AccountAssumption DEF TypeOK, Subject
<1>2. Fresh(s) /\ (s.sub = "user" => account[n] \in {"active", "gone"})
  BY DEF Holders
<1>3. ASSUME NEW h \in Handler, RegisterCommit(h), StillFree(task[h].email)
      PROVE  Accepted(s)' <=> Accepted(s)
  <2>1. PICK m \in Member : account[m] = "absent" /\ account' = [account EXCEPT ![m] = "unverified"]
    BY <1>3 DEF RegisterCommit
  <2>2. UNCHANGED <<version, telegram>>
    BY <1>3 DEF RegisterCommit
  <2> QED
    BY <1>1, <2>1, <2>2 DEF TypeOK, Accepted, VersionOf
<1>4. ASSUME NEW m \in Member, Confirm(m) PROVE Accepted(s)' <=> Accepted(s)
  <2>1. account[m] = "unverified" /\ account' = [account EXCEPT ![m] = "active"]
        /\ UNCHANGED <<version, telegram>>
    BY <1>4 DEF Confirm, profileVars
  <2> QED
    BY <1>1, <1>2, <2>1 DEF TypeOK, Accepted, VersionOf
<1>5. ASSUME NEW m \in Member, NEW t \in Telegram, ConsumeLink(m, t)
      PROVE  Accepted(s)' <=> Accepted(s)
  <2>1. UNCHANGED <<account, version>> /\ telegram' = [telegram EXCEPT ![m] = t]
        /\ telegram[m] \in {None, t} /\ t # None /\ t # "user"
    BY <1>5, AccountAssumption DEF ConsumeLink, userVars
  <2>2. n # m => telegram'[n] = telegram[n]
    BY <1>1, <2>1 DEF TypeOK
  <2>3. telegram'[m] = t
    BY <2>1 DEF TypeOK
  <2>4. VersionOf(n)' = VersionOf(n)
    BY <2>1 DEF VersionOf
  <2> QED
    BY <1>1, <1>2, <2>1, <2>2, <2>3, <2>4 DEF Accepted, Fresh
<1> QED
  BY <1>3, <1>4, <1>5

Shown == [m \in Member |-> AcceptedOf(m)]
Gone == {m \in Member : account[m] = "gone"}

LEMMA LoginIsListed ==
  ASSUME TypeOK, Sessions, Erased, NEW h \in Handler, LoginFinish(h)
  PROVE  UNCHANGED <<password, Shown, Gone, reopened>> \/ \E m \in Member : Listed!LogIn(m)
<1>0. PICK s \in Session, m \in Member : s = task[h].session /\ m = s.member
  BY TaskTypes, SessionTypes DEF LoginFinish
<1>1. /\ Knows(s)
      /\ UNCHANGED <<account, email, password, version, telegram, reopened>>
      /\ sessions' = sessions \/ sessions' = sessions \cup {s}
  BY <1>0 DEF Sessions, LoginFinish, Issued, userVars, profileVars
<1>2. \A r : Accepted(r)' <=> Accepted(r)
  BY <1>1 DEF Accepted, VersionOf
<1>3. Gone' = Gone
  BY <1>1 DEF Gone
<1>4. CASE sessions' = sessions \/ ~Accepted(s)
  <2>1. \A n \in Member : AcceptedOf(n)' = AcceptedOf(n)
    BY <1>1, <1>2, <1>4 DEF AcceptedOf
  <2> QED
    BY <1>1, <1>3, <2>1 DEF Shown
<1>5. CASE sessions' = sessions \cup {s} /\ Accepted(s)
  <2>1. AcceptedOf(m)' = AcceptedOf(m) \cup {s}
    BY <1>0, <1>2, <1>5 DEF AcceptedOf
  <2>2. \A n \in Member \ {m} : AcceptedOf(n)' = AcceptedOf(n)
    BY <1>0, <1>2, <1>5 DEF AcceptedOf
  <2>3. Shown' = [Shown EXCEPT ![m] = @ \cup {s}] /\ s \in Shown'[m]
    BY <1>0, <1>1, <2>1, <2>2 DEF Shown
  <2>4. account[m] = "gone" => s.sub = telegram[m] /\ telegram[m] # None /\ s.sub # "user"
    BY <1>0, <1>1, <1>5, AccountAssumption DEF TypeOK, Accepted
  <2>5. m \in Gone => m \in reopened
    BY <1>0, <1>1, <2>4 DEF Gone, Erased
  <2>6. s.by = "password" => s.pw = password[m] /\ m \notin Gone
    BY <1>0, <1>1, <1>5, <2>4 DEF Knows, Accepted, Gone
  <2> QED
    BY <1>0, <1>1, <1>3, <2>3, <2>5, <2>6 DEF Listed!LogIn, Shown, Gone
<1> QED
  BY <1>1, <1>4, <1>5

LEMMA ResetIsListed ==
  ASSUME TypeOK, TypeOK', Sessions, NEW h \in Handler, ResetCommit(h), Usable(task[h].jti)
  PROVE  \E m \in Member : Listed!Reset(m)
<1>1. PICK m \in Member :
        /\ Recoverable(m) /\ password' = [password EXCEPT ![m] = @ + 1]
        /\ VersionOf(m) < VersionOf(m)'
        /\ \A n \in Member \ {m} : VersionOf(n)' = VersionOf(n)
        /\ UNCHANGED <<account, telegram, reopened, sessions>>
  BY ResetAges
<1>2. VersionOf(m) \in Nat /\ VersionOf(m)' \in Nat
  BY VersionIsNat DEF TypeOK, VersionOf, Version
<1>3. AcceptedOf(m)' = {}
  BY <1>1, <1>2, SessionTypes DEF TypeOK, AcceptedOf, Accepted, Sessions, Knows
<1>4. \A n \in Member \ {m} : AcceptedOf(n)' = AcceptedOf(n)
  BY <1>1 DEF AcceptedOf, Accepted
<1>5. Shown' = [Shown EXCEPT ![m] = {}]
  BY <1>3, <1>4 DEF Shown
<1>6. m \notin Gone /\ Gone' = Gone
  BY <1>1 DEF Gone, Recoverable
<1> QED
  BY <1>1, <1>5, <1>6 DEF Listed!Reset, Shown, Gone

LEMMA ErasureIsListed ==
  ASSUME TypeOK, TypeOK', Sessions, NEW m \in Member, Erase(m)
  PROVE  Listed!Erase(m)
<1>1. /\ UNCHANGED <<password, sessions>> /\ account' = [account EXCEPT ![m] = "gone"]
      /\ reopened' = reopened \ {m}
      /\ VersionOf(m) < VersionOf(m)'
      /\ \A n \in Member \ {m} : /\ VersionOf(n)' = VersionOf(n) /\ account'[n] = account[n]
                                 /\ telegram'[n] = telegram[n]
  BY EraseAges DEF Erase
<1>2. VersionOf(m) \in Nat /\ VersionOf(m)' \in Nat
  BY VersionIsNat DEF TypeOK, VersionOf, Version
<1>3. AcceptedOf(m)' = {}
  BY <1>1, <1>2, SessionTypes DEF TypeOK, AcceptedOf, Accepted, Sessions, Knows
<1>4. \A n \in Member \ {m} : AcceptedOf(n)' = AcceptedOf(n)
  BY <1>1 DEF AcceptedOf, Accepted
<1>5. Shown' = [Shown EXCEPT ![m] = {}]
  BY <1>3, <1>4 DEF Shown
<1>6. Gone' = Gone \cup {m}
  BY <1>1 DEF TypeOK, Gone
<1> QED
  BY <1>1, <1>5, <1>6 DEF Listed!Erase, Shown, Gone

\* Who writes the history of verifications after erasure.
LEMMA ReopeningSteps ==
  ASSUME [Next]_vars
  PROVE  \/ UNCHANGED reopened
         \/ \E m \in Gone : reopened' = reopened \cup {m}
         \/ \E m \in Member : Erase(m)
<1> USE DEF userVars, profileVars, Gone
<1>1. ASSUME MemberNext
      PROVE  \/ UNCHANGED reopened
             \/ \E m \in Gone : reopened' = reopened \cup {m}
             \/ \E m \in Member : Erase(m)
  BY <1>1 DEF MemberNext, Confirm, Forgot, ConsumeLink, PatchMember
<1>2. ASSUME HandlerNext
      PROVE  \/ UNCHANGED reopened
             \/ \E m \in Gone : reopened' = reopened \cup {m}
             \/ \E m \in Member : Erase(m)
  BY <1>2 DEF HandlerNext, RegisterStart, LoginStart, TelegramStart, ResetStart, Admit,
         RegisterCommit, LoginFinish, ResetCommit, Write, HandlerStops
<1>3. CASE UNCHANGED vars
  BY <1>3 DEF vars
<1> QED
  BY <1>1, <1>2, <1>3 DEF Next

\* The other steps cannot be seen in the list.
LEMMA OthersAreUnlisted ==
  ASSUME TypeOK, Holders, [Next]_vars
  PROVE  \/ UNCHANGED <<password, Shown, Gone, reopened>>
         \/ \E m \in Member : Listed!Reopen(m)
         \/ \E h \in Handler : LoginFinish(h)
         \/ \E h \in Handler : ResetCommit(h) /\ Usable(task[h].jti)
         \/ \E m \in Member : Erase(m)
<1> SUFFICES ASSUME ~ \E h \in Handler : LoginFinish(h),
                    ~ \E h \in Handler : ResetCommit(h) /\ Usable(task[h].jti),
                    ~ \E m \in Member : Erase(m)
             PROVE  \/ UNCHANGED <<password, Shown, Gone, reopened>>
                    \/ \E m \in Member : Listed!Reopen(m)
  OBVIOUS
<1>1. UNCHANGED <<password, sessions>>
  BY VersionSteps, UsedSteps, SessionSteps
<1>2. \A s \in sessions : Accepted(s)' <=> Accepted(s)
  <2>1. CASE UNCHANGED <<account, version, telegram>>
    BY <2>1 DEF Accepted, VersionOf
  <2> QED
    BY <2>1, ProfileSteps, AcceptedStay
<1>3. \A m \in Member : AcceptedOf(m)' = AcceptedOf(m)
  BY <1>1, <1>2 DEF AcceptedOf
<1>4. \A m \in Member : account'[m] = "gone" <=> account[m] = "gone"
  <2>1. ASSUME NEW h \in Handler, RegisterCommit(h), StillFree(task[h].email)
        PROVE  \A m \in Member : account'[m] = "gone" <=> account[m] = "gone"
    BY <2>1 DEF TypeOK, RegisterCommit
  <2>2. ASSUME NEW n \in Member, Confirm(n)
        PROVE  \A m \in Member : account'[m] = "gone" <=> account[m] = "gone"
    BY <2>2 DEF TypeOK, Confirm
  <2> QED
    BY <2>1, <2>2, UserSteps
<1>5. UNCHANGED <<password, Shown, Gone>>
  BY <1>1, <1>3, <1>4 DEF Shown, Gone
<1>6. UNCHANGED reopened \/ \E m \in Gone : reopened' = reopened \cup {m}
  BY ReopeningSteps
<1> QED
  BY <1>5, <1>6 DEF Listed!Reopen, Shown, Gone

\* Comparing generations does what a list of sessions would do: a login enters one
\* by the password of now, a reset and an erasure end all at once, and nothing brings
\* one back (resolve_alumni, reset, anonymize).
THEOREM AccountsRefineAccess == Spec => RefinesAccess
<1>1. Init => Sessions /\ Holders
  BY DEF Init, Sessions, Holders, Idle
<1>2. Spec => []Sessions
  BY <1>1, SessionsStep, TypeCorrect, PTL DEF Spec
<1>3. Spec => []Holders
  BY <1>1, <1>2, HoldersStep, TypeCorrect, PTL DEF Spec
<1>4. Init => Listed!AccessInit
  BY DEF Init, Listed!AccessInit, AcceptedOf
<1>5. ASSUME TypeOK, TypeOK', Sessions, Holders, Erased, [Next]_vars
      PROVE  [Listed!AccessNext]_(Listed!access)
  <2>1. UNCHANGED <<password, Shown, Gone, reopened>> => UNCHANGED Listed!access
    BY DEF Listed!access, Shown, Gone
  <2> QED
    BY <1>5, <2>1, OthersAreUnlisted, LoginIsListed, ResetIsListed, ErasureIsListed
    DEF Listed!AccessNext
<1> QED
  BY <1>2, <1>3, <1>4, <1>5, ErasedHolds, TypeCorrect, PTL
  DEF Spec, RefinesAccess, Listed!AccessSpec
=============================================================================
