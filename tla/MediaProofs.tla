---------------------------- MODULE MediaProofs -----------------------------
(***************************************************************************)
(* Proofs about Media, for any files, materials, members and requests.     *)
(*                                                                         *)
(* Inv says what a request may count on between its steps: its file is     *)
(* where its step has put it (Placed), no other request has that file      *)
(* before it is somebody's photo (Exclusive), the login it has seen is     *)
(* older than an erasure (Seen), and, as long as nothing has stopped, what *)
(* is not settled yet is in the hands of some request (Attended).          *)
(***************************************************************************)
EXTENDS Media, TLAPS

Holds(p) == task[p].step \in {"insert", "assign"}

InPlace(p) ==
  LET f == task[p].file IN
  /\ task[p].step = "insert" => row[f] = "none" /\ f \in disk
  /\ task[p].step = "assign" => row[f] = "avatar" /\ ~IsAvatar(f)
  /\ task[p].step = "delete" => row[f] # "none"
  /\ task[p].step = "unlink" => row[f] = "gone"

Placed == \A p \in Process : InPlace(p)

Exclusive ==
  \A p, q \in Process :
    p # q /\ Holds(p) /\ task[q].step # "idle" => task[p].file # task[q].file

Seen ==
  \A p \in Process : Holds(p) /\ task[p].who # None =>
    /\ task[p].seen <= version[task[p].who]
    /\ task[p].who \in erased => task[p].seen # version[task[p].who]

InHands(f, steps) == \E p \in Process : task[p].step \in steps /\ task[p].file = f

Attended ==
  stops = 0 =>
    /\ \A f \in disk : HasRow(f) \/ InHands(f, {"insert", "unlink"})
    /\ \A f \in File : row[f] = "avatar" => IsAvatar(f) \/ InHands(f, {"assign", "delete"})

Inv == TypeOK /\ Placed /\ Exclusive /\ Seen /\ FilesResolve /\ PhotosStayPrivate
         /\ ErasedStayFaceless /\ Attended
-----------------------------------------------------------------------------
LEMMA TaskTypes ==
  ASSUME TypeOK, NEW p \in Process
  PROVE  /\ task[p] \in Task
         /\ task[p].step \in {"idle", "insert", "assign", "delete", "unlink"}
         /\ task[p].step = "idle" <=> task[p] = Idle
         /\ task[p].step # "idle" => task[p].file \in File
         /\ task[p].step = "assign" => task[p].who \in Member
         /\ Holds(p) => /\ task[p].who \in Member \cup {None}
                       /\ task[p].seen \in 0..MaxChanges
<1>1. task[p] \in Task
  BY DEF TypeOK
<1> QED
  BY <1>1, MediaAssumption DEF Task, Idle, Holds

\* Who has become what.
LEMMA Becoming ==
  ASSUME TypeOK, NEW p \in Process, NEW t \in Task, Become(p, t)
  PROVE  /\ task' \in [Process -> Task]
         /\ task'[p] = t
         /\ \A q \in Process \ {p} : task'[q] = task[q]
BY DEF TypeOK, Become

LEMMA InvInit == Init => Inv
<1> SUFFICES ASSUME Init PROVE Inv
  OBVIOUS
<1>1. TypeOK
  BY MediaAssumption DEF Init, TypeOK, Task, FirstPhotos
<1>2. Placed /\ Exclusive /\ Seen /\ ErasedStayFaceless
  BY DEF Init, Placed, InPlace, Exclusive, Seen, ErasedStayFaceless, Holds, Idle
<1>3. FilesResolve /\ PhotosStayPrivate
  BY MediaAssumption
  DEF Init, FilesResolve, PhotosStayPrivate, HasRow, FirstPhotos
<1>4. Attended
  BY MediaAssumption DEF Init, Attended, HasRow, FirstPhotos
<1> QED
  BY <1>1, <1>2, <1>3, <1>4 DEF Inv
-----------------------------------------------------------------------------
(* save. *)

LEMMA WriteStep ==
  ASSUME Inv, NEW p \in Process, NEW f \in File, NEW m \in Member \cup {None},
         NEW seen \in 0..MaxChanges, Write(p, f, m, seen),
         m = None => seen = 0,
         m # None => m \notin erased /\ seen = version[m]
  PROVE  Inv'
<1> DEFINE t == [step |-> "insert", file |-> f, who |-> m, seen |-> seen]
<1>0. TypeOK /\ t \in Task
  BY DEF Inv, Task
<1>1. /\ task' \in [Process -> Task]
      /\ task'[p] = t
      /\ \A q \in Process \ {p} : task'[q] = task[q]
  BY <1>0, Becoming DEF Write
<1>2. row[f] = "none" /\ f \notin disk /\ task[p].step = "idle"
  BY DEF Write, Fresh, Idle
<1>3. TypeOK'
  BY <1>0, <1>1 DEF TypeOK, Write, members
<1>4. \A q \in Process : task[q].step # "idle" => task[q].file # f
  BY <1>0, <1>2, TaskTypes DEF Inv, Placed, InPlace
<1>5. Placed'
  BY <1>1, <1>2 DEF Inv, Placed, InPlace, Write, members, IsAvatar
<1>6. Exclusive'
  BY <1>1, <1>2, <1>4 DEF Inv, Exclusive, Holds
<1>7. Seen'
  BY <1>0, <1>1, TaskTypes, MediaAssumption DEF Inv, TypeOK, Seen, Holds, Write, members
<1>8. (FilesResolve /\ PhotosStayPrivate /\ ErasedStayFaceless)'
  BY DEF Inv, FilesResolve, PhotosStayPrivate, ErasedStayFaceless, HasRow,
         IsAvatar, Write, members
<1>9. Attended'
  BY <1>1, <1>2 DEF Inv, Attended, InHands, HasRow, IsAvatar, Write, members
<1> QED
  BY <1>3, <1>5, <1>6, <1>7, <1>8, <1>9 DEF Inv

LEMMA InsertStep ==
  ASSUME Inv, NEW p \in Process, Insert(p)
  PROVE  Inv'
<1> DEFINE t == task[p]
           next == IF t.who = None THEN Idle ELSE Assigning(t)
<1>0. TypeOK /\ t.step = "insert"
  BY DEF Inv, Insert
<1>1. t.file \in File /\ t.who \in Member \cup {None} /\ t.seen \in 0..MaxChanges
  BY <1>0, TaskTypes DEF Holds
<1>3. next \in Task
  BY <1>1 DEF Task, Assigning
<1>4. /\ task' \in [Process -> Task]
      /\ task'[p] = next
      /\ \A q \in Process \ {p} : task'[q] = task[q]
  BY <1>0, <1>3, Becoming DEF Insert
<1>5. /\ t.who = None => task'[p].step = "idle"
      /\ t.who # None => /\ task'[p].step = "assign" /\ task'[p].file = t.file
                         /\ task'[p].who = t.who /\ task'[p].seen = t.seen
  BY <1>4 DEF Idle, Assigning
<1>6. /\ row[t.file] = "none" /\ t.file \in disk
      /\ Kind(t) \in {"office", "avatar"}
      /\ row' = [row EXCEPT ![t.file] = Kind(t)]
      /\ UNCHANGED <<disk, lost, used, members, stops>>
  BY <1>0 DEF Inv, Placed, InPlace, Insert, Kind
<1>7. \A q \in Process \ {p} : task[q].step # "idle" => task[q].file # t.file
  BY <1>0, Zenon DEF Inv, Exclusive, Holds
<1>8. (\A i \in Item : used[i] # t.file) /\ ~IsAvatar(t.file)
  <2>1. ~HasRow(t.file)
    BY <1>6 DEF HasRow
  <2> QED
    BY <1>1, <2>1, MediaAssumption DEF Inv, FilesResolve, IsAvatar
<1>9. TypeOK'
  BY <1>0, <1>1, <1>4, <1>6 DEF TypeOK, members
<1>10. Placed'
  <2>1. InPlace(p)'
    BY <1>0, <1>1, <1>5, <1>6, <1>8 DEF TypeOK, InPlace, IsAvatar, Kind, members
  <2>2. ASSUME NEW q \in Process \ {p} PROVE InPlace(q)'
    <3>1. InPlace(q) /\ task'[q] = task[q]
      BY <1>4 DEF Inv, Placed, InPlace
    <3>2. task[q].step # "idle" => row'[task[q].file] = row[task[q].file]
      BY <1>0, <1>1, <1>6, <1>7, TaskTypes DEF TypeOK
    <3> QED
      BY <1>6, <3>1, <3>2 DEF InPlace, IsAvatar, members
  <2> QED
    BY <2>1, <2>2 DEF Placed
<1>11. Exclusive'
  BY <1>0, <1>4, <1>5, <1>7 DEF Inv, Exclusive, Holds
<1>12. Seen'
  BY <1>0, <1>4, <1>5, <1>6 DEF Inv, Seen, Holds, members
<1>13. (FilesResolve /\ PhotosStayPrivate /\ ErasedStayFaceless)'
  BY <1>0, <1>1, <1>6, <1>8, MediaAssumption
  DEF Inv, TypeOK, FilesResolve, PhotosStayPrivate, ErasedStayFaceless, HasRow,
      IsAvatar, members
<1>14. Attended'
  <2> SUFFICES ASSUME stops = 0
      PROVE  /\ \A f \in disk : HasRow(f)' \/ InHands(f, {"insert", "unlink"})'
             /\ \A f \in File : row'[f] = "avatar" =>
                  IsAvatar(f) \/ InHands(f, {"assign", "delete"})'
    BY <1>6 DEF Attended, IsAvatar, members
  <2>1. ASSUME NEW f \in disk PROVE HasRow(f)' \/ InHands(f, {"insert", "unlink"})'
    BY <1>0, <1>1, <1>4, <1>6, <2>1 DEF Inv, Attended, TypeOK, HasRow, InHands
  <2>2. ASSUME NEW f \in File, row'[f] = "avatar"
        PROVE  IsAvatar(f) \/ InHands(f, {"assign", "delete"})'
    BY <1>0, <1>1, <1>4, <1>5, <1>6, <2>2 DEF Inv, Attended, TypeOK, InHands, Kind
  <2> QED
    BY <2>1, <2>2
<1> QED
  BY <1>9, <1>10, <1>11, <1>12, <1>13, <1>14 DEF Inv

LEMMA InsertFailsStep ==
  ASSUME Inv, NEW p \in Process, InsertFails(p)
  PROVE  Inv'
<1> DEFINE f == task[p].file
<1>0. TypeOK /\ task[p].step = "insert" /\ Idle \in Task
  BY DEF Inv, InsertFails, Task
<1>1. f \in File /\ row[f] = "none"
  BY <1>0, TaskTypes DEF Inv, Placed, InPlace
<1>2. /\ task' \in [Process -> Task]
      /\ task'[p].step = "idle"
      /\ \A q \in Process \ {p} : task'[q] = task[q]
  BY <1>0, Becoming DEF InsertFails, Idle
<1>3. disk' = disk \ {f} /\ UNCHANGED <<row, lost, used, members, stops>>
  BY DEF InsertFails
<1>4. \A q \in Process \ {p} : task[q].step # "idle" => task[q].file # f
  BY <1>0, Zenon DEF Inv, Exclusive, Holds
<1>5. TypeOK'
  BY <1>0, <1>2, <1>3 DEF TypeOK, members
<1>6. Placed'
  BY <1>2, <1>3, <1>4 DEF Inv, Placed, InPlace, IsAvatar, members
<1>7. Exclusive'
  BY <1>2 DEF Inv, Exclusive, Holds
<1>8. Seen'
  BY <1>2, <1>3 DEF Inv, Seen, Holds, members
<1>9. (FilesResolve /\ PhotosStayPrivate /\ ErasedStayFaceless)'
  BY <1>1, <1>3 DEF Inv, FilesResolve, PhotosStayPrivate, ErasedStayFaceless,
                    HasRow, IsAvatar, members
<1>10. Attended'
  BY <1>0, <1>2, <1>3 DEF Inv, Attended, InHands, HasRow, IsAvatar, members
<1> QED
  BY <1>5, <1>6, <1>7, <1>8, <1>9, <1>10 DEF Inv

LEMMA InsertLostStep ==
  ASSUME Inv, NEW p \in Process, InsertLost(p)
  PROVE  Inv'
<1> DEFINE f == task[p].file
<1>0. TypeOK /\ task[p].step = "insert" /\ Idle \in Task
  BY DEF Inv, InsertLost, Task
<1>1. f \in File /\ row[f] = "none"
  BY <1>0, TaskTypes DEF Inv, Placed, InPlace
<1>2. /\ task' \in [Process -> Task]
      /\ task'[p].step = "idle"
      /\ \A q \in Process \ {p} : task'[q] = task[q]
  BY <1>0, Becoming DEF InsertLost, Idle
<1>3. /\ row' = [row EXCEPT ![f] = Kind(task[p])]
      /\ disk' = disk \ {f} /\ lost' = lost \cup {f}
      /\ stops < MaxStops /\ stops' = stops + 1
      /\ UNCHANGED <<used, members>>
  BY DEF InsertLost
<1>4. Kind(task[p]) \in {"office", "avatar"}
  BY DEF Kind
<1>5. \A q \in Process \ {p} : task[q].step # "idle" => task[q].file # f
  BY <1>0, Zenon DEF Inv, Exclusive, Holds
<1>6. (\A i \in Item : used[i] # f) /\ ~IsAvatar(f)
  <2>1. ~HasRow(f)
    BY <1>1 DEF HasRow
  <2> QED
    BY <1>1, <2>1, MediaAssumption DEF Inv, FilesResolve, IsAvatar
<1>7. TypeOK'
  BY <1>0, <1>1, <1>2, <1>3, <1>4, MediaAssumption DEF TypeOK, members
<1>8. Placed'
  <2> SUFFICES ASSUME NEW q \in Process \ {p} PROVE InPlace(q)'
    BY <1>2 DEF Placed, InPlace
  <2>1. InPlace(q) /\ task'[q] = task[q]
    BY <1>2 DEF Inv, Placed
  <2>2. task[q].step # "idle" =>
          row'[task[q].file] = row[task[q].file] /\ task[q].file # f
    BY <1>0, <1>1, <1>3, <1>5, TaskTypes DEF TypeOK
  <2> QED
    BY <1>3, <2>1, <2>2 DEF InPlace, IsAvatar, members
<1>9. Exclusive'
  BY <1>2 DEF Inv, Exclusive, Holds
<1>10. Seen'
  BY <1>2, <1>3 DEF Inv, Seen, Holds, members
<1>11. (FilesResolve /\ PhotosStayPrivate /\ ErasedStayFaceless)'
  BY <1>0, <1>1, <1>3, <1>4, <1>6, MediaAssumption
  DEF Inv, TypeOK, FilesResolve, PhotosStayPrivate, ErasedStayFaceless, HasRow,
      IsAvatar, members
<1>12. Attended'
  <2>1. stops' # 0
    BY <1>0, <1>3, MediaAssumption DEF TypeOK
  <2> QED
    BY <2>1 DEF Attended
<1> QED
  BY <1>7, <1>8, <1>9, <1>10, <1>11, <1>12 DEF Inv
-----------------------------------------------------------------------------
(* upload_avatar, after save. *)

LEMMA AssignFailsStep ==
  ASSUME Inv, NEW p \in Process, AssignFails(p)
  PROVE  Inv'
<1> DEFINE f == task[p].file
<1>0. TypeOK /\ task[p].step = "assign"
  BY DEF Inv, AssignFails
<1>1. f \in File /\ row[f] = "avatar"
  BY <1>0, TaskTypes DEF Inv, Placed, InPlace
<1>2. Deleting(f) \in Task
  BY <1>1 DEF Deleting, Task
<1>3. /\ task' \in [Process -> Task]
      /\ task'[p].step = "delete" /\ task'[p].file = f
      /\ \A q \in Process \ {p} : task'[q] = task[q]
  BY <1>0, <1>2, Becoming DEF AssignFails, Refused, Deleting
<1>4. UNCHANGED <<row, disk, lost, used, members, stops>>
  BY DEF AssignFails
<1>5. TypeOK'
  BY <1>0, <1>3, <1>4 DEF TypeOK, members
<1>6. Placed'
  BY <1>1, <1>3, <1>4 DEF Inv, Placed, InPlace, IsAvatar, members
<1>7. Exclusive'
  BY <1>0, <1>3 DEF Inv, Exclusive, Holds
<1>8. Seen'
  BY <1>3, <1>4 DEF Inv, Seen, Holds, members
<1>9. (FilesResolve /\ PhotosStayPrivate /\ ErasedStayFaceless)'
  BY <1>4 DEF Inv, FilesResolve, PhotosStayPrivate, ErasedStayFaceless,
              HasRow, IsAvatar, members
<1>10. Attended'
  BY <1>0, <1>3, <1>4 DEF Inv, Attended, InHands, HasRow, IsAvatar, members
<1> QED
  BY <1>5, <1>6, <1>7, <1>8, <1>9, <1>10 DEF Inv

\* A photo comes to a profile, and the request goes on to delete a file, or ends.
LEMMA NewPhoto ==
  ASSUME Inv, NEW p \in Process, task[p].step = "assign",
         Unchanged(task[p].who, task[p].seen),
         avatar' = [avatar EXCEPT ![task[p].who] = task[p].file],
         UNCHANGED <<row, disk, lost, used, version, barred, erased>>,
         NEW next \in Task, Become(p, next), next.step \in {"idle", "delete"},
         next.step = "delete" => row[next.file] # "none",
         next.step = "delete" =>
           \A q \in Process \ {p} : Holds(q) => task[q].file # next.file,
         stops' \in 0..MaxStops,
         stops' = 0 => stops = 0,
         stops' = 0 /\ avatar[task[p].who] # None =>
           next.step = "delete" /\ next.file = avatar[task[p].who]
  PROVE  Inv'
<1> PICK f, m : f = task[p].file /\ m = task[p].who
  OBVIOUS
<1>0. TypeOK /\ f \in File /\ m \in Member /\ f # None
  BY TaskTypes, MediaAssumption DEF Inv
<1>1. /\ task' \in [Process -> Task]
      /\ task'[p] = next
      /\ \A q \in Process \ {p} : task'[q] = task[q]
  BY <1>0, Becoming
<1>2. row[f] = "avatar" /\ ~IsAvatar(f)
  BY DEF Inv, Placed, InPlace
<1>3. /\ avatar' \in [Member -> File \cup {None}]
      /\ avatar'[m] = f
      /\ \A n \in Member \ {m} : avatar'[n] = avatar[n]
  BY <1>0 DEF TypeOK
<1>4. \A q \in Process \ {p} : task[q].step # "idle" => task[q].file # f
  BY Zenon DEF Inv, Exclusive, Holds
<1>5. \A g \in File : IsAvatar(g)' => IsAvatar(g) \/ g = f
  BY <1>0, <1>3 DEF IsAvatar
<1>6. TypeOK'
  BY <1>0, <1>1, <1>3 DEF TypeOK
<1>7. Placed'
  <2>1. InPlace(p)'
    BY <1>1 DEF InPlace
  <2>2. ASSUME NEW q \in Process \ {p} PROVE InPlace(q)'
    <3>1. InPlace(q) /\ task'[q] = task[q]
      BY <1>1 DEF Inv, Placed
    <3>2. task[q].step = "assign" => ~IsAvatar(task[q].file)'
      <4> SUFFICES ASSUME task[q].step = "assign" PROVE ~IsAvatar(task[q].file)'
        OBVIOUS
      <4>1. task[q].file # f /\ ~IsAvatar(task[q].file)
        BY <1>4, <3>1 DEF InPlace
      <4> QED
        BY <1>0, <1>3, <3>1, <4>1 DEF IsAvatar
    <3> QED
      BY <3>1, <3>2 DEF InPlace, IsAvatar
  <2> QED
    BY <2>1, <2>2 DEF Placed
<1>8. Exclusive'
  BY <1>1 DEF Inv, Exclusive, Holds
<1>9. Seen'
  BY <1>1 DEF Inv, Seen, Holds
<1>10. FilesResolve'
  BY <1>0, <1>2, <1>3 DEF Inv, FilesResolve, HasRow
<1>11. PhotosStayPrivate'
  BY <1>0, <1>2, <1>3 DEF Inv, PhotosStayPrivate, IsAvatar
<1>12. ErasedStayFaceless'
  <2>1. m \notin erased
    BY <1>0, MediaAssumption DEF Inv, Seen, Holds, Unchanged
  <2> QED
    BY <1>0, <1>3, <2>1 DEF Inv, ErasedStayFaceless
<1>13. Attended'
  <2> SUFFICES ASSUME stops' = 0
      PROVE  /\ \A g \in disk' : HasRow(g)' \/ InHands(g, {"insert", "unlink"})'
             /\ \A g \in File : row'[g] = "avatar" =>
                  IsAvatar(g)' \/ InHands(g, {"assign", "delete"})'
    BY DEF Attended
  <2>1. \A g \in disk' : HasRow(g)' \/ InHands(g, {"insert", "unlink"})'
    BY <1>1 DEF Inv, Attended, InHands, HasRow
  <2>2. ASSUME NEW g \in File, row'[g] = "avatar"
        PROVE  IsAvatar(g)' \/ InHands(g, {"assign", "delete"})'
    <3>1. CASE InHands(g, {"assign", "delete"})
      BY <1>0, <1>1, <1>3, <3>1 DEF InHands, IsAvatar
    <3>2. CASE IsAvatar(g)
      <4>1. CASE avatar[m] = g
        <5>1. next.step = "delete" /\ next.file = g
          BY <4>1, MediaAssumption
        <5>2. task'[p].step \in {"assign", "delete"} /\ task'[p].file = g
          BY <1>1, <5>1
        <5> QED
          BY <5>2 DEF InHands
      <4>2. CASE avatar[m] # g
        BY <1>3, <3>2, <4>2 DEF IsAvatar
      <4> QED
        BY <4>1, <4>2
    <3> QED
      BY <2>2, <3>1, <3>2 DEF Inv, Attended
  <2> QED
    BY <2>1, <2>2
<1> QED
  BY <1>6, <1>7, <1>8, <1>9, <1>10, <1>11, <1>12, <1>13 DEF Inv

LEMMA AssignStep ==
  ASSUME Inv, NEW p \in Process, Assign(p)
  PROVE  Inv'
<1> PICK previous : previous = avatar[task[p].who]
  OBVIOUS
<1>1. TypeOK /\ task[p].step = "assign" /\ previous \in File \cup {None}
  <2>1. TypeOK /\ task[p].step = "assign"
    BY DEF Inv, Assign
  <2> QED
    BY <2>1, TaskTypes DEF TypeOK
<1>2. CASE previous = None
  <2>1. Idle \in Task /\ Idle.step = "idle"
    BY DEF Task, Idle
  <2>2. Become(p, Idle)
    BY <1>2 DEF Assign, ThenDeletePrevious
  <2> QED
    BY <1>1, <1>2, <2>1, <2>2, NewPhoto DEF Assign, TypeOK
<1>3. CASE previous # None
  <2>1. /\ Deleting(previous) \in Task
        /\ Deleting(previous).step = "delete" /\ Deleting(previous).file = previous
    BY <1>1, <1>3 DEF Task, Deleting
  <2>2. Become(p, Deleting(previous))
    BY <1>3 DEF Assign, ThenDeletePrevious
  <2>3. HasRow(previous) /\ IsAvatar(previous)
    BY <1>1, <1>3, TaskTypes DEF Inv, FilesResolve, IsAvatar
  <2>4. row[previous] # "none"
    BY <2>3 DEF HasRow
  <2>5. \A q \in Process \ {p} : Holds(q) => task[q].file # previous
    BY <2>3, <2>4 DEF Inv, Placed, InPlace, Holds
  <2> QED
    BY <1>1, <2>1, <2>2, <2>4, <2>5, NewPhoto DEF Assign, TypeOK
<1> QED
  BY <1>2, <1>3

LEMMA AssignLostStep ==
  ASSUME Inv, NEW p \in Process, AssignLost(p)
  PROVE  Inv'
<1> PICK f : f = task[p].file
  OBVIOUS
<1>1. TypeOK /\ task[p].step = "assign"
  BY DEF Inv, AssignLost
<1>2. f \in File /\ row[f] # "none"
  BY <1>1, TaskTypes DEF Inv, Placed, InPlace
<1>3. /\ Deleting(f) \in Task
      /\ Deleting(f).step = "delete" /\ Deleting(f).file = f
  BY <1>2 DEF Task, Deleting
<1>4. Become(p, Deleting(f))
  BY DEF AssignLost
<1>5. \A q \in Process \ {p} : Holds(q) => task[q].file # f
  BY <1>1, Zenon DEF Inv, Exclusive, Holds
<1>6. stops' \in 0..MaxStops /\ stops' # 0
  BY <1>1, MediaAssumption DEF AssignLost, TypeOK
<1> QED
  BY <1>1, <1>2, <1>3, <1>4, <1>5, <1>6, NewPhoto DEF AssignLost
-----------------------------------------------------------------------------
(* delete, and who calls it. *)

LEMMA DeleteStep ==
  ASSUME Inv, NEW p \in Process, Delete(p)
  PROVE  Inv'
<1> PICK f : f = task[p].file
  OBVIOUS
<1>0. TypeOK /\ task[p].step = "delete" /\ f \in File /\ row[f] # "none"
  <2>1. TypeOK /\ task[p].step = "delete"
    BY DEF Inv, Delete
  <2> QED
    BY <2>1, TaskTypes DEF Inv, Placed, InPlace
<1>1. UNCHANGED <<disk, lost, used, members, stops>>
  BY DEF Delete
<1>2. \A q \in Process \ {p} : Holds(q) => task[q].file # f
  BY <1>0, Zenon DEF Inv, Exclusive
<1>3. CASE /\ ~HasRow(f) \/ Referenced(f)
           /\ Become(p, Idle) /\ UNCHANGED row
  <2>1. /\ task' \in [Process -> Task]
        /\ task'[p].step = "idle"
        /\ \A q \in Process \ {p} : task'[q] = task[q]
    BY <1>0, <1>3, Becoming, Idle \in Task DEF Idle, Task
  <2>2. TypeOK'
    BY <1>0, <1>1, <1>3, <2>1 DEF TypeOK, members
  <2>3. Placed'
    BY <1>1, <1>3, <2>1 DEF Inv, Placed, InPlace, IsAvatar, members
  <2>4. Exclusive' /\ Seen'
    BY <1>1, <2>1 DEF Inv, Exclusive, Seen, Holds, members
  <2>5. (FilesResolve /\ PhotosStayPrivate /\ ErasedStayFaceless)'
    BY <1>1, <1>3 DEF Inv, FilesResolve, PhotosStayPrivate, ErasedStayFaceless,
                      HasRow, IsAvatar, members
  <2>6. row[f] = "avatar" => IsAvatar(f)
    BY <1>0, <1>3, MediaAssumption DEF Inv, PhotosStayPrivate, HasRow, Referenced
  <2>7. Attended'
    BY <1>0, <1>1, <1>3, <2>1, <2>6
    DEF Inv, Attended, InHands, HasRow, IsAvatar, members
  <2> QED
    BY <2>2, <2>3, <2>4, <2>5, <2>7 DEF Inv
<1>4. CASE /\ HasRow(f) /\ ~Referenced(f)
           /\ row' = [row EXCEPT ![f] = "gone"]
           /\ Become(p, [step |-> "unlink", file |-> f])
  <2>1. /\ task' \in [Process -> Task]
        /\ task'[p].step = "unlink" /\ task'[p].file = f
        /\ \A q \in Process \ {p} : task'[q] = task[q]
    <3>1. [step |-> "unlink", file |-> f] \in Task
      BY <1>0 DEF Task
    <3> QED
      BY <1>0, <1>4, <3>1, Becoming
  <2>2. /\ row'[f] = "gone"
        /\ \A g \in File \ {f} : row'[g] = row[g]
    BY <1>0, <1>4 DEF TypeOK
  <2>3. TypeOK'
    BY <1>0, <1>1, <1>4, <2>1 DEF TypeOK, members
  <2>4. Placed'
    <3>1. InPlace(p)'
      BY <2>1, <2>2 DEF InPlace
    <3>2. ASSUME NEW q \in Process \ {p} PROVE InPlace(q)'
      <4>1. InPlace(q) /\ task'[q] = task[q]
        BY <2>1 DEF Inv, Placed
      <4>2. task[q].step # "idle" /\ task[q].file # f =>
              row'[task[q].file] = row[task[q].file]
        BY <1>0, <2>2, TaskTypes
      <4> QED
        BY <1>1, <1>2, <2>2, <4>1, <4>2 DEF InPlace, IsAvatar, Holds, members
    <3> QED
      BY <3>1, <3>2 DEF Placed
  <2>5. Exclusive' /\ Seen'
    BY <1>1, <1>2, <2>1 DEF Inv, Exclusive, Seen, Holds, members
  <2>6. (FilesResolve /\ PhotosStayPrivate /\ ErasedStayFaceless)'
    BY <1>0, <1>1, <1>4, <2>2
    DEF Inv, TypeOK, FilesResolve, PhotosStayPrivate, ErasedStayFaceless, HasRow,
        Referenced, IsAvatar, members
  <2>7. Attended'
    BY <1>0, <1>1, <2>1, <2>2
    DEF Inv, TypeOK, Attended, InHands, HasRow, IsAvatar, members
  <2> QED
    BY <2>3, <2>4, <2>5, <2>6, <2>7 DEF Inv
<1> QED
  BY <1>3, <1>4 DEF Delete

LEMMA UnlinkStep ==
  ASSUME Inv, NEW p \in Process, Unlink(p)
  PROVE  Inv'
<1> PICK f : f = task[p].file
  OBVIOUS
<1>0. TypeOK /\ task[p].step = "unlink" /\ row[f] = "gone" /\ Idle \in Task
  BY DEF Inv, Placed, InPlace, Unlink, Task
<1>1. /\ task' \in [Process -> Task]
      /\ task'[p].step = "idle"
      /\ \A q \in Process \ {p} : task'[q] = task[q]
  BY <1>0, Becoming DEF Unlink, Idle
<1>2. disk' = disk \ {f} /\ UNCHANGED <<row, lost, used, members, stops>>
  BY DEF Unlink
<1>3. TypeOK'
  BY <1>0, <1>1, <1>2 DEF TypeOK, members
<1>4. Placed'
  BY <1>0, <1>1, <1>2 DEF Inv, Placed, InPlace, IsAvatar, members
<1>5. Exclusive' /\ Seen'
  BY <1>1, <1>2 DEF Inv, Exclusive, Seen, Holds, members
<1>6. (FilesResolve /\ PhotosStayPrivate /\ ErasedStayFaceless)'
  BY <1>0, <1>2 DEF Inv, FilesResolve, PhotosStayPrivate, ErasedStayFaceless,
                    HasRow, IsAvatar, members
<1>7. Attended'
  BY <1>0, <1>1, <1>2 DEF Inv, Attended, InHands, HasRow, IsAvatar, members
<1> QED
  BY <1>3, <1>4, <1>5, <1>6, <1>7 DEF Inv

LEMMA DeleteOfficeStep ==
  ASSUME Inv, NEW p \in Process, NEW f \in File, DeleteOffice(p, f)
  PROVE  Inv'
<1>0. TypeOK /\ task[p].step = "idle" /\ row[f] = "office"
  BY DEF Inv, DeleteOffice, OfficeFile, Idle
<1>1. /\ task' \in [Process -> Task]
      /\ task'[p].step = "delete" /\ task'[p].file = f
      /\ \A q \in Process \ {p} : task'[q] = task[q]
  <2>1. Deleting(f) \in Task
    BY DEF Deleting, Task
  <2> QED
    BY <1>0, <2>1, Becoming DEF DeleteOffice, Deleting
<1>2. UNCHANGED <<row, disk, lost, used, members, stops>>
  BY DEF DeleteOffice
<1>3. TypeOK'
  BY <1>0, <1>1, <1>2 DEF TypeOK, members
<1>4. Placed'
  BY <1>0, <1>1, <1>2 DEF Inv, Placed, InPlace, IsAvatar, members
<1>5. \A q \in Process : Holds(q) => task[q].file # f
  BY <1>0 DEF Inv, Placed, InPlace, Holds
<1>6. Exclusive' /\ Seen'
  BY <1>1, <1>2, <1>5 DEF Inv, Exclusive, Seen, Holds, members
<1>7. (FilesResolve /\ PhotosStayPrivate /\ ErasedStayFaceless)'
  BY <1>2 DEF Inv, FilesResolve, PhotosStayPrivate, ErasedStayFaceless,
              HasRow, IsAvatar, members
<1>8. Attended'
  BY <1>0, <1>1, <1>2 DEF Inv, Attended, InHands, HasRow, IsAvatar, members
<1> QED
  BY <1>3, <1>4, <1>6, <1>7, <1>8 DEF Inv

LEMMA StopStep ==
  ASSUME Inv, NEW p \in Process, Stop(p)
  PROVE  Inv'
<1>0. TypeOK /\ Idle \in Task
  BY DEF Inv, Task
<1>1. /\ task' \in [Process -> Task]
      /\ task'[p].step = "idle"
      /\ \A q \in Process \ {p} : task'[q] = task[q]
  BY <1>0, Becoming DEF Stop, Idle
<1>2. /\ UNCHANGED <<row, disk, lost, used, members>>
      /\ stops' \in 0..MaxStops /\ stops' # 0
  BY <1>0, MediaAssumption DEF Stop, TypeOK
<1>3. TypeOK'
  BY <1>0, <1>1, <1>2 DEF TypeOK, members
<1>4. Placed'
  BY <1>1, <1>2 DEF Inv, Placed, InPlace, IsAvatar, members
<1>5. Exclusive' /\ Seen'
  BY <1>1, <1>2 DEF Inv, Exclusive, Seen, Holds, members
<1>6. (FilesResolve /\ PhotosStayPrivate /\ ErasedStayFaceless)'
  BY <1>2 DEF Inv, FilesResolve, PhotosStayPrivate, ErasedStayFaceless,
              HasRow, IsAvatar, members
<1>7. Attended'
  BY <1>2 DEF Attended
<1> QED
  BY <1>3, <1>4, <1>5, <1>6, <1>7 DEF Inv
-----------------------------------------------------------------------------
(* Materials and members. *)

LEMMA EditStep ==
  ASSUME Inv, NEW i \in Item, NEW f \in File \cup {None}, Edit(i, f)
  PROVE  Inv'
<1>1. /\ UNCHANGED <<row, disk, lost, members, task, stops>>
      /\ used' \in [Item -> File \cup {None}]
      /\ \A j \in Item : used'[j] \in {used[j], f}
      /\ f # None => row[f] = "office" /\ ~IsAvatar(f)
  BY DEF Edit, MayShow, Inv, TypeOK
<1>2. (TypeOK /\ Placed /\ Exclusive /\ Seen /\ ErasedStayFaceless /\ Attended)'
  BY <1>1 DEF Inv, TypeOK, Placed, InPlace, Exclusive, Seen, Holds,
              ErasedStayFaceless, Attended, InHands, HasRow, IsAvatar, members
<1>3. (FilesResolve /\ PhotosStayPrivate)'
  BY <1>1 DEF Inv, FilesResolve, PhotosStayPrivate, HasRow, IsAvatar, members
<1> QED
  BY <1>2, <1>3 DEF Inv

LEMMA EraseStep ==
  ASSUME Inv, NEW p \in Process, NEW m \in Member, Erase(p, m)
  PROVE  Inv'
<1> PICK previous : previous = avatar[m]
  OBVIOUS
<1>0. TypeOK /\ task[p].step = "idle" /\ previous \in File \cup {None}
  BY DEF Inv, TypeOK, Erase, Idle
<1> DEFINE next == ThenDeletePrevious(previous)
<1>1. /\ next \in Task /\ next.step \in {"idle", "delete"}
      /\ previous # None => next.step = "delete"
      /\ next.step = "delete" => previous # None /\ next.file = previous
  BY <1>0 DEF ThenDeletePrevious, Deleting, Idle, Task
<1>2. /\ task' \in [Process -> Task]
      /\ task'[p] = next
      /\ \A q \in Process \ {p} : task'[q] = task[q]
  BY <1>0, <1>1, Becoming DEF Erase
<1> HIDE DEF next
<1>3. previous # None => HasRow(previous) /\ IsAvatar(previous)
  BY DEF Inv, FilesResolve, IsAvatar
<1>4. /\ UNCHANGED <<row, disk, lost, used, stops>>
      /\ avatar' \in [Member -> File \cup {None}] /\ avatar'[m] = None
      /\ \A n \in Member \ {m} : avatar'[n] = avatar[n]
      /\ version' \in [Member -> 0..MaxChanges] /\ version'[m] = version[m] + 1
      /\ \A n \in Member \ {m} : version'[n] = version[n]
      /\ barred' \subseteq Member /\ erased' = erased \cup {m}
  BY <1>0, MediaAssumption DEF Erase, TypeOK
<1>5. \A g \in File : IsAvatar(g)' => IsAvatar(g)
  BY <1>4, MediaAssumption DEF IsAvatar
<1>6. TypeOK'
  BY <1>0, <1>2, <1>4 DEF TypeOK
<1>7. Placed'
  <2>1. InPlace(p)'
    BY <1>1, <1>2, <1>3, <1>4 DEF InPlace, HasRow
  <2>2. ASSUME NEW q \in Process \ {p} PROVE InPlace(q)'
    <3>1. InPlace(q) /\ task'[q] = task[q]
      BY <1>2 DEF Inv, Placed
    <3>2. task[q].step = "assign" => task[q].file \in File
      BY <1>0, TaskTypes
    <3> QED
      BY <1>4, <3>1, <3>2, MediaAssumption DEF InPlace, IsAvatar
  <2> QED
    BY <2>1, <2>2 DEF Placed
<1>8. Exclusive'
  <2>1. \A q \in Process : Holds(q) /\ previous # None => task[q].file # previous
    BY <1>3 DEF Inv, Placed, InPlace, Holds, HasRow
  <2> QED
    BY <1>1, <1>2, <2>1 DEF Inv, Exclusive, Holds
<1>9. Seen'
  <2> SUFFICES ASSUME NEW q \in Process, Holds(q)', task'[q].who # None
      PROVE  /\ task'[q].seen <= version'[task'[q].who]
             /\ task'[q].who \in erased' => task'[q].seen # version'[task'[q].who]
    BY DEF Seen
  <2>1. q # p /\ task'[q] = task[q] /\ Holds(q)
    BY <1>1, <1>2 DEF Holds
  <2>2. /\ task[q].who \in Member /\ task[q].seen \in Nat
        /\ version[task[q].who] \in Nat
    BY <1>0, <2>1, TaskTypes DEF TypeOK
  <2>3. /\ task[q].seen <= version[task[q].who]
        /\ task[q].who \in erased => task[q].seen # version[task[q].who]
    BY <2>1 DEF Inv, Seen
  <2> QED
    BY <1>4, <2>1, <2>2, <2>3
<1>10. (FilesResolve /\ PhotosStayPrivate /\ ErasedStayFaceless)'
  <2>1. FilesResolve'
    BY <1>4 DEF Inv, FilesResolve, HasRow
  <2>2. \A i \in Item : used[i] # None =>
          row[used[i]] # "avatar" /\ \A n \in Member : avatar'[n] # used[i]
    BY <1>4 DEF Inv, PhotosStayPrivate, IsAvatar
  <2>3. \A a, b \in Member : avatar'[a] = avatar'[b] /\ a # b => avatar'[a] = None
    BY <1>4 DEF Inv, PhotosStayPrivate
  <2>4. ErasedStayFaceless'
    BY <1>0, <1>4 DEF Inv, TypeOK, ErasedStayFaceless
  <2> QED
    BY <1>4, <2>1, <2>2, <2>3, <2>4 DEF PhotosStayPrivate, IsAvatar
<1>11. Attended'
  <2> SUFFICES ASSUME stops = 0
      PROVE  /\ \A g \in disk : HasRow(g)' \/ InHands(g, {"insert", "unlink"})'
             /\ \A g \in File : row[g] = "avatar" =>
                  IsAvatar(g)' \/ InHands(g, {"assign", "delete"})'
    BY <1>4 DEF Attended
  <2>1. \A g \in disk : HasRow(g)' \/ InHands(g, {"insert", "unlink"})'
    BY <1>0, <1>2, <1>4 DEF Inv, Attended, InHands, HasRow
  <2>2. ASSUME NEW g \in File, row[g] = "avatar"
        PROVE  IsAvatar(g)' \/ InHands(g, {"assign", "delete"})'
    <3>1. CASE InHands(g, {"assign", "delete"})
      BY <1>0, <1>2, <3>1 DEF InHands
    <3>2. CASE IsAvatar(g) /\ g = previous
      <4>1. task'[p].step = "delete" /\ task'[p].file = g
        BY <1>1, <1>2, <3>2, MediaAssumption
      <4> QED
        BY <4>1 DEF InHands
    <3>3. CASE IsAvatar(g) /\ g # previous
      BY <1>4, <3>3 DEF IsAvatar
    <3> QED
      BY <2>2, <3>1, <3>2, <3>3 DEF Inv, Attended
  <2> QED
    BY <2>1, <2>2
<1> QED
  BY <1>6, <1>7, <1>8, <1>9, <1>10, <1>11 DEF Inv

LEMMA ChangeLoginStep ==
  ASSUME Inv, NEW m \in Member, ChangeLogin(m)
  PROVE  Inv'
<1>0. TypeOK
  BY DEF Inv
<1>1. /\ UNCHANGED <<row, disk, lost, used, avatar, barred, erased, task, stops>>
      /\ m \notin erased
      /\ version' \in [Member -> 0..MaxChanges] /\ version'[m] = version[m] + 1
      /\ \A n \in Member \ {m} : version'[n] = version[n]
  BY <1>0, MediaAssumption DEF ChangeLogin, TypeOK
<1>2. (TypeOK /\ Placed /\ Exclusive /\ FilesResolve /\ PhotosStayPrivate
        /\ ErasedStayFaceless /\ Attended)'
  BY <1>1 DEF Inv, TypeOK, Placed, InPlace, Exclusive, Holds, FilesResolve,
    PhotosStayPrivate, ErasedStayFaceless, Attended, InHands, HasRow, IsAvatar
<1>3. Seen'
  <2> SUFFICES ASSUME NEW q \in Process, Holds(q), task[q].who # None
      PROVE  /\ task[q].seen <= version'[task[q].who]
             /\ task[q].who \in erased => task[q].seen # version'[task[q].who]
    BY <1>1 DEF Seen, Holds
  <2>1. /\ task[q].who \in Member /\ task[q].seen \in Nat
        /\ version[task[q].who] \in Nat
    BY <1>0, TaskTypes DEF TypeOK
  <2>2. /\ task[q].seen <= version[task[q].who]
        /\ task[q].who \in erased => task[q].seen # version[task[q].who]
    BY DEF Inv, Seen
  <2> QED
    BY <1>1, <2>1, <2>2
<1> QED
  BY <1>2, <1>3 DEF Inv

LEMMA SetStatusStep ==
  ASSUME Inv, NEW m \in Member, SetStatus(m)
  PROVE  Inv'
<1>1. UNCHANGED <<row, disk, lost, used, avatar, version, erased, task, stops>>
  BY DEF SetStatus
<1>2. TypeOK'
  <2>1. barred' = barred \ {m} \/ barred' = barred \cup {m}
    BY DEF SetStatus
  <2>2. TypeOK
    BY DEF Inv
  <2> QED
    BY <1>1, <2>1, <2>2 DEF TypeOK
<1> QED
  BY <1>1, <1>2 DEF Inv, Placed, InPlace, Exclusive, Seen, Holds, FilesResolve,
    PhotosStayPrivate, ErasedStayFaceless, Attended, InHands, HasRow, IsAvatar
-----------------------------------------------------------------------------
LEMMA InvStep == Inv /\ [Next]_vars => Inv'
<1> SUFFICES ASSUME Inv, [Next]_vars PROVE Inv'
  OBVIOUS
<1>1. ASSUME NEW p \in Process, NEW f \in File, UploadOffice(p, f) PROVE Inv'
  BY <1>1, WriteStep, MediaAssumption DEF UploadOffice
<1>2. ASSUME NEW p \in Process, NEW m \in Member, NEW f \in File, UploadAvatar(p, m, f)
      PROVE  Inv'
  <2>1. version[m] \in 0..MaxChanges
    BY DEF Inv, TypeOK
  <2> QED
    BY <1>2, <2>1, WriteStep, MediaAssumption DEF UploadAvatar
<1>3. ASSUME NEW p \in Process, Insert(p) \/ InsertFails(p) \/ InsertLost(p) PROVE Inv'
  BY <1>3, InsertStep, InsertFailsStep, InsertLostStep
<1>4. ASSUME NEW p \in Process, Assign(p) \/ AssignFails(p) \/ AssignLost(p) PROVE Inv'
  BY <1>4, AssignStep, AssignFailsStep, AssignLostStep
<1>5. ASSUME NEW p \in Process, Delete(p) \/ Unlink(p) \/ Stop(p) PROVE Inv'
  BY <1>5, DeleteStep, UnlinkStep, StopStep
<1>6. ASSUME NEW p \in Process, NEW f \in File, DeleteOffice(p, f) PROVE Inv'
  BY <1>6, DeleteOfficeStep
<1>7. ASSUME NEW i \in Item, NEW f \in File \cup {None}, Edit(i, f) PROVE Inv'
  BY <1>7, EditStep
<1>8. ASSUME NEW p \in Process, NEW m \in Member, Erase(p, m) PROVE Inv'
  BY <1>8, EraseStep
<1>9. ASSUME NEW m \in Member, ChangeLogin(m) \/ SetStatus(m) PROVE Inv'
  BY <1>9, ChangeLoginStep, SetStatusStep
<1>10. CASE UNCHANGED vars
  BY <1>10 DEF vars, members, Inv, TypeOK, Placed, InPlace, Exclusive, Seen, Holds,
    FilesResolve, PhotosStayPrivate, ErasedStayFaceless, Attended, InHands, HasRow,
    IsAvatar
<1> QED
  BY <1>1, <1>2, <1>3, <1>4, <1>5, <1>6, <1>7, <1>8, <1>9, <1>10 DEF Next

LEMMA Consequences ==
  ASSUME Inv
  PROVE  TypeOK /\ FilesResolve /\ PhotosStayPrivate /\ ErasedStayFaceless
           /\ NothingLeftBehind
<1>1. NothingLeftBehind
  BY DEF Inv, Attended, InHands, NothingLeftBehind, Quiet, Idle
<1> QED
  BY <1>1 DEF Inv

LEMMA Invariance == Spec => []Inv
BY InvInit, InvStep, PTL DEF Spec

\* The state stays within its types, for any bounds.
THEOREM TypeCorrect == Spec => []TypeOK
<1>1. Inv => TypeOK
  BY Consequences
<1> QED
  BY <1>1, Invariance, PTL

\* No deletion takes the file from a material or a profile that shows it, in
\* whatever order uploads, edits and deletions come (media.references).
THEOREM ReferencesResolve == Spec => []FilesResolve
<1>1. Inv => FilesResolve
  BY Consequences
<1> QED
  BY <1>1, Invariance, PTL

\* A photo is its member's alone: no material shows it and no other profile.
THEOREM PhotosArePrivate == Spec => []PhotosStayPrivate
<1>1. Inv => PhotosStayPrivate
  BY Consequences
<1> QED
  BY <1>1, Invariance, PTL

\* An upload that was under way when its member was erased changes nothing any
\* more (upload_avatar's comparison under FOR UPDATE).
THEOREM ErasedWithoutPhoto == Spec => []ErasedStayFaceless
<1>1. Inv => ErasedStayFaceless
  BY Consequences
<1> QED
  BY <1>1, Invariance, PTL

\* A photo belongs to one profile that is there, and to nothing else.
THEOREM PhotosBelongToMembers == Spec => []PhotosFollowMembers
<1>1. Inv => PhotosFollowMembers
  BY Consequences DEF PhotosFollowMembers
<1> QED
  BY <1>1, Invariance, PTL

\* Requests that run to their end leave neither files without rows nor photos
\* that are nobody's, however they overlap.
THEOREM CleanWhenQuiet == Spec => []NothingLeftBehind
<1>1. Inv => NothingLeftBehind
  BY Consequences
<1> QED
  BY <1>1, Invariance, PTL
=============================================================================
