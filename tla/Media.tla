------------------------------- MODULE Media --------------------------------
(***************************************************************************)
(* The media library (modules/media): rows of directus_files, the files    *)
(* on disk, the materials that show them and the members' photos.          *)
(*                                                                         *)
(* Neither the two stores nor the tables that refer to a row share a       *)
(* transaction, so a request works in steps: it writes a file, inserts its *)
(* row, makes it somebody's photo, deletes the photo before it, unlinks    *)
(* that file.  Requests overlap between the steps, and stop anywhere.      *)
(*                                                                         *)
(* A transaction that reads references (Edit, Delete) is one step: it has  *)
(* the lock media.references, or the tables' locks, to itself.             *)
(***************************************************************************)
EXTENDS Naturals

CONSTANTS
  File,         \* ids of files
  Item,         \* fields of materials, of MEDIA_FIELDS
  Member,
  None,         \* no file, and nobody
  Process,      \* coroutines of members and of the office
  FirstPhoto,   \* FirstPhoto[m]: photo of the old system, without a kind, or None
  MaxChanges,   \* changes of a member's login (a bound)
  MaxStops      \* how often something stops in the middle (a bound)

ASSUME MediaAssumption ==
  /\ None \notin File /\ None \notin Member
  /\ FirstPhoto \in [Member -> File \cup {None}]
  /\ \A m, n \in Member : FirstPhoto[m] = FirstPhoto[n] /\ m # n => FirstPhoto[m] = None
  /\ MaxChanges \in Nat /\ MaxStops \in Nat

VARIABLES
  row,      \* club_upload_kind of each row; "none" before it, "gone" after it
  disk,     \* files in the directory
  lost,     \* rows whose file was removed though they had been committed
  used,     \* the file each field of a material shows
  avatar,   \* alumni.avatar
  version,  \* token_version, and what else of a login changes
  barred,   \* members with verification_status 'rejected'
  erased,   \* members who have been anonymized
  task,     \* what each request is doing
  stops     \* how often one has stopped

members == <<avatar, version, barred, erased>>
vars == <<row, disk, lost, used, members, task, stops>>

Idle == [step |-> "idle"]
Task ==
  {Idle}
  \cup [step : {"insert", "assign"}, file : File, who : Member, seen : 0..MaxChanges]
  \cup [step : {"insert"}, file : File, who : {None}, seen : {0}]
  \cup [step : {"delete", "unlink"}, file : File]

HasRow(f) == row[f] \in {"office", "avatar"}

TypeOK ==
  /\ row \in [File -> {"none", "office", "avatar", "gone"}]
  /\ disk \subseteq File /\ lost \subseteq File
  /\ used \in [Item -> File \cup {None}]
  /\ avatar \in [Member -> File \cup {None}]
  /\ version \in [Member -> 0..MaxChanges]
  /\ barred \subseteq Member /\ erased \subseteq Member
  /\ task \in [Process -> Task]
  /\ stops \in 0..MaxStops

FirstPhotos == {FirstPhoto[m] : m \in Member} \ {None}

Init ==
  /\ row = [f \in File |-> IF f \in FirstPhotos THEN "office" ELSE "none"]
  /\ disk = FirstPhotos /\ lost = {}
  /\ used = [i \in Item |-> None]
  /\ avatar = FirstPhoto
  /\ version = [m \in Member |-> 0]
  /\ barred = {} /\ erased = {}
  /\ task = [p \in Process |-> Idle]
  /\ stops = 0

Become(p, t) == task' = [task EXCEPT ![p] = t]

Deleting(f) == [step |-> "delete", file |-> f]

\* What follows once a photo has been taken off a profile.
ThenDeletePrevious(f) == IF f = None THEN Idle ELSE Deleting(f)
-----------------------------------------------------------------------------
(* save. *)

Fresh(f) == row[f] = "none" /\ f \notin disk

\* The file is on disk under its name; its row comes next.
Write(p, f, m, seen) ==
  /\ task[p] = Idle /\ Fresh(f)
  /\ disk' = disk \cup {f}
  /\ Become(p, [step |-> "insert", file |-> f, who |-> m, seen |-> seen])
  /\ UNCHANGED <<row, lost, used, members, stops>>

UploadOffice(p, f) == Write(p, f, None, 0)

\* require_alumni has read the member, and upload_avatar looked at the status.
UploadAvatar(p, m, f) ==
  m \notin barred /\ m \notin erased /\ Write(p, f, m, version[m])

Assigning(t) ==
  [step |-> "assign", file |-> t.file, who |-> t.who, seen |-> t.seen]

Kind(t) == IF t.who = None THEN "office" ELSE "avatar"

Insert(p) ==
  /\ task[p].step = "insert"
  /\ LET t == task[p] IN
     /\ row' = [row EXCEPT ![t.file] = Kind(t)]
     /\ Become(p, IF t.who = None THEN Idle ELSE Assigning(t))
  /\ UNCHANGED <<disk, lost, used, members, stops>>

InsertFails(p) ==
  /\ task[p].step = "insert"
  /\ disk' = disk \ {task[p].file}
  /\ Become(p, Idle)
  /\ UNCHANGED <<row, lost, used, members, stops>>

\* The row is committed, its answer never arrives (the client has gone, or the
\* connection), and the file is removed as if the insertion had failed.
InsertLost(p) ==
  /\ task[p].step = "insert" /\ stops < MaxStops /\ stops' = stops + 1
  /\ LET t == task[p] IN
     /\ row' = [row EXCEPT ![t.file] = Kind(t)]
     /\ disk' = disk \ {t.file}
     /\ lost' = lost \cup {t.file}
  /\ Become(p, Idle)
  /\ UNCHANGED <<used, members>>
-----------------------------------------------------------------------------
(* upload_avatar, after save. *)

\* Mutant: only the status is compared.
UnchangedStatus(m, seen) == m \notin barred

Unchanged(m, seen) == m \notin barred /\ version[m] = seen

Assign(p) ==
  /\ task[p].step = "assign"
  /\ LET t == task[p] IN
     /\ Unchanged(t.who, t.seen)
     /\ avatar' = [avatar EXCEPT ![t.who] = t.file]
     /\ Become(p, ThenDeletePrevious(avatar[t.who]))
  /\ UNCHANGED <<row, disk, lost, used, version, barred, erased, stops>>

\* Mutant: a refused photo is not deleted.
RefusedKept(p) == Idle

Refused(p) == Deleting(task[p].file)

\* The profile has changed, a statement fails or the client has gone: what was
\* just saved is deleted.
AssignFails(p) ==
  /\ task[p].step = "assign"
  /\ Become(p, Refused(p))
  /\ UNCHANGED <<row, disk, lost, used, members, stops>>

\* The photo is committed and the answer lost: the same handler tries to delete
\* it, and the one before it is forgotten.
AssignLost(p) ==
  /\ task[p].step = "assign" /\ stops < MaxStops /\ stops' = stops + 1
  /\ LET t == task[p] IN
     /\ Unchanged(t.who, t.seen)
     /\ avatar' = [avatar EXCEPT ![t.who] = t.file]
     /\ Become(p, Deleting(t.file))
  /\ UNCHANGED <<row, disk, lost, used, version, barred, erased>>
-----------------------------------------------------------------------------
(* delete, and who calls it. *)

IsAvatar(f) == \E m \in Member : avatar[m] = f

\* Mutant: the members' photos are not among the references.
ReferencedByItems(f) == \E i \in Item : used[i] = f

Referenced(f) == IsAvatar(f) \/ \E i \in Item : used[i] = f

Delete(p) ==
  /\ task[p].step = "delete"
  /\ LET f == task[p].file IN
     \/ /\ ~HasRow(f) \/ Referenced(f)
        /\ Become(p, Idle) /\ UNCHANGED row
     \/ /\ HasRow(f) /\ ~Referenced(f)
        /\ row' = [row EXCEPT ![f] = "gone"]
        /\ Become(p, [step |-> "unlink", file |-> f])
  /\ UNCHANGED <<disk, lost, used, members, stops>>

Unlink(p) ==
  /\ task[p].step = "unlink"
  /\ disk' = disk \ {task[p].file}
  /\ Become(p, Idle)
  /\ UNCHANGED <<row, lost, used, members, stops>>

OfficeFile(f) == row[f] = "office" /\ ~IsAvatar(f)

\* delete_media, up to delete.
DeleteOffice(p, f) ==
  /\ task[p] = Idle /\ OfficeFile(f)
  /\ Become(p, Deleting(f))
  /\ UNCHANGED <<row, disk, lost, used, members, stops>>

\* A crash, or a deletion that fails and is only logged.
Stop(p) ==
  /\ task[p] # Idle /\ stops < MaxStops /\ stops' = stops + 1
  /\ Become(p, Idle)
  /\ UNCHANGED <<row, disk, lost, used, members>>
-----------------------------------------------------------------------------
(* Materials and members. *)

MayShow(f) == row[f] = "office" /\ ~IsAvatar(f)

\* A create or an update of a material, with the check of its references.
Edit(i, f) ==
  /\ f # None => MayShow(f)
  /\ used' = [used EXCEPT ![i] = f]
  /\ UNCHANGED <<row, disk, lost, members, task, stops>>

\* anonymize; the file goes after the commit.
Erase(p, m) ==
  /\ task[p] = Idle /\ m \notin erased /\ version[m] < MaxChanges
  /\ avatar' = [avatar EXCEPT ![m] = None]
  /\ version' = [version EXCEPT ![m] = @ + 1]
  /\ barred' = barred \cup {m}
  /\ erased' = erased \cup {m}
  /\ Become(p, ThenDeletePrevious(avatar[m]))
  /\ UNCHANGED <<row, disk, lost, used, stops>>

\* A new password, or another Telegram account.
ChangeLogin(m) ==
  /\ m \notin erased /\ version[m] < MaxChanges
  /\ version' = [version EXCEPT ![m] = @ + 1]
  /\ UNCHANGED <<row, disk, lost, used, avatar, barred, erased, task, stops>>

\* The office rejects a member, or verifies one, erased or not.
SetStatus(m) ==
  /\ barred' = IF m \in barred THEN barred \ {m} ELSE barred \cup {m}
  /\ UNCHANGED <<row, disk, lost, used, avatar, version, erased, task, stops>>
-----------------------------------------------------------------------------
Next ==
  \/ \E p \in Process, f \in File : UploadOffice(p, f) \/ DeleteOffice(p, f)
  \/ \E p \in Process, m \in Member, f \in File : UploadAvatar(p, m, f)
  \/ \E p \in Process : Insert(p) \/ InsertFails(p) \/ InsertLost(p)
  \/ \E p \in Process : Assign(p) \/ AssignFails(p) \/ AssignLost(p)
  \/ \E p \in Process : Delete(p) \/ Unlink(p) \/ Stop(p)
  \/ \E i \in Item, f \in File \cup {None} : Edit(i, f)
  \/ \E p \in Process, m \in Member : Erase(p, m)
  \/ \E m \in Member : ChangeLogin(m) \/ SetStatus(m)

Spec == Init /\ [][Next]_vars
-----------------------------------------------------------------------------
(* Properties. *)

\* What a material or a profile shows has a row, and a row has its file, whoever
\* deletes what meanwhile; but for files removed after an answer was lost.
FilesResolve ==
  /\ \A i \in Item : used[i] # None => HasRow(used[i])
  /\ \A m \in Member : avatar[m] # None => HasRow(avatar[m])
  /\ \A f \in File : HasRow(f) => f \in disk \cup lost

\* No material shows a member's photo, nor has one the photo of another
\* (assert_media_references, media_references).
PhotosStayPrivate ==
  /\ \A i \in Item : used[i] # None => row[used[i]] # "avatar" /\ ~IsAvatar(used[i])
  /\ \A m, n \in Member : avatar[m] = avatar[n] /\ m # n => avatar[m] = None

\* An erased member gets no photo any more, though an upload was under way and the
\* office has verified the profile since (the comparison in upload_avatar).
ErasedStayFaceless == \A m \in erased : avatar[m] = None

\* A photo is shown by the profile it was uploaded for and by nothing else, as long
\* as there is that profile (upload_avatar, assert_media_references).
PhotosFollowMembers == PhotosStayPrivate /\ ErasedStayFaceless

Quiet == stops = 0 /\ \A p \in Process : task[p] = Idle

\* When all requests have ended, and none has stopped midway, the directory holds
\* the files of the rows and no photo is left that is nobody's
\* (test_avatar_replacement.py).
NothingLeftBehind ==
  Quiet => /\ \A f \in disk : HasRow(f)
           /\ \A f \in File : row[f] = "avatar" => IsAvatar(f)
=============================================================================
