------------------------------- MODULE ClubProofs -----------------------------
(* Each component of Club behaves as it does alone, and the safety properties *)
(* of Schema, Maintenance, Catalog, Carts, Locks, Previews and Offline for    *)
(* every value of their constants: an inductive invariant of the component's  *)
(* specification implies the property, and the specification of Club implies  *)
(* that of the component.                                                     *)
EXTENDS Club, FiniteSetTheorems, SequenceTheorems, TLAPS

-----------------------------------------------------------------------------
(* The components keep out of each other's way.                               *)

\* A step of one component leaves the variables of the others alone.
LEMMA ClubsOthersMove ==
    /\ SchemaMoves => UNCHANGED <<maintenanceVars, catalogVars, previewVars, cartVars, lockVars, offlineVars>>
    /\ MaintenanceMoves => UNCHANGED <<schemaVars, catalogVars, previewVars, cartVars, lockVars, offlineVars>>
    /\ CatalogMoves => UNCHANGED <<schemaVars, maintenanceVars, previewVars, cartVars, lockVars, offlineVars>>
    /\ PreviewsMoves => UNCHANGED <<schemaVars, maintenanceVars, catalogVars, cartVars, lockVars, offlineVars>>
    /\ CartsMoves => UNCHANGED <<schemaVars, maintenanceVars, catalogVars, previewVars, lockVars, offlineVars>>
    /\ LocksMoves => UNCHANGED <<schemaVars, maintenanceVars, catalogVars, previewVars, cartVars, offlineVars>>
    /\ OfflineMoves => UNCHANGED <<schemaVars, maintenanceVars, catalogVars, previewVars, cartVars, lockVars>>
<1>1. SchemaMoves => Still("schema") BY Zenon DEF SchemaMoves
<1>2. MaintenanceMoves => Still("maintenance") BY Zenon DEF MaintenanceMoves
<1>3. CatalogMoves => Still("catalog") BY Zenon DEF CatalogMoves
<1>4. PreviewsMoves => Still("previews") BY Zenon DEF PreviewsMoves
<1>5. CartsMoves => Still("carts") BY Zenon DEF CartsMoves
<1>6. LocksMoves => Still("locks") BY Zenon DEF LocksMoves
<1>7. OfflineMoves => Still("offline") BY Zenon DEF OfflineMoves
<1>8. QED BY <1>1, <1>2, <1>3, <1>4, <1>5, <1>6, <1>7 DEF Still

-----------------------------------------------------------------------------
(* Maintenance: backups.                                                      *)

\* The operators' scripts in Club do what Maintenance allows.
THEOREM MaintenanceAlone == ClubSpec => Mt!MaintenanceSpec
<1>1. InitClub => Mt!InitMaintenance BY DEF InitClub
<1>2. [NextClub]_clubVars => [Mt!NextMaintenance]_(Mt!maintenanceVars)
  <2>1. MaintenanceMoves => Mt!NextMaintenance
    BY DEF MaintenanceMoves, Mt!NextMaintenance
  <2>2. UNCHANGED maintenanceVars => UNCHANGED Mt!maintenanceVars
    BY DEF maintenanceVars, Mt!maintenanceVars, Mt!installed, Mt!data, Mt!running, Mt!copies
  <2>3. QED BY <2>1, <2>2, ClubsOthersMove DEF NextClub, clubVars
<1>3. QED BY <1>1, <1>2, PTL DEF ClubSpec, Mt!MaintenanceSpec

\* A snapshot, whatever its name and revision are.
Snapshot(s) == s \in [name : {s.name}, rows : SUBSET File, files : SUBSET File, rev : {s.rev},
                      sent : BOOLEAN, whole : BOOLEAN]

MaintenanceType ==
    /\ rows \subseteq File /\ files \subseteq File
    /\ job \in [kind : {"idle", "install", "backup", "deploy"}, step : {job.step}, was : BOOLEAN,
                rows : SUBSET File, files : SUBSET File, name : {job.name}]
    /\ \A s \in snaps : Snapshot(s)

\* What a copy has read so far has the file of each of its rows, the API standing
\* still between the two; the new snapshot is there until its record names it.
CopyInv ==
    /\ rows \subseteq files
    /\ Mt!In("dump") => api = "stopped"
    /\ Mt!In("tar") => api = "stopped" /\ job.rows \subseteq files
    /\ Mt!In("publish") => job.rows \subseteq job.files
    /\ Mt!In("offsite") => \E s \in snaps : s.name = job.name
    /\ Mt!In("record") => \E s \in snaps : s.name = job.name /\ (Offsite => s.sent)
    /\ Mt!In("rotate") => last.name = job.name

MaintenanceInv == MaintenanceType /\ CopyInv /\ Mt!BackupsCanBeRestored

\* At first there is neither a file nor a snapshot.
LEMMA MaintenanceInitially == Mt!InitMaintenance => MaintenanceInv
BY DEF Mt!InitMaintenance, MaintenanceInv, MaintenanceType, CopyInv, Mt!BackupsCanBeRestored, Mt!Idle,
       Mt!NoTarget, Mt!In, Mt!During, Mt!Copying

\* Files are saved before their rows and removed after them.
LEMMA FilesChange ==
    ASSUME MaintenanceInv, NEW f \in File, Mt!Save(f) \/ Mt!Remove(f)
    PROVE  MaintenanceInv'
<1>1. UNCHANGED <<api, job, snaps, last, target>> /\ api = "running"
  BY DEF Mt!Save, Mt!Remove, Mt!running, Mt!copies
<1>2. rows' \subseteq files' /\ rows' \subseteq File /\ files' \subseteq File
  BY DEF Mt!Save, Mt!Remove, MaintenanceInv, MaintenanceType, CopyInv
<1>3. QED BY <1>1, <1>2 DEF MaintenanceInv, MaintenanceType, CopyInv, Mt!BackupsCanBeRestored, Mt!In, Mt!During

\* A job that begins or ends, or does not copy, leaves the backups alone.
LEMMA JobsChange ==
    ASSUME MaintenanceInv, UNCHANGED <<rows, files, snaps, last, target>>,
           job' \in [kind : {"idle", "install", "backup", "deploy"}, step : {job'.step}, was : BOOLEAN,
                     rows : SUBSET File, files : SUBSET File, name : {job'.name}],
           \/ ~Mt!During(Mt!Copying)'
           \/ job'.step \notin {"dump", "tar", "publish", "offsite", "record", "rotate"}
           \/ job' = job /\ job.kind \notin Mt!Copying
    PROVE  MaintenanceInv'
BY DEF MaintenanceInv, MaintenanceType, CopyInv, Mt!BackupsCanBeRestored, Mt!In, Mt!During

\* The copy, step by step.
LEMMA CopyGoesOn ==
    ASSUME MaintenanceInv
    PROVE  /\ Mt!StopForCopy => MaintenanceInv'
           /\ Mt!Dump => MaintenanceInv'
           /\ Mt!Tar => MaintenanceInv'
           /\ Mt!Publish => MaintenanceInv'
           /\ Mt!CopyOffsite => MaintenanceInv'
           /\ Mt!RecordBackup => MaintenanceInv'
           /\ Mt!Rotate => MaintenanceInv'
<1>1. /\ job \in [kind : {"idle", "install", "backup", "deploy"}, step : {job.step}, was : BOOLEAN,
                  rows : SUBSET File, files : SUBSET File, name : {job.name}]
      /\ rows \subseteq File /\ files \subseteq File /\ rows \subseteq files
      /\ \A s \in snaps : Snapshot(s)
  BY DEF MaintenanceInv, MaintenanceType, CopyInv
<1> USE DEF Mt!In, Mt!During
<1>2. ASSUME Mt!StopForCopy
      PROVE  MaintenanceInv'
  <2>1. /\ job' = [kind |-> job.kind, step |-> "dump", was |-> (api = "running"),
                   rows |-> job.rows, files |-> job.files, name |-> job.name]
        /\ api' = "stopped" /\ UNCHANGED <<rows, files, snaps, last, target>>
    BY <1>1, <1>2 DEF Mt!StopForCopy, Mt!data, Mt!copies
  <2>2. QED BY <1>1, <2>1 DEF MaintenanceInv, MaintenanceType, CopyInv, Mt!BackupsCanBeRestored
<1>3. ASSUME Mt!Dump
      PROVE  MaintenanceInv'
  <2>1. /\ job' = [kind |-> job.kind, step |-> "tar", was |-> job.was,
                   rows |-> rows, files |-> job.files, name |-> job.name]
        /\ api = "stopped" /\ UNCHANGED <<api, rows, files, snaps, last, target>>
    BY <1>1, <1>3 DEF Mt!Dump, Mt!data, Mt!copies, Mt!running, MaintenanceInv, CopyInv
  <2>2. QED BY <1>1, <2>1 DEF MaintenanceInv, MaintenanceType, CopyInv, Mt!BackupsCanBeRestored
<1>4. ASSUME Mt!Tar
      PROVE  MaintenanceInv'
  <2>1. /\ job' = [kind |-> job.kind, step |-> "publish", was |-> job.was,
                   rows |-> job.rows, files |-> files, name |-> job.name]
        /\ job.rows \subseteq files /\ UNCHANGED <<rows, files, snaps, last, target>>
    BY <1>1, <1>4 DEF Mt!Tar, Mt!data, Mt!copies, MaintenanceInv, CopyInv
  <2>2. QED BY <1>1, <2>1 DEF MaintenanceInv, MaintenanceType, CopyInv, Mt!BackupsCanBeRestored
<1>5. ASSUME Mt!Publish
      PROVE  MaintenanceInv'
  <2> DEFINE new == [name |-> Mt!NewName, rows |-> job.rows, files |-> job.files,
                     rev |-> image.api, sent |-> FALSE, whole |-> TRUE]
  <2>1. /\ job.rows \subseteq job.files /\ snaps' = snaps \cup {new}
        /\ job' = [kind |-> job.kind, step |-> IF Offsite THEN "offsite" ELSE "record", was |-> job.was,
                   rows |-> {}, files |-> {}, name |-> Mt!NewName]
        /\ UNCHANGED <<rows, files, last, target>>
    BY <1>1, <1>5 DEF Mt!Publish, Mt!data, MaintenanceInv, CopyInv
  <2>2. Snapshot(new) /\ new.name = Mt!NewName /\ new.rows \subseteq new.files
    BY <1>1, <2>1 DEF Snapshot
  <2> HIDE DEF new
  <2>3. job'.name = Mt!NewName /\ job'.step \in {"offsite", "record"} /\ job'.kind = job.kind
        /\ (job'.step = "record" => ~Offsite)
    BY <2>1
  <2>4. MaintenanceType'
    BY <1>1, <2>1, <2>2 DEF MaintenanceType
  <2>5. CopyInv'
    BY <2>1, <2>2, <2>3 DEF MaintenanceInv, CopyInv
  <2>6. Mt!BackupsCanBeRestored'
    BY <2>1, <2>2 DEF MaintenanceInv, Mt!BackupsCanBeRestored
  <2>7. QED BY <2>4, <2>5, <2>6 DEF MaintenanceInv
<1>6. ASSUME Mt!CopyOffsite
      PROVE  MaintenanceInv'
  <2> DEFINE Sent(s) == IF s.name = job.name THEN [s EXCEPT !.sent = TRUE] ELSE s
  <2>1. /\ snaps' = {Sent(s) : s \in snaps}
        /\ job' = [kind |-> job.kind, step |-> "record", was |-> job.was,
                   rows |-> job.rows, files |-> job.files, name |-> job.name]
        /\ \E s \in snaps : s.name = job.name
        /\ UNCHANGED <<rows, files, last, target>>
    BY <1>1, <1>6 DEF Mt!CopyOffsite, Mt!Go, Mt!data, MaintenanceInv, CopyInv
  <2>2. \A s \in snaps : /\ Snapshot(Sent(s)) /\ Sent(s).name = s.name /\ (s.name = job.name => Sent(s).sent)
                         /\ Sent(s).rows = s.rows /\ Sent(s).files = s.files /\ Sent(s).whole = s.whole
                         /\ (s.sent => Sent(s).sent)
    BY <1>1 DEF Snapshot
  <2> HIDE DEF Sent
  <2>3. MaintenanceType'
    BY <1>1, <2>1, <2>2 DEF MaintenanceType
  <2>4. \E s \in snaps' : s.name = job'.name /\ s.sent
    BY <2>1, <2>2
  <2>5. CopyInv'
    BY <2>1, <2>4 DEF MaintenanceInv, CopyInv
  <2>6. Mt!BackupsCanBeRestored'
    BY <2>1, <2>2 DEF MaintenanceInv, Mt!BackupsCanBeRestored
  <2>7. QED BY <2>3, <2>5, <2>6 DEF MaintenanceInv
<1>7. ASSUME Mt!RecordBackup
      PROVE  MaintenanceInv'
  <2>1. /\ last' = [name |-> job.name, offsite |-> Offsite]
        /\ job' = [kind |-> job.kind, step |-> "rotate", was |-> job.was,
                   rows |-> job.rows, files |-> job.files, name |-> job.name]
        /\ \E s \in snaps : s.name = job.name /\ (Offsite => s.sent)
        /\ UNCHANGED <<rows, files, snaps, target>>
    BY <1>1, <1>7 DEF Mt!RecordBackup, Mt!Go, Mt!data, MaintenanceInv, CopyInv
  <2>2. QED BY <1>1, <2>1 DEF MaintenanceInv, MaintenanceType, CopyInv, Mt!BackupsCanBeRestored
<1>8. ASSUME Mt!Rotate
      PROVE  MaintenanceInv'
  <2>1. PICK old \in SUBSET {s \in snaps : Mt!Outdated(s)} : snaps' = snaps \ old
    BY <1>8 DEF Mt!Rotate
  <2>2. /\ job' = [kind |-> job.kind, step |-> "resume", was |-> job.was,
                   rows |-> job.rows, files |-> job.files, name |-> job.name]
        /\ last.name = job.name
        /\ UNCHANGED <<rows, files, last, target>>
    BY <1>1, <1>8 DEF Mt!Rotate, Mt!Go, Mt!data, MaintenanceInv, CopyInv
  <2>3. \A s \in snaps : s.name = job.name => s \in snaps'
    BY <2>1 DEF Mt!Outdated
  <2>4. QED BY <1>1, <2>1, <2>2, <2>3 DEF MaintenanceInv, MaintenanceType, CopyInv, Mt!BackupsCanBeRestored
<1>9. QED BY <1>2, <1>3, <1>4, <1>5, <1>6, <1>7, <1>8

\* What a restored snapshot misses, it would have missed when it was made; one
\* that is damaged restores nowhere.
LEMMA SnapshotsMeetDisks ==
    ASSUME MaintenanceInv, NEW s \in snaps
    PROVE  /\ Mt!Damage(s) => MaintenanceInv'
           /\ Mt!Restore(s) => MaintenanceInv'
<1>1. ASSUME Mt!Damage(s)
      PROVE  MaintenanceInv'
  <2> DEFINE broken == [s EXCEPT !.whole = FALSE, !.rows = {}, !.files = {}]
  <2>1. snaps' = (snaps \ {s}) \cup {broken} /\ UNCHANGED <<rows, files, api, job, last, target>>
    BY <1>1 DEF Mt!Damage, Mt!data, Mt!running
  <2>2. Snapshot(s)
    BY DEF MaintenanceInv, MaintenanceType
  <2>3. Snapshot(broken) /\ broken.name = s.name /\ broken.sent = s.sent /\ ~broken.whole
    BY <2>2 DEF Snapshot
  <2> HIDE DEF broken
  <2>4. MaintenanceType'
    BY <2>1, <2>3 DEF MaintenanceInv, MaintenanceType
  <2>5. \A t \in snaps : \E u \in snaps' : u.name = t.name /\ (u.sent <=> t.sent)
    BY <2>1, <2>3
  <2>6. CopyInv'
    BY <2>1, <2>5 DEF MaintenanceInv, CopyInv, Mt!In, Mt!During
  <2>7. Mt!BackupsCanBeRestored'
    BY <2>1, <2>3, <2>5 DEF MaintenanceInv, Mt!BackupsCanBeRestored
  <2>8. QED BY <2>4, <2>6, <2>7 DEF MaintenanceInv
<1>2. ASSUME Mt!Restore(s)
      PROVE  MaintenanceInv'
  <2>1. UNCHANGED <<rows, files, api, job, snaps, last>>
    BY <1>2 DEF Mt!Restore, Mt!data, Mt!running, Mt!copies
  <2>2. target'.state = "verified" => target'.missing = {}
    BY <1>2 DEF Mt!Restore, Mt!Accepts, MaintenanceInv, Mt!BackupsCanBeRestored
  <2>3. QED BY <2>1, <2>2 DEF MaintenanceInv, MaintenanceType, CopyInv, Mt!BackupsCanBeRestored, Mt!In, Mt!During
<1>3. QED BY <1>1, <1>2

\* Every step of the operators keeps what the last backup stands for.
LEMMA MaintenanceStep ==
    ASSUME MaintenanceInv, [Mt!NextMaintenance]_(Mt!maintenanceVars)
    PROVE  MaintenanceInv'
<1>1. job \in [kind : {"idle", "install", "backup", "deploy"}, step : {job.step}, was : BOOLEAN,
               rows : SUBSET File, files : SUBSET File, name : {job.name}]
  BY DEF MaintenanceInv, MaintenanceType
<1> USE DEF Mt!installed, Mt!data, Mt!running, Mt!copies
<1>2. CASE UNCHANGED Mt!maintenanceVars
  BY <1>2 DEF Mt!maintenanceVars, MaintenanceInv, MaintenanceType, CopyInv, Mt!BackupsCanBeRestored, Mt!In, Mt!During
<1>3. CASE Mt!Prepare \/ Mt!InstallDeploys \/ Mt!StartBackup \/ Mt!StartDeploy \/ Mt!Killed
  <2>1. \/ job' = Mt!Idle
        \/ \E kind \in {"install", "backup", "deploy"}, step \in {"write", "build", "stop"} :
              job' = [Mt!Idle EXCEPT !.kind = kind, !.step = step]
    BY <1>3 DEF Mt!Prepare, Mt!InstallDeploys, Mt!StartBackup, Mt!StartDeploy, Mt!Killed
  <2>2. /\ job' \in [kind : {"idle", "install", "backup", "deploy"}, step : {job'.step}, was : BOOLEAN,
                     rows : SUBSET File, files : SUBSET File, name : {job'.name}]
        /\ job'.step \in {"none", "write", "build", "stop"}
    <3>1. CASE job' = Mt!Idle
      BY <3>1 DEF Mt!Idle
    <3>2. ASSUME NEW kind \in {"install", "backup", "deploy"}, NEW step \in {"write", "build", "stop"},
                 job' = [Mt!Idle EXCEPT !.kind = kind, !.step = step]
          PROVE  job' = [kind |-> kind, step |-> step, was |-> FALSE, rows |-> {}, files |-> {}, name |-> 0]
      BY <3>2 DEF Mt!Idle
    <3>3. CASE \E kind \in {"install", "backup", "deploy"}, step \in {"write", "build", "stop"} :
                  job' = [kind |-> kind, step |-> step, was |-> FALSE, rows |-> {}, files |-> {}, name |-> 0]
      <4>1. PICK kind \in {"install", "backup", "deploy"}, step \in {"write", "build", "stop"} :
                  job' = [kind |-> kind, step |-> step, was |-> FALSE, rows |-> {}, files |-> {}, name |-> 0]
        BY <3>3
      <4>2. job'.step = step /\ job'.name = 0
        BY <4>1
      <4>3. QED BY <4>1, <4>2
    <3>4. QED BY <2>1, <3>1, <3>2, <3>3
  <2>3. UNCHANGED <<rows, files, snaps, last, target>>
    BY <1>3 DEF Mt!Prepare, Mt!InstallDeploys, Mt!StartBackup, Mt!StartDeploy, Mt!Killed
  <2>4. QED BY <2>2, <2>3, JobsChange
<1>4. CASE Mt!Resume \/ Mt!CopyFails \/ Mt!Built \/ Mt!Halt \/ Mt!Migrated \/ Mt!Up \/ Mt!UpWeb \/ Mt!RecordDeploy \/ Mt!DeployFails
  <2>1. \/ job' = Mt!Idle
        \/ \E step \in {"stop", "halt", "migrate", "up", "web", "verify"} : job' = [job EXCEPT !.step = step]
    BY <1>4 DEF Mt!Resume, Mt!CopyFails, Mt!Built, Mt!Halt, Mt!Migrated, Mt!Up, Mt!UpWeb, Mt!RecordDeploy,
                Mt!DeployFails, Mt!Go
  <2>2. /\ job' \in [kind : {"idle", "install", "backup", "deploy"}, step : {job'.step}, was : BOOLEAN,
                     rows : SUBSET File, files : SUBSET File, name : {job'.name}]
        /\ job'.step \in {"none", "stop", "halt", "migrate", "up", "web", "verify"}
    <3>1. CASE job' = Mt!Idle
      BY <3>1 DEF Mt!Idle
    <3>2. ASSUME NEW step \in {"stop", "halt", "migrate", "up", "web", "verify"}, job' = [job EXCEPT !.step = step]
          PROVE  job' = [kind |-> job.kind, step |-> step, was |-> job.was, rows |-> job.rows,
                         files |-> job.files, name |-> job.name]
      BY <1>1, <3>2
    <3>3. QED BY <1>1, <2>1, <3>1, <3>2
  <2>3. UNCHANGED <<rows, files, snaps, last, target>>
    BY <1>4 DEF Mt!Resume, Mt!CopyFails, Mt!Built, Mt!Halt, Mt!Migrated, Mt!Up, Mt!UpWeb, Mt!RecordDeploy, Mt!DeployFails
  <2>4. QED BY <2>2, <2>3, JobsChange
<1>5. CASE Mt!WriteConfig \/ Mt!StartByHand \/ \E r \in Revision : Mt!Fetch(r)
  <2>1. UNCHANGED <<rows, files, job, snaps, last, target>> /\ job.kind \notin Mt!Copying
    BY <1>5 DEF Mt!WriteConfig, Mt!StartByHand, Mt!Fetch, Mt!At, Mt!Copying
  <2>2. QED BY <1>1, <2>1, JobsChange
<1>6. QED BY <1>2, <1>3, <1>4, <1>5, FilesChange, CopyGoesOn, SnapshotsMeetDisks DEF Mt!NextMaintenance

\* The recorded backup exists, and offsite when the record says so, and whatever
\* restores is complete, after any failures and kills, for any files, revisions
\* and number of snapshots (mariadb_backup.py, mariadb_ops.py).
THEOREM BackupsKept == ClubSpec => []BackupsCanBeRestored
<1>1. MaintenanceInv => BackupsCanBeRestored
  BY DEF MaintenanceInv, BackupsCanBeRestored
<1>2. QED BY <1>1, MaintenanceAlone, MaintenanceInitially, MaintenanceStep, PTL DEF Mt!MaintenanceSpec

-------------------------------------------------------------------
(* Sets in an order.                                                          *)

\* What R orders has no circles in S, and any two of S are ordered.
Orders(R, S) ==
    /\ R \subseteq S \X S
    /\ \A x \in S : <<x, x>> \notin R
    /\ \A x, y, z \in S : <<x, y>> \in R /\ <<y, z>> \in R => <<x, z>> \in R
    /\ \A x, y \in S : x = y \/ <<x, y>> \in R \/ <<y, x>> \in R

\* A part of an ordered set is ordered.
LEMMA PartIsOrdered ==
    ASSUME NEW R, NEW S, NEW T \in SUBSET S, Orders(R, S)
    PROVE  Orders(R \cap (T \X T), T)
BY DEF Orders

\* An element at the end, whether it was there or not.
LEMMA MovedToEnd ==
    ASSUME NEW R, NEW S, NEW x, Orders(R, S)
    PROVE  Orders({p \in R : p[1] # x /\ p[2] # x} \cup ((S \ {x}) \X {x}), S \cup {x})
<1> DEFINE Q == {p \in R : p[1] # x /\ p[2] # x} \cup ((S \ {x}) \X {x})
           T == S \cup {x}
<1>1. \A a, b \in T : <<a, b>> \in Q <=> a # x /\ (b = x \/ <<a, b>> \in R)
  BY DEF Orders
<1>2. Q \subseteq T \X T
  BY DEF Orders
<1> HIDE DEF Q
<1>3. \A a \in T : <<a, a>> \notin Q
  BY <1>1 DEF Orders
<1>4. \A a, b, c \in T : <<a, b>> \in Q /\ <<b, c>> \in Q => <<a, c>> \in Q
  BY <1>1 DEF Orders
<1>5. \A a, b \in T : a = b \/ <<a, b>> \in Q \/ <<b, a>> \in Q
  BY <1>1 DEF Orders
<1>6. QED BY <1>2, <1>3, <1>4, <1>5 DEF Orders, Q

\* A finite ordered set that has an element has a first one.
LEMMA SomeFirst ==
    ASSUME NEW R, NEW S, IsFiniteSet(S), S # {}, Orders(R, S)
    PROVE  \E x \in S : \A y \in S : y = x \/ <<x, y>> \in R
<1> DEFINE Before(x) == {y \in S : <<y, x>> \in R}
           T == {Before(x) : x \in S}
<1>1. T \subseteq FiniteSubsetsOf(S) /\ T # {}
  <2>1. \A x \in S : IsFiniteSet(Before(x))
    BY FS_Subset
  <2>2. QED BY <2>1 DEF FiniteSubsetsOf
<1>2. PICK t \in T : \A u \in T : ~ <<u, t>> \in StrictSubsetOrdering(S)
  BY <1>1, FS_StrictSubsetOrderingWellFounded, WFMin
<1>3. PICK x \in S : t = Before(x)
  OBVIOUS
<1>4. ASSUME NEW y \in S, <<y, x>> \in R
      PROVE  FALSE
  <2>1. Before(y) \subseteq Before(x) /\ y \in Before(x) /\ y \notin Before(y)
    BY <1>4 DEF Orders
  <2>2. <<Before(y), Before(x)>> \in StrictSubsetOrdering(S)
    BY <2>1 DEF StrictSubsetOrdering
  <2>3. QED BY <1>2, <1>3, <2>2
<1>5. QED BY <1>4 DEF Orders

\* Every place in a finite ordered set is somebody's.
LEMMA SomeoneAt ==
    ASSUME NEW R, NEW S, IsFiniteSet(S), Orders(R, S), NEW n \in 1..Cardinality(S)
    PROVE  \E p \in S : Cardinality({q \in S : <<q, p>> \in R}) = n - 1
<1> DEFINE Before(p) == {q \in S : <<q, p>> \in R}
           places == [p \in S |-> Cardinality(Before(p))]
<1>1. Cardinality(S) \in Nat
  BY FS_CardinalityType
<1>2. ASSUME NEW p \in S
      PROVE  IsFiniteSet(Before(p)) /\ Cardinality(Before(p)) \in 0..(Cardinality(S) - 1)
  <2>1. Before(p) \in SUBSET (S \ {p})
    BY DEF Orders
  <2>2. IsFiniteSet(S \ {p}) /\ Cardinality(S \ {p}) = Cardinality(S) - 1
    BY <1>1, FS_RemoveElement
  <2> HIDE DEF Before
  <2>3. IsFiniteSet(Before(p)) /\ Cardinality(Before(p)) <= Cardinality(S \ {p}) /\ Cardinality(Before(p)) \in Nat
    BY <2>1, <2>2, FS_Subset, FS_CardinalityType
  <2>4. QED BY <1>1, <2>2, <2>3
<1>3. ASSUME NEW p \in S, NEW q \in S, <<p, q>> \in R
      PROVE  Cardinality(Before(p)) < Cardinality(Before(q))
  <2>1. Before(p) \in SUBSET (Before(q) \ {p}) /\ p \in Before(q)
    BY <1>3 DEF Orders
  <2> HIDE DEF Before
  <2>2. IsFiniteSet(Before(q) \ {p}) /\ Cardinality(Before(q) \ {p}) = Cardinality(Before(q)) - 1
    BY <1>2, <2>1, FS_RemoveElement
  <2>3. Cardinality(Before(p)) <= Cardinality(Before(q) \ {p})
    BY <2>1, <2>2, FS_Subset
  <2>4. QED BY <1>1, <1>2, <2>2, <2>3
<1> DEFINE N == 0..(Cardinality(S) - 1)
<1>4. places \in Injection(S, N)
  <2>1. places \in [S -> N]
    BY <1>2
  <2>2. ASSUME NEW p \in S, NEW q \in S, places[p] = places[q]
        PROVE  p = q
    <3>1. Cardinality(Before(p)) = Cardinality(Before(q)) /\ Cardinality(Before(p)) \in Nat
      BY <1>2, <2>2
    <3>2. p = q \/ <<p, q>> \in R \/ <<q, p>> \in R
      BY DEF Orders
    <3> HIDE DEF Before, places
    <3>3. QED BY <1>3, <3>1, <3>2
  <2>3. QED BY <2>1, <2>2 DEF Injection, IsInjective
<1>5. IsFiniteSet(N) /\ Cardinality(N) = Cardinality(S)
  <2>1. 0 \in Int /\ Cardinality(S) - 1 \in Int /\ Cardinality(S) >= 1
    BY <1>1
  <2>2. QED BY <1>1, <2>1, FS_Interval
<1>6. places \in Surjection(S, N)
  <2> HIDE DEF places, N
  <2>1. QED BY <1>4, <1>5, FS_Injection
<1>7. n - 1 \in N
  BY <1>1
<1>8. QED BY <1>6, <1>7 DEF Surjection

\* So as many are among the first n as n, or all.
LEMMA FirstOnes ==
    ASSUME NEW R, NEW S, IsFiniteSet(S), Orders(R, S), NEW n \in 0..Cardinality(S),
           NEW T, T = {p \in S : Cardinality({q \in S : <<q, p>> \in R}) < n}
    PROVE  Cardinality(T) >= n
<1> DEFINE turn == [p \in T |-> Cardinality({q \in S : <<q, p>> \in R})]
           N == 0..(n - 1)
<1>1. Cardinality(S) \in Nat /\ IsFiniteSet(T) /\ Cardinality(T) \in Nat
  BY FS_CardinalityType, FS_Subset
<1>2. \A p \in T : turn[p] \in N
  <2>1. ASSUME NEW p \in T
        PROVE  turn[p] \in N
    <3>1. {q \in S : <<q, p>> \in R} \in SUBSET S
      OBVIOUS
    <3>2. Cardinality({q \in S : <<q, p>> \in R}) \in Nat
      BY <3>1, FS_Subset, FS_CardinalityType
    <3>3. QED BY <1>1, <3>2
  <2>2. QED BY <2>1
<1>3. \A k \in N : \E p \in T : turn[p] = k
  <2>1. ASSUME NEW k \in N
        PROVE  \E p \in T : turn[p] = k
    <3>1. k + 1 \in 1..Cardinality(S) /\ k = (k + 1) - 1 /\ k < n
      BY <1>1
    <3>2. PICK p \in S : Cardinality({q \in S : <<q, p>> \in R}) = k
      BY <3>1, SomeoneAt
    <3>3. QED BY <3>1, <3>2
  <2>2. QED BY <2>1
<1>4. turn \in Surjection(T, N)
  <2> HIDE DEF N
  <2>1. turn \in [T -> N]
    BY <1>2
  <2>2. QED BY <1>3, <2>1 DEF Surjection
<1>5. Cardinality(N) <= Cardinality(T)
  BY <1>1, <1>4, FS_Surjection
<1>6. Cardinality(N) = n
  <2>1. 0 \in Int /\ n - 1 \in Int /\ n \in Nat
    BY <1>1
  <2>2. QED BY <2>1, FS_Interval
<1>7. QED BY <1>1, <1>5, <1>6

\* The n-th of a finite set of numbers has n - 1 below it.
LEMMA SomeNth ==
    ASSUME NEW b \in Nat, NEW S \in SUBSET (1..b), NEW n \in 1..Cardinality(S)
    PROVE  \E p \in S : Cardinality({q \in S : q < p}) = n - 1
<1>1. PICK R : R = {pair \in S \X S : pair[1] < pair[2]}
  OBVIOUS
<1>2. IsFiniteSet(S)
  <2>1. 1 \in Int /\ b \in Int
    OBVIOUS
  <2>2. QED BY <2>1, FS_Interval, FS_Subset
<1>3. Orders(R, S)
  <2>1. \A p \in S : p \in Nat
    OBVIOUS
  <2>2. QED BY <1>1, <2>1 DEF Orders
<1>4. \A p \in S : {q \in S : <<q, p>> \in R} = {q \in S : q < p}
  BY <1>1
<1>5. \A m \in 1..Cardinality(S) : \E p \in S : Cardinality({q \in S : <<q, p>> \in R}) = m - 1
  BY <1>2, <1>3, SomeoneAt, ZenonT(30)
<1>6. QED BY <1>4, <1>5

-----------------------------------------------------------------------------
(* Carts: a cart and the orders made from it.                                 *)

\* The visitor's tabs in Club do what Carts allows.
THEOREM CartsAlone == ClubSpec => Cr!CartsSpec
<1>1. InitClub => Cr!InitCarts BY DEF InitClub
<1>2. [NextClub]_clubVars => [Cr!NextCarts]_(Cr!cartVars)
  <2>1. CartsMoves => Cr!NextCarts
    BY DEF CartsMoves, Cr!NextCarts
  <2>2. UNCHANGED cartVars => UNCHANGED Cr!cartVars
    BY DEF cartVars, Cr!cartVars
  <2>3. QED BY <2>1, <2>2, ClubsOthersMove DEF NextClub, clubVars
<1>3. QED BY <1>1, <1>2, PTL DEF ClubSpec, Cr!CartsSpec

\* A line of a cart, whatever its price is.
CartEntry(l, entry) ==
    /\ entry \in [qty : Nat, price : {entry.price}]
    /\ entry.qty \in 1..(IF l \in Dpo THEN 1 ELSE MaxQty)

Cart(cart) ==
    /\ cart = [l \in DOMAIN cart |-> cart[l]]
    /\ DOMAIN cart \subseteq Cr!Line /\ IsFiniteSet(DOMAIN cart) /\ Cardinality(DOMAIN cart) <= MaxLines
    /\ \A l \in DOMAIN cart : CartEntry(l, cart[l])

CartsInv ==
    /\ Cart(lines)
    /\ tab = [t \in Tab |-> tab[t]]
    /\ \A t \in Tab : tab[t].step = "add" => tab[t].line \in Cr!Line /\ tab[t].qty \in 1..MaxQty
    /\ added \in [Cr!Line -> Int] /\ ordered \in [Cr!Line -> Int]
    /\ \A l \in Cr!Line : added[l] = ordered[l] + Cr!Qty(lines, l)

\* Carts counts as its instance here does.
LEMMA CartsCount == \A S : Cr!Cardinality(S) = Cardinality(S)
BY DEF Cr!Cardinality, Cardinality

\* The less of two numbers.
LEMMA LessOfTwo ==
    ASSUME NEW a \in Nat, NEW b \in Nat
    PROVE  Cr!Min({a, b}) \in {a, b} /\ Cr!Min({a, b}) <= a /\ Cr!Min({a, b}) <= b
<1>1. \E x \in {a, b} : \A y \in {a, b} : x <= y
  <2>1. CASE a <= b
    BY <2>1
  <2>2. CASE b <= a
    BY <2>2
  <2>3. QED BY <2>1, <2>2
<1>2. QED BY <1>1 DEF Cr!Min

\* There are no units in a cart without lines.
LEMMA EmptyCart == Cart(<<>>) /\ \A l : Cr!Qty(<<>>, l) = 0
BY LinesApart, FS_EmptySet DEF Cart, Cr!Qty

\* Units are numbers.
LEMMA UnitsCount == \A cart, l : Cart(cart) => Cr!Qty(cart, l) \in Nat
BY DEF Cart, CartEntry, Cr!Qty

\* At first the cart is empty and nothing is ordered.
LEMMA CartsInitially == Cr!InitCarts => CartsInv
BY EmptyCart DEF Cr!InitCarts, CartsInv, Cr!Waiting

\* A cart that is saved is what the visitor is shown.
LEMMA CartSaved ==
    ASSUME CartsInv, NEW cart, Cart(cart), Cr!SaveCart(cart)
    PROVE  /\ Cart(lines')
           /\ added' \in [Cr!Line -> Int] /\ ordered' \in [Cr!Line -> Int]
           /\ \A l \in Cr!Line : added'[l] = ordered'[l] + Cr!Qty(lines', l)
BY UnitsCount DEF CartsInv, Cr!SaveCart

\* A line that is put into a cart, or out of it, leaves it a cart.
LEMMA LineChanges ==
    ASSUME CartsInv, NEW l \in Cr!Line
    PROVE  /\ Cart(Cr!Without(l))
           /\ \A entry : CartEntry(l, entry) /\ (l \in DOMAIN lines \/ Cardinality(DOMAIN lines) < MaxLines)
                            => Cart(Cr!With(l, entry))
<1>1. Cart(lines)
  BY DEF CartsInv
<1>2. Cart(Cr!Without(l))
  <2> DEFINE S == DOMAIN lines \ {l}
  <2>1. Cr!Without(l) = [k \in S |-> lines[k]]
    BY DEF Cr!Without, Cr!Restrict
  <2>2. IsFiniteSet(DOMAIN lines) /\ S \subseteq DOMAIN lines
    BY <1>1 DEF Cart
  <2> HIDE DEF S
  <2>3. IsFiniteSet(S) /\ Cardinality(S) <= Cardinality(DOMAIN lines)
        /\ Cardinality(S) \in Nat /\ Cardinality(DOMAIN lines) \in Nat
    BY <2>2, FS_Subset, FS_CardinalityType
  <2>4. QED BY <1>1, <2>1, <2>2, <2>3, LinesApart DEF Cart
<1>3. ASSUME NEW entry, CartEntry(l, entry), l \in DOMAIN lines \/ Cardinality(DOMAIN lines) < MaxLines
      PROVE  Cart(Cr!With(l, entry))
  <2> DEFINE S == DOMAIN lines \cup {l}
  <2>1. Cr!With(l, entry) = [k \in S |-> IF k = l THEN entry ELSE lines[k]]
    BY DEF Cr!With
  <2>2. IsFiniteSet(DOMAIN lines) /\ Cardinality(DOMAIN lines) \in Nat /\ MaxLines \in Nat
    BY <1>1, FS_CardinalityType, LinesApart DEF Cart
  <2>3. IsFiniteSet(S) /\ Cardinality(S) <= MaxLines
    <3>1. CASE l \in DOMAIN lines
      <4>1. S = DOMAIN lines
        BY <3>1
      <4>2. QED BY <1>1, <4>1 DEF Cart
    <3>2. CASE l \notin DOMAIN lines
      <4>1. IsFiniteSet(S) /\ Cardinality(S) = Cardinality(DOMAIN lines) + 1
        BY <2>2, <3>2, FS_AddElement
      <4>2. Cardinality(DOMAIN lines) < MaxLines
        BY <1>3, <3>2
      <4> HIDE DEF S
      <4>3. QED BY <2>2, <4>1, <4>2
    <3>3. QED BY <3>1, <3>2
  <2> HIDE DEF S
  <2>4. S \subseteq Cr!Line /\ \A k \in S : k = l \/ k \in DOMAIN lines
    BY <1>1 DEF Cart, S
  <2>5. QED BY <1>1, <1>3, <2>1, <2>3, <2>4 DEF Cart
<1>4. QED BY <1>2, <1>3

\* A request adds its position under the lock: once, or with the units before.
LEMMA PositionAdded ==
    ASSUME CartsInv, NEW t \in Tab, Cr!AddCart(t)
    PROVE  CartsInv'
<1> DEFINE l == tab[t].line
           entry == Cr!Entry(l, tab[t].qty, tab[t].info)
<1>1. /\ tab' = [tab EXCEPT ![t] = Cr!Waiting]
      /\ \/ /\ l \in DOMAIN lines \/ Cardinality(DOMAIN lines) < MaxLines
            /\ Cr!SaveCart(Cr!With(l, entry))
         \/ UNCHANGED <<lines, added, ordered>>
  BY CartsCount DEF Cr!AddCart
<1>2. l \in Cr!Line /\ tab[t].qty \in 1..MaxQty
  BY DEF CartsInv, Cr!AddCart
<1>3. CartEntry(l, entry)
  <2>1. CASE l \in DOMAIN lines /\ l \in Merch
    <3>1. CartEntry(l, lines[l]) /\ l \notin Dpo
      BY <2>1, LinesApart DEF CartsInv, Cart
    <3>2. entry = [qty |-> Cr!Min({MaxQty, lines[l].qty + tab[t].qty}), price |-> lines[l].price]
      BY <2>1, <3>1 DEF Cr!Entry, CartEntry
    <3>3. lines[l].qty \in Nat /\ lines[l].qty >= 1 /\ lines[l].qty + tab[t].qty \in Nat /\ lines[l].qty + tab[t].qty >= 1
          /\ MaxQty \in Nat /\ MaxQty >= 1
      BY <1>2, <3>1, LinesApart DEF CartEntry
    <3>4. Cr!Min({MaxQty, lines[l].qty + tab[t].qty}) \in 1..MaxQty
      BY <3>3, LessOfTwo
    <3>5. QED BY <3>1, <3>2, <3>4, LinesApart DEF CartEntry
  <2>2. CASE l \in DOMAIN lines /\ l \notin Merch
    BY <2>2 DEF Cr!Entry, CartsInv, Cart
  <2>3. CASE l \notin DOMAIN lines
    <3>1. entry = [qty |-> IF l \in Dpo THEN 1 ELSE tab[t].qty, price |-> tab[t].info.price]
      BY <2>3 DEF Cr!Entry
    <3>2. QED BY <1>2, <3>1, LinesApart DEF CartEntry
  <2>4. QED BY <2>1, <2>2, <2>3
<1> HIDE DEF entry
<1>4. /\ Cart(lines')
      /\ added' \in [Cr!Line -> Int] /\ ordered' \in [Cr!Line -> Int]
      /\ \A k \in Cr!Line : added'[k] = ordered'[k] + Cr!Qty(lines', k)
  BY <1>1, <1>2, <1>3, LineChanges, CartSaved DEF CartsInv
<1>5. tab' = [u \in Tab |-> tab'[u]]
      /\ \A u \in Tab : tab'[u].step = "add" => tab'[u].line \in Cr!Line /\ tab'[u].qty \in 1..MaxQty
  BY <1>1 DEF CartsInv, Cr!Waiting
<1>6. QED BY <1>4, <1>5 DEF CartsInv

\* A line that is changed keeps its limits, and goes with its last unit.
LEMMA QuantityChanged ==
    ASSUME CartsInv, NEW l \in Cr!Line, NEW qty \in 0..MaxQty, Cr!ChangeQty(l, qty)
    PROVE  CartsInv'
<1> DEFINE entry == [qty |-> IF l \in Dpo THEN 1 ELSE qty, price |-> lines[l].price]
<1>1. l \in DOMAIN lines /\ tab' = tab
  BY DEF Cr!ChangeQty
<1>2. lines = [k \in DOMAIN lines |-> lines[k]] /\ CartEntry(l, lines[l])
  BY <1>1 DEF CartsInv, Cart
<1>3. [lines EXCEPT ![l].qty = IF l \in Dpo THEN 1 ELSE qty] = Cr!With(l, entry)
  <2>1. [lines[l] EXCEPT !.qty = IF l \in Dpo THEN 1 ELSE qty] = entry
    BY <1>2 DEF CartEntry
  <2>2. DOMAIN lines \cup {l} = DOMAIN lines
    BY <1>1
  <2> HIDE DEF entry
  <2>3. [lines EXCEPT ![l].qty = IF l \in Dpo THEN 1 ELSE qty] = [k \in DOMAIN lines |-> IF k = l THEN entry ELSE lines[k]]
    BY <1>1, <1>2, <2>1
  <2>4. QED BY <2>2, <2>3 DEF Cr!With
<1>4. qty # 0 => CartEntry(l, entry)
  BY LinesApart DEF CartEntry
<1>5. Cr!SaveCart(IF qty = 0 THEN Cr!Without(l) ELSE Cr!With(l, entry))
  BY <1>3 DEF Cr!ChangeQty
<1> HIDE DEF entry
<1>6. Cart(IF qty = 0 THEN Cr!Without(l) ELSE Cr!With(l, entry))
  BY <1>1, <1>4, LineChanges
<1>7. /\ Cart(lines')
      /\ added' \in [Cr!Line -> Int] /\ ordered' \in [Cr!Line -> Int]
      /\ \A k \in Cr!Line : added'[k] = ordered'[k] + Cr!Qty(lines', k)
  BY <1>5, <1>6, CartSaved
<1>8. QED BY <1>1, <1>7 DEF CartsInv

\* An order takes the cart it was made from, whole, or leaves it.
LEMMA CartOrdered ==
    ASSUME CartsInv, NEW t \in Tab, Cr!Commit(t)
    PROVE  CartsInv'
<1>1. tab' = [u \in Tab |-> tab'[u]]
      /\ \A u \in Tab : tab'[u].step = "add" => tab'[u].line \in Cr!Line /\ tab'[u].qty \in 1..MaxQty
  BY DEF Cr!Commit, CartsInv, Cr!Waiting
<1>2. \/ UNCHANGED <<lines, added, ordered>>
      \/ /\ lines' = <<>> /\ added' = added
         /\ ordered' = [l \in Cr!Line |-> ordered[l] + Cr!Qty(lines, l)]
  BY DEF Cr!Commit, Cr!Orderable, Cr!SameCart
<1>3. CASE UNCHANGED <<lines, added, ordered>>
  BY <1>1, <1>3 DEF CartsInv
<1>4. CASE /\ lines' = <<>> /\ added' = added
           /\ ordered' = [l \in Cr!Line |-> ordered[l] + Cr!Qty(lines, l)]
  BY <1>1, <1>4, EmptyCart, UnitsCount DEF CartsInv
<1>5. QED BY <1>2, <1>3, <1>4

\* Every step of tabs and office keeps cart, answers and orders in agreement.
LEMMA CartsStep ==
    ASSUME CartsInv, [Cr!NextCarts]_(Cr!cartVars)
    PROVE  CartsInv'
<1>1. CASE UNCHANGED Cr!cartVars
  BY <1>1 DEF Cr!cartVars, CartsInv
<1>2. ASSUME NEW t \in Tab, NEW l \in Cr!Line, NEW qty \in 1..MaxQty, Cr!LookUp(t, l, qty)
      PROVE  CartsInv'
  BY <1>2 DEF Cr!LookUp, CartsInv
<1>3. ASSUME NEW t \in Tab, Cr!ReadCart(t) \/ Cr!PriceItems(t)
      PROVE  CartsInv'
  <2>1. tab' = [u \in Tab |-> tab'[u]] /\ UNCHANGED <<lines, added, ordered>>
        /\ \A u \in Tab : tab'[u].step = "add" => tab'[u] = tab[u]
    BY <1>3 DEF Cr!ReadCart, Cr!PriceItems, CartsInv, Cr!Waiting
  <2>2. QED BY <2>1 DEF CartsInv
<1>4. ASSUME Cr!ClearCart
      PROVE  CartsInv'
  BY <1>4, EmptyCart, CartSaved DEF Cr!ClearCart, CartsInv
<1>5. ASSUME NEW l \in Cr!Line, NEW price \in Price, NEW stock \in Stock, NEW published \in BOOLEAN,
             Cr!Edit(l, price, stock, published)
      PROVE  CartsInv'
  BY <1>5 DEF Cr!Edit, CartsInv
<1>6. QED BY <1>1, <1>2, <1>3, <1>4, <1>5, PositionAdded, QuantityChanged, CartOrdered DEF Cr!NextCarts

\* Every unit the visitor was shown to be in the cart is there or was ordered, once,
\* and lines and quantities keep their limits, for any tabs, positions and limits
\* (cart.py, store.py). Of the price of a line it says nothing.
THEOREM CartsKept == ClubSpec => []OrdersTakeTheCart
<1>1. CartsInv => OrdersTakeTheCart
  <2>1. \A l \in DOMAIN lines : CartsInv => lines[l].qty \in 1..(IF l \in Dpo THEN 1 ELSE MaxQty)
    BY DEF CartsInv, Cart, CartEntry
  <2>2. CartsInv => Cardinality(DOMAIN lines) <= MaxLines
    BY DEF CartsInv, Cart
  <2>3. QED BY <2>1, <2>2, CartsCount DEF CartsInv, OrdersTakeTheCart, Cr!OrdersTakeTheCart
<1>2. QED BY <1>1, CartsAlone, CartsInitially, CartsStep, PTL DEF Cr!CartsSpec

-----------------------------------------------------------------------------
(* Locks: the order in which transactions take rows.                          *)

\* The transactions in Club take and give back locks as Locks allows.
THEOREM LocksAlone == ClubSpec => Lk!LocksSpec
<1>1. InitClub => Lk!InitLocks BY DEF InitClub
<1>2. [NextClub]_clubVars => [Lk!NextLocks]_(Lk!lockVars)
  <2>1. LocksMoves => Lk!NextLocks
    BY DEF LocksMoves, Lk!NextLocks
  <2>2. UNCHANGED lockVars => UNCHANGED Lk!lockVars
    BY DEF lockVars, Lk!lockVars
  <2>3. QED BY <2>1, <2>2, ClubsOthersMove DEF NextClub, clubVars
<1>3. QED BY <1>1, <1>2, PTL DEF ClubSpec, Lk!LocksSpec

\* What a transaction may lock.
Lock == [kind : {"cart", "podcast", "order", "commit", "member", "product", "sequence", "media.references", "dpo-sync"},
         name : Session \cup Member \cup Order \cup {0} \cup 1..MaxProduct,
         mode : {"X", "S"}]
DpoSync == Lk!Exclusive("dpo-sync", 0)

\* The references to files lie before the rows of products, these before the number of
\* an order; only for the rows of members there is no order.
Rank(l) ==
    IF l.kind \in {"cart", "podcast"} THEN 0
    ELSE IF l.kind = "order" THEN 1
    ELSE IF l.kind = "commit" THEN 2
    ELSE IF l.kind = "media.references" THEN 3
    ELSE IF l.kind = "product" /\ l.name \in 1..MaxProduct THEN 3 + l.name
    ELSE 4 + MaxProduct
Below(l, k) == l.kind = "member" \/ k.kind = "member" \/ Rank(l) < Rank(k)
Ascending(locks) == \A i, j \in 1..Len(locks) : i < j => Below(locks[i], locks[j])

LocksType ==
    /\ plan \in [Task -> Seq(Lock)] /\ held \in [Task -> SUBSET Lock]
    /\ \A t \in Task \ using : plan[t] = <<>> /\ held[t] = {}

\* A synchronisation of the catalogue has its named lock before any row; an edit of
\* stock and pictures has nothing or its product's row; any other transaction has
\* nothing that it would have to take after what it wants.
Synchronises(t) == DpoSync \in held[t] \/ (held[t] = {} /\ plan[t] # <<>> /\ plan[t][1] = DpoSync)
Climbs(t) ==
    /\ Ascending(plan[t])
    /\ \A l \in held[t], i \in 1..Len(plan[t]) : Below(l, plan[t][i])

EditsStock(t) ==
    \E p \in 1..MaxProduct :
        LET row == Lk!Exclusive("product", p) IN
        \/ held[t] = {} /\ plan[t] = <<row, Lk!References>>
        \/ held[t] = {row} /\ plan[t] = <<Lk!References>>
InOrder(t) == Synchronises(t) \/ EditsStock(t) \/ Climbs(t)

LocksInv == LocksType /\ \A t \in Task : InOrder(t)

\* A bounded set of numbers that has a member has a highest.
LEMMA SomeHighest ==
    ASSUME NEW b \in Nat, NEW S \in SUBSET (0..b), S # {}
    PROVE  \E x \in S : \A y \in S : y <= x
<1> DEFINE Higher(x) == (x + 1)..b
           T == {Higher(x) : x \in S}
<1>1. \A x \in S : Higher(x) \subseteq 0..b /\ IsFiniteSet(Higher(x))
  <2>1. ASSUME NEW x \in S
        PROVE  x + 1 \in Int /\ b \in Int /\ Higher(x) \subseteq 0..b
    OBVIOUS
  <2>2. QED BY <2>1, FS_Interval
<1>2. T \subseteq FiniteSubsetsOf(0..b) /\ T # {}
  BY <1>1 DEF FiniteSubsetsOf
<1>3. PICK t \in T : \A u \in T : ~ <<u, t>> \in StrictSubsetOrdering(0..b)
  BY <1>2, FS_StrictSubsetOrderingWellFounded, WFMin
<1>4. PICK x \in S : t = Higher(x)
  OBVIOUS
<1>5. ASSUME NEW y \in S, y > x
      PROVE  FALSE
  <2>1. Higher(y) \subseteq Higher(x) /\ y \in Higher(x) /\ y \notin Higher(y)
    BY <1>5
  <2>2. <<Higher(y), Higher(x)>> \in StrictSubsetOrdering(0..b)
    BY <1>1, <2>1 DEF StrictSubsetOrdering
  <2>3. QED BY <1>3, <1>4, <2>2
<1>6. QED BY <1>5

\* Members of a concatenation are those of its parts.
LEMMA AscendingConcatenation ==
    ASSUME NEW s \in Seq(Lock), NEW t \in Seq(Lock), Ascending(s), Ascending(t),
           \A i \in 1..Len(s), j \in 1..Len(t) : Below(s[i], t[j])
    PROVE  s \o t \in Seq(Lock) /\ Ascending(s \o t)
<1>1. /\ s \o t \in Seq(Lock) /\ Len(s \o t) = Len(s) + Len(t)
      /\ \A i \in 1 .. Len(s) + Len(t) : (s \o t)[i] = IF i <= Len(s) THEN s[i] ELSE t[i - Len(s)]
  BY ConcatProperties
<1>2. Len(s) \in Nat /\ Len(t) \in Nat
  OBVIOUS
<1>3. ASSUME NEW i \in 1..Len(s \o t), NEW j \in 1..Len(s \o t), i < j
      PROVE  Below((s \o t)[i], (s \o t)[j])
  <2>1. CASE j <= Len(s)
    BY <1>1, <1>2, <1>3, <2>1 DEF Ascending
  <2>2. CASE i <= Len(s) /\ j > Len(s)
    <3>1. j - Len(s) \in 1..Len(t) /\ i \in 1..Len(s)
      BY <1>1, <1>2, <2>2
    <3>2. QED BY <1>1, <1>2, <2>2, <3>1
  <2>3. CASE i > Len(s)
    <3>1. i - Len(s) \in 1..Len(t) /\ j - Len(s) \in 1..Len(t) /\ i - Len(s) < j - Len(s)
      BY <1>1, <1>2, <1>3, <2>3
    <3>2. QED BY <1>1, <1>2, <1>3, <2>3, <3>1 DEF Ascending
  <2>4. QED BY <1>2, <1>3, <2>1, <2>2, <2>3
<1>4. QED BY <1>1, <1>3 DEF Ascending

\* Locks counts as its instance here does.
LEMMA LocksCount == \A S : Lk!Cardinality(S) = Cardinality(S)
BY DEF Lk!Cardinality, Cardinality

\* The products of a cart in their order, each once.
LEMMA SortedAscends ==
    ASSUME NEW items \in Lk!Carts
    PROVE  /\ Lk!Sorted(items) \in Seq(Lock) /\ Ascending(Lk!Sorted(items))
           /\ \A i \in 1..Len(Lk!Sorted(items)) : Lk!Sorted(items)[i].kind = "product"
                                                  /\ Lk!Sorted(items)[i].name \in 1..MaxProduct
<1>1. PICK m \in 1..MaxProduct : items \in [1..m -> 1..MaxProduct]
  BY DEF Lk!Carts, Lk!Product
<1>2. \A i, j \in 1..m : items[i] = items[j] => i = j
  BY <1>1 DEF Lk!Carts, Lk!IsInjective
<1> DEFINE S == Lk!Range(items)
           Lower(p) == {q \in S : q < p}
           nth(n) == Lk!Nth(items, n)
<1>3. S \in SUBSET (1..MaxProduct) /\ MaxProduct \in Nat /\ m \in Nat
  BY <1>1, ProductsNumbered DEF Lk!Range
<1>4. IsFiniteSet(S) /\ Cardinality(S) = m
  <2>1. items \in Bijection(1..m, S)
    BY <1>1, <1>2 DEF Lk!Range, Bijection, Injection, Surjection, IsInjective
  <2>2. ExistsBijection(1..m, S)
    BY <2>1 DEF ExistsBijection
  <2>3. 1 \in Int /\ m \in Int
    BY <1>3
  <2>4. IsFiniteSet(1..m) /\ Cardinality(1..m) = m
    BY <1>3, <2>3, FS_Interval
  <2> HIDE DEF S
  <2>5. QED BY <2>2, <2>4, FS_Bijection
<1>5. ASSUME NEW n \in 1..m
      PROVE  nth(n) \in S /\ Cardinality(Lower(nth(n))) = n - 1
  <2>1. \E p \in S : Cardinality({q \in S : q < p}) = n - 1
    <3> HIDE DEF S
    <3>1. n \in 1..Cardinality(S)
      BY <1>4
    <3>2. QED BY <1>3, <3>1, SomeNth
  <2>2. nth(n) = CHOOSE p \in S : Cardinality({q \in S : q < p}) = n - 1
    BY LocksCount DEF Lk!Nth
  <2> HIDE DEF S, nth
  <2>3. QED BY <2>1, <2>2
<1> HIDE DEF S, nth
<1>6. ASSUME NEW i \in 1..m, NEW j \in 1..m, i < j
      PROVE  nth(i) < nth(j)
  <2>1. nth(i) \in Nat /\ nth(j) \in Nat /\ i \in Nat /\ j \in Nat
    <3>1. nth(i) \in S /\ nth(j) \in S
      BY <1>5
    <3>2. \A r \in S : r \in Nat
      BY <1>3
    <3>3. i \in Nat /\ j \in Nat
      OBVIOUS
    <3>4. QED BY <3>1, <3>2, <3>3
  <2>2. ASSUME nth(j) <= nth(i)
        PROVE  FALSE
    <3>1. \A r \in S : r \in Nat
      BY <1>3
    <3>2. Lower(nth(j)) \in SUBSET Lower(nth(i)) /\ Lower(nth(i)) \in SUBSET S
      BY <2>1, <2>2, <3>1
    <3> HIDE DEF Lower
    <3>3. IsFiniteSet(Lower(nth(i)))
      BY <1>4, <3>2, FS_Subset
    <3>4. Cardinality(Lower(nth(j))) <= Cardinality(Lower(nth(i)))
      BY <3>2, <3>3, FS_Subset
    <3>5. QED BY <1>5, <1>6, <2>1, <3>4
  <2>3. QED BY <2>1, <2>2
<1>7. DOMAIN items = 1..m
  BY <1>1
<1>8. Lk!Sorted(items) = [n \in 1..m |-> [kind |-> "product", name |-> nth(n), mode |-> "X"]]
  BY <1>7 DEF Lk!Sorted, Lk!Exclusive, nth
<1>9. /\ Lk!Sorted(items) \in Seq(Lock) /\ Len(Lk!Sorted(items)) = m
      /\ \A n \in 1..m : /\ Lk!Sorted(items)[n].kind = "product"
                         /\ Lk!Sorted(items)[n].name = nth(n) /\ nth(n) \in 1..MaxProduct
  <2>1. \A n \in 1..m : nth(n) \in 1..MaxProduct
    BY <1>3, <1>5
  <2>2. \A n \in 1..m : [kind |-> "product", name |-> nth(n), mode |-> "X"] \in Lock
    BY <2>1 DEF Lock
  <2>3. Lk!Sorted(items) \in [1..m -> Lock]
    BY <1>8, <2>2
  <2>4. QED BY <1>3, <1>8, <2>1, <2>3
<1>10. Ascending(Lk!Sorted(items))
  <2>1. ASSUME NEW i \in 1..m, NEW j \in 1..m, i < j
        PROVE  Below(Lk!Sorted(items)[i], Lk!Sorted(items)[j])
    BY <1>3, <1>6, <1>9, <2>1 DEF Below, Rank
  <2>2. QED BY <1>9, <2>1 DEF Ascending
<1>11. QED BY <1>9, <1>10

\* What a transaction plans is in ascending order, begins with the lock of the
\* synchronisation, or is what an edit of stock and pictures takes.
LEMMA Planned ==
    ASSUME NEW t \in Task, NEW locks \in Seq(Lock), LocksInv, Lk!Begin(t, locks),
           \/ Ascending(locks)
           \/ locks # <<>> /\ locks[1] = DpoSync
           \/ \E p \in 1..MaxProduct : locks = <<Lk!Exclusive("product", p), Lk!References>>
    PROVE  LocksInv'
<1>1. /\ plan' = [plan EXCEPT ![t] = locks] /\ held' = held /\ using' = using \cup {t}
      /\ held[t] = {}
  BY DEF Lk!Begin, LocksInv, LocksType
<1>2. LocksType'
  BY <1>1 DEF LocksInv, LocksType
<1>3. ASSUME NEW u \in Task
      PROVE  InOrder(u)'
  <2>1. CASE u = t
    <3>1. plan'[u] = locks /\ held'[u] = {}
      BY <1>1, <2>1 DEF LocksInv, LocksType
    <3>2. QED BY <3>1 DEF InOrder, Synchronises, EditsStock, Climbs
  <2>2. CASE u # t
    <3>1. plan'[u] = plan[u] /\ held'[u] = held[u]
      BY <1>1, <2>2 DEF LocksInv, LocksType
    <3>2. QED BY <3>1 DEF LocksInv, InOrder, Synchronises, EditsStock, Climbs
  <2>3. QED BY <2>1, <2>2
<1>4. QED BY <1>2, <1>3 DEF LocksInv

\* Two sequences of one element each, or of one and of none, joined.
LEMMA OnesJoined ==
  ASSUME NEW L, NEW a \in L, NEW b \in L
  PROVE  <<a>> \o <<b>> = <<a, b>> /\ <<a>> \o <<>> = <<a>> /\ <<>> \o <<a>> = <<a>>
<1>1. <<a>> \in Seq(L) /\ <<b>> \in Seq(L) /\ <<a, b>> \in Seq(L)
  OBVIOUS
<1>2. Len(<<a>>) = 1 /\ Len(<<b>>) = 1 /\ Len(<<a, b>>) = 2
  OBVIOUS
<1>3. <<a>>[1] = a /\ <<b>>[1] = b /\ <<a, b>>[1] = a /\ <<a, b>>[2] = b
  OBVIOUS
<1> DEFINE s == <<a>> \o <<b>>
<1>4. s \in Seq(L) /\ Len(s) = 2 /\ s[1] = a /\ s[2] = b
  <2> DEFINE u == <<a>>
             v == <<b>>
  <2>1. /\ u \in Seq(L) /\ v \in Seq(L) /\ Len(u) = 1 /\ Len(v) = 1
        /\ u[1] = a /\ v[1] = b
    BY <1>1, <1>2, <1>3
  <2> HIDE DEF u, v
  <2>2. /\ u \o v \in Seq(L) /\ Len(u \o v) = Len(u) + Len(v)
        /\ \A i \in 1..(Len(u) + Len(v)) :
             (u \o v)[i] = IF i <= Len(u) THEN u[i] ELSE v[i - Len(u)]
    BY <2>1, ConcatProperties
  <2>3. (u \o v)[1] = u[1] /\ (u \o v)[2] = v[1]
    BY <2>1, <2>2
  <2>4. QED BY <2>1, <2>2, <2>3 DEF u, v
<1>5. s = <<a, b>>
  <2> DEFINE w == <<a, b>>
  <2>1. w \in Seq(L) /\ Len(w) = 2 /\ w[1] = a /\ w[2] = b
    BY <1>1, <1>2, <1>3
  <2> HIDE DEF s, w
  <2>2. \A i \in 1..Len(s) : s[i] = w[i]
    BY <1>4, <2>1
  <2>3. s = w
    BY <1>4, <2>1, <2>2, SeqEqual
  <2>4. QED BY <2>3 DEF w
<1>6. QED BY <1>1, <1>5, ConcatEmptySeq

\* Orders, subscriptions, the office and erasure lock in ascending order.
LEMMA TransactionsBegin ==
    ASSUME LocksInv, NEW t \in Task
    PROVE  /\ \A items \in Lk!Carts :
                 /\ \A s \in Session, m \in Member : Lk!Commit(t, s, m, items) => LocksInv'
                 /\ \A o \in Order : Lk!Close(t, o, items) => LocksInv'
                 /\ Lk!Synchronise(t, items) => LocksInv'
           /\ \A m \in Member :
                 /\ Lk!Subscribe(t, m) => LocksInv'
                 /\ \A o \in Order : /\ Lk!Extend(t, o, m) => LocksInv'
                                     /\ Lk!EraseMember(t, m, o) => LocksInv'
           /\ \A p \in Lk!Product, pictures \in BOOLEAN :
                 /\ Lk!EditStock(t, p, pictures) => LocksInv'
                 /\ Lk!EditOther(t, p, pictures) => LocksInv'
<1> USE DEF Lk!Exclusive, Lk!Shared
<1>1. ASSUME NEW items \in Lk!Carts, NEW s \in Session, NEW m \in Member, Lk!Commit(t, s, m, items)
      PROVE  LocksInv'
  <2> DEFINE first == <<Lk!Exclusive("cart", s), Lk!Shared("member", m)>>
             middle == Lk!Sorted(items)
             end == <<Lk!Exclusive("sequence", 0)>>
  <2>1. /\ first \in Seq(Lock) /\ end \in Seq(Lock) /\ Len(first) = 2 /\ Len(end) = 1
        /\ first[1].kind = "cart" /\ first[2].kind = "member" /\ end[1].kind = "sequence"
    <3>1. Lk!Exclusive("cart", s) \in Lock /\ Lk!Shared("member", m) \in Lock /\ Lk!Exclusive("sequence", 0) \in Lock
      BY DEF Lock
    <3>2. QED BY <3>1
  <2>2. /\ middle \in Seq(Lock) /\ Ascending(middle)
        /\ \A i \in 1..Len(middle) : middle[i].kind = "product" /\ middle[i].name \in 1..MaxProduct
    BY SortedAscends
  <2> HIDE DEF first, middle, end
  <2>3. Ascending(first) /\ Ascending(end)
    BY <2>1 DEF Ascending, Below
  <2>4. \A i \in 1..Len(first), j \in 1..Len(middle) : Below(first[i], middle[j])
    BY <2>1, <2>2, ProductsNumbered DEF Below, Rank
  <2>5. first \o middle \in Seq(Lock) /\ Ascending(first \o middle)
    BY <2>1, <2>2, <2>3, <2>4, AscendingConcatenation
  <2>6. \A i \in 1..Len(first \o middle), j \in 1..Len(end) : Below((first \o middle)[i], end[j])
    <3>1. ASSUME NEW i \in 1..Len(first \o middle)
          PROVE  \/ (first \o middle)[i].kind \in {"cart", "member"}
                 \/ (first \o middle)[i].kind = "product" /\ (first \o middle)[i].name \in 1..MaxProduct
      <4>1. /\ Len(first \o middle) = Len(first) + Len(middle)
            /\ \A k \in 1..Len(first) + Len(middle) :
                  (first \o middle)[k] = IF k <= Len(first) THEN first[k] ELSE middle[k - Len(first)]
        BY <2>1, <2>2, ConcatProperties
      <4>2. Len(middle) \in Nat
        BY <2>2
      <4>3. CASE i <= 2
        BY <2>1, <4>1, <4>2, <4>3
      <4>4. CASE i > 2
        <5>1. i - 2 \in 1..Len(middle)
          BY <2>1, <4>1, <4>2, <4>4
        <5>2. QED BY <2>1, <2>2, <4>1, <4>2, <4>4, <5>1
      <4>5. QED BY <2>1, <4>1, <4>2, <4>3, <4>4
    <3>2. QED BY <2>1, <3>1, ProductsNumbered, SMTT(30) DEF Below, Rank
  <2>7. (first \o middle) \o end \in Seq(Lock) /\ Ascending((first \o middle) \o end)
    BY <2>1, <2>3, <2>5, <2>6, AscendingConcatenation
  <2>8. Lk!Begin(t, (first \o middle) \o end)
    BY <1>1 DEF Lk!Commit, first, middle, end
  <2>9. QED BY <2>7, <2>8, Planned
<1>2. ASSUME NEW items \in Lk!Carts, NEW o \in Order, Lk!Close(t, o, items)
      PROVE  LocksInv'
  <2> DEFINE first == <<Lk!Exclusive("order", o), Lk!Exclusive("commit", o)>>
             middle == Lk!Sorted(items)
  <2>1. first \in Seq(Lock) /\ Len(first) = 2 /\ first[1].kind = "order" /\ first[2].kind = "commit"
    <3>1. Lk!Exclusive("order", o) \in Lock /\ Lk!Exclusive("commit", o) \in Lock
      BY DEF Lock
    <3>2. QED BY <3>1
  <2>2. /\ middle \in Seq(Lock) /\ Ascending(middle)
        /\ \A i \in 1..Len(middle) : middle[i].kind = "product" /\ middle[i].name \in 1..MaxProduct
    BY SortedAscends
  <2> HIDE DEF first, middle
  <2>3. Ascending(first)
    BY <2>1 DEF Ascending, Below, Rank
  <2>4. \A i \in 1..Len(first), j \in 1..Len(middle) : Below(first[i], middle[j])
    BY <2>1, <2>2, ProductsNumbered DEF Below, Rank
  <2>5. first \o middle \in Seq(Lock) /\ Ascending(first \o middle)
    BY <2>1, <2>2, <2>3, <2>4, AscendingConcatenation
  <2>6. Lk!Begin(t, first \o middle)
    BY <1>2 DEF Lk!Close, first, middle
  <2>7. QED BY <2>5, <2>6, Planned
<1>3. ASSUME NEW items \in Lk!Carts, Lk!Synchronise(t, items)
      PROVE  LocksInv'
  <2> DEFINE first == <<DpoSync>>
             rest == Lk!InOrderOfSource(items)
  <2>1. first \in Seq(Lock) /\ Len(first) = 1 /\ first[1] = DpoSync
    <3>1. DpoSync \in Lock
      BY DEF Lock, DpoSync
    <3>2. QED BY <3>1
  <2>2. rest \in Seq(Lock)
    <3>1. PICK m \in 1..MaxProduct : items \in [1..m -> 1..MaxProduct]
      BY DEF Lk!Carts, Lk!Product
    <3>2. \A n \in 1..m : Lk!Exclusive("product", items[n]) \in Lock
      BY <3>1 DEF Lock
    <3>3. rest \in [1..m -> Lock]
      BY <3>1, <3>2 DEF Lk!InOrderOfSource
    <3>4. QED BY <3>1, <3>3, ProductsNumbered
  <2>3. Lk!Begin(t, first \o rest)
    BY <1>3 DEF Lk!Synchronise, DpoSync
  <2> HIDE DEF first, rest
  <2>4. first \o rest \in Seq(Lock) /\ first \o rest # <<>> /\ (first \o rest)[1] = DpoSync
    <3>1. /\ first \o rest \in Seq(Lock) /\ Len(first \o rest) = Len(first) + Len(rest)
          /\ \A k \in 1..Len(first) + Len(rest) :
                (first \o rest)[k] = IF k <= Len(first) THEN first[k] ELSE rest[k - Len(first)]
      BY <2>1, <2>2, ConcatProperties
    <3>2. Len(rest) \in Nat
      BY <2>2
    <3>3. QED BY <2>1, <3>1, <3>2
  <2>5. QED BY <2>3, <2>4, Planned
<1>4. ASSUME NEW m \in Member, Lk!Subscribe(t, m)
      PROVE  LocksInv'
  <2> DEFINE locks == <<Lk!Exclusive("podcast", m), Lk!Exclusive("sequence", 0), Lk!Shared("member", m)>>
  <2>1. Lk!Exclusive("podcast", m) \in Lock /\ Lk!Exclusive("sequence", 0) \in Lock /\ Lk!Shared("member", m) \in Lock
    BY DEF Lock
  <2>2. locks \in Seq(Lock)
    BY <2>1
  <2>3. Ascending(locks)
    BY ProductsNumbered DEF Ascending, Below, Rank
  <2>4. Lk!Begin(t, locks)
    BY <1>4 DEF Lk!Subscribe
  <2> HIDE DEF locks
  <2>5. QED BY <2>2, <2>3, <2>4, Planned
<1>5. ASSUME NEW o \in Order, NEW m \in Member, Lk!Extend(t, o, m) \/ Lk!EraseMember(t, m, o)
      PROVE  LocksInv'
  <2> DEFINE row == Lk!Exclusive("order", o)
             mine == Lk!Exclusive("member", m)
  <2>1. row \in Lock /\ mine \in Lock /\ mine.kind = "member"
    BY DEF Lock
  <2>2. Lk!Begin(t, <<row, mine>>) \/ Lk!Begin(t, <<mine, row>>)
    BY <1>5 DEF Lk!Extend, Lk!EraseMember
  <2> HIDE DEF row, mine
  <2>3. PICK k, l \in Lock : Lk!Begin(t, <<k, l>>) /\ (k.kind = "member" \/ l.kind = "member")
    BY <2>1, <2>2
  <2>4. <<k, l>> \in Seq(Lock) /\ Ascending(<<k, l>>)
    BY <2>3 DEF Ascending, Below
  <2>5. QED BY <2>3, <2>4, Planned
<1>6. ASSUME NEW p \in Lk!Product, NEW pictures \in BOOLEAN,
             Lk!EditStock(t, p, pictures) \/ Lk!EditOther(t, p, pictures)
      PROVE  LocksInv'
  <2> DEFINE row == Lk!Exclusive("product", p)
             library == Lk!References
  <2>1. /\ row \in Lock /\ library \in Lock /\ p \in 1..MaxProduct
        /\ row.kind = "product" /\ row.name = p /\ library.kind = "media.references"
    BY DEF Lock, Lk!Product, Lk!References
  <2>2. \/ Lk!Begin(t, <<row>> \o <<library>>) \/ Lk!Begin(t, <<row>> \o <<>>)
        \/ Lk!Begin(t, <<library>> \o <<row>>) \/ Lk!Begin(t, <<>> \o <<row>>)
    BY <1>6 DEF Lk!EditStock, Lk!EditOther
  <2> HIDE DEF row, library
  <2>3. /\ <<row>> \o <<library>> = <<row, library>> /\ <<row>> \o <<>> = <<row>>
        /\ <<library>> \o <<row>> = <<library, row>> /\ <<>> \o <<row>> = <<row>>
    BY <2>1, OnesJoined
  <2>4. CASE Lk!Begin(t, <<row, library>>)
    <3>1. <<row, library>> \in Seq(Lock)
      BY <2>1
    <3>2. <<row, library>> = <<Lk!Exclusive("product", p), Lk!References>>
      BY DEF row, library
    <3>3. QED BY <2>1, <2>4, <3>1, <3>2, Planned
  <2>5. CASE Lk!Begin(t, <<library, row>>)
    <3>1. <<library, row>> \in Seq(Lock)
      BY <2>1
    <3>2. Below(library, row)
      BY <2>1, ProductsNumbered DEF Below, Rank
    <3>3. Ascending(<<library, row>>)
      BY <3>2 DEF Ascending
    <3>4. QED BY <2>5, <3>1, <3>3, Planned
  <2>6. CASE Lk!Begin(t, <<row>>)
    <3>1. <<row>> \in Seq(Lock) /\ Ascending(<<row>>)
      BY <2>1 DEF Ascending
    <3>2. QED BY <2>6, <3>1, Planned
  <2>7. QED BY <2>2, <2>3, <2>4, <2>5, <2>6
<1>7. QED BY <1>1, <1>2, <1>3, <1>4, <1>5, <1>6

\* A lock that is taken lies below those that are still to be taken.
LEMMA LockTaken ==
    ASSUME LocksInv, NEW t \in Task, Lk!Take(t)
    PROVE  LocksInv'
<1> DEFINE want == plan[t][1]
<1>1. /\ plan[t] \in Seq(Lock) /\ plan[t] # <<>> /\ held[t] \subseteq Lock
      /\ plan' = [plan EXCEPT ![t] = Tail(plan[t])] /\ held' = [held EXCEPT ![t] = held[t] \cup {want}]
      /\ using' = using
  BY DEF Lk!Take, LocksInv, LocksType
<1>2. /\ Len(plan[t]) \in Nat /\ Len(plan[t]) >= 1 /\ want \in Lock
      /\ Tail(plan[t]) \in Seq(Lock) /\ Len(Tail(plan[t])) = Len(plan[t]) - 1
      /\ \A i \in 1..Len(Tail(plan[t])) : Tail(plan[t])[i] = plan[t][i + 1]
  BY <1>1, HeadTailProperties
<1> HIDE DEF want
<1>3. LocksType'
  BY <1>1, <1>2 DEF LocksInv, LocksType
<1>4. plan'[t] = Tail(plan[t]) /\ held'[t] = held[t] \cup {want}
  BY <1>1 DEF LocksInv, LocksType
<1>5. CASE Synchronises(t)
  <2>1. DpoSync \in held'[t]
    BY <1>4, <1>5 DEF Synchronises, want
  <2>2. ASSUME NEW u \in Task \ {t}
        PROVE  InOrder(u)'
    <3>1. plan'[u] = plan[u] /\ held'[u] = held[u]
      BY <1>1 DEF LocksInv, LocksType
    <3>2. QED BY <3>1 DEF LocksInv, InOrder, Synchronises, EditsStock, Climbs
  <2>3. QED BY <1>3, <2>1, <2>2 DEF LocksInv, InOrder, Synchronises
<1>6. CASE EditsStock(t)
  <2>1. PICK p \in 1..MaxProduct :
           \/ held[t] = {} /\ plan[t] = <<Lk!Exclusive("product", p), Lk!References>>
           \/ held[t] = {Lk!Exclusive("product", p)} /\ plan[t] = <<Lk!References>>
    BY <1>6 DEF EditsStock
  <2>2. InOrder(t)'
    <3>1. CASE held[t] = {} /\ plan[t] = <<Lk!Exclusive("product", p), Lk!References>>
      <4>1. want = Lk!Exclusive("product", p) /\ Tail(plan[t]) = <<Lk!References>>
        BY <3>1 DEF want
      <4>2. held'[t] = {Lk!Exclusive("product", p)} /\ plan'[t] = <<Lk!References>>
        BY <1>4, <3>1, <4>1
      <4>3. QED BY <4>2 DEF InOrder, EditsStock
    <3>2. CASE held[t] = {Lk!Exclusive("product", p)} /\ plan[t] = <<Lk!References>>
      <4>1. plan'[t] = <<>>
        BY <1>4, <3>2
      <4>2. QED BY <4>1 DEF InOrder, Climbs, Ascending
    <3>3. QED BY <2>1, <3>1, <3>2
  <2>3. ASSUME NEW u \in Task \ {t}
        PROVE  InOrder(u)'
    <3>1. plan'[u] = plan[u] /\ held'[u] = held[u]
      BY <1>1 DEF LocksInv, LocksType
    <3>2. QED BY <3>1 DEF LocksInv, InOrder, Synchronises, EditsStock, Climbs
  <2>4. QED BY <1>3, <2>2, <2>3 DEF LocksInv
<1>7. CASE Climbs(t)
  <2>1. ASSUME NEW i \in 1..Len(plan'[t]), NEW j \in 1..Len(plan'[t]), i < j
        PROVE  Below(plan'[t][i], plan'[t][j])
    <3>1. i + 1 \in 1..Len(plan[t]) /\ j + 1 \in 1..Len(plan[t]) /\ i + 1 < j + 1
      BY <1>2, <1>4, <2>1
    <3>2. QED BY <1>2, <1>4, <1>7, <3>1 DEF Climbs, Ascending
  <2>2. ASSUME NEW l \in held'[t], NEW i \in 1..Len(plan'[t])
        PROVE  Below(l, plan'[t][i])
    <3>1. i + 1 \in 1..Len(plan[t]) /\ 1 \in 1..Len(plan[t]) /\ 1 < i + 1
      BY <1>2, <1>4
    <3>2. CASE l \in held[t]
      BY <1>2, <1>4, <1>7, <3>1, <3>2 DEF Climbs
    <3>3. CASE l = want
      BY <1>2, <1>4, <1>7, <3>1, <3>3 DEF Climbs, Ascending, want
    <3>4. QED BY <1>4, <3>2, <3>3
  <2>3. Climbs(t)'
    BY <2>1, <2>2 DEF Climbs, Ascending
  <2>4. ASSUME NEW u \in Task \ {t}
        PROVE  InOrder(u)'
    <3>1. plan'[u] = plan[u] /\ held'[u] = held[u]
      BY <1>1 DEF LocksInv, LocksType
    <3>2. QED BY <3>1 DEF LocksInv, InOrder, Synchronises, EditsStock, Climbs
  <2>5. QED BY <1>3, <2>3, <2>4 DEF LocksInv, InOrder
<1>8. QED BY <1>5, <1>6, <1>7 DEF LocksInv, InOrder

\* A transaction that ends has no lock and wants none.
LEMMA LocksGivenBack ==
    ASSUME LocksInv, NEW t \in Task, Lk!Leave(t)
    PROVE  LocksInv'
<1>1. plan' = [plan EXCEPT ![t] = <<>>] /\ held' = [held EXCEPT ![t] = {}] /\ using' = using \ {t}
  BY DEF Lk!Leave
<1>2. LocksType'
  BY <1>1 DEF LocksInv, LocksType
<1>3. ASSUME NEW u \in Task
      PROVE  InOrder(u)'
  <2>1. CASE u = t
    <3>1. plan'[u] = <<>> /\ held'[u] = {}
      BY <1>1, <2>1 DEF LocksInv, LocksType
    <3>2. QED BY <3>1 DEF InOrder, Climbs, Ascending
  <2>2. CASE u # t
    <3>1. plan'[u] = plan[u] /\ held'[u] = held[u]
      BY <1>1, <2>2 DEF LocksInv, LocksType
    <3>2. QED BY <3>1 DEF LocksInv, InOrder, Synchronises, EditsStock, Climbs
  <2>3. QED BY <2>1, <2>2
<1>4. QED BY <1>2, <1>3 DEF LocksInv

\* At first nobody has a lock or wants one.
LEMMA LocksInitially == Lk!InitLocks => LocksInv
BY DEF Lk!InitLocks, LocksInv, LocksType, InOrder, Climbs, Ascending

\* Every step of the transactions keeps them climbing.
LEMMA LocksStep ==
    ASSUME LocksInv, [Lk!NextLocks]_(Lk!lockVars)
    PROVE  LocksInv'
<1>1. CASE UNCHANGED Lk!lockVars
  BY <1>1 DEF Lk!lockVars, LocksInv, LocksType, InOrder, Synchronises, EditsStock, Climbs
<1>2. ASSUME NEW t \in Task, Lk!Finish(t) \/ Lk!TimeOut(t)
      PROVE  LocksInv'
  BY <1>2, LocksGivenBack DEF Lk!Finish, Lk!TimeOut
<1>3. QED BY <1>1, <1>2, LockTaken, TransactionsBegin DEF Lk!NextLocks

\* Of transactions that wait for one another, the one that wants the highest lock
\* waits for one that wants a higher.
LEMMA HighestWaits ==
    ASSUME LocksInv, NEW S \in (SUBSET Task) \ {{}}
    PROVE  \E t \in S : \/ \A u \in S \ {t} : ~Lk!WaitsFor(t, u)
                        \/ plan[t][1].kind = "member"
                        \/ DpoSync \in held[t]
                        \/ Lk!TurnsBack(t)
<1> SUFFICES ASSUME \A t \in S : /\ \E u \in S \ {t} : Lk!WaitsFor(t, u)
                                 /\ plan[t][1].kind # "member"
                                 /\ DpoSync \notin held[t]
                                 /\ ~Lk!TurnsBack(t)
             PROVE  FALSE
  OBVIOUS
<1>1. \A t \in S : t \in Task /\ plan[t] \in Seq(Lock) /\ plan[t] # <<>>
  BY DEF LocksInv, LocksType, Lk!WaitsFor
<1>2. \A t \in S : 1 \in 1..Len(plan[t]) /\ plan[t][1] \in Lock
  BY <1>1
<1>3. \A l \in Lock : Rank(l) \in 0..(4 + MaxProduct)
  BY ProductsNumbered DEF Lock, Rank
<1> DEFINE W == {Rank(plan[t][1]) : t \in S}
<1>4. PICK t \in S : \A u \in S : Rank(plan[u][1]) <= Rank(plan[t][1])
  <2>1. W \in SUBSET (0..(4 + MaxProduct)) /\ W # {}
    <3>1. \A u \in S : Rank(plan[u][1]) \in 0..(4 + MaxProduct)
      BY <1>2, <1>3
    <3> DEFINE B == 0..(4 + MaxProduct)
               rank(u) == Rank(plan[u][1])
    <3>2. S # {} /\ \A u \in S : rank(u) \in B
      BY <3>1
    <3> HIDE DEF B, rank
    <3>3. {rank(u) : u \in S} \in SUBSET B /\ {rank(u) : u \in S} # {}
      BY <3>2
    <3>4. QED BY <3>3 DEF B, rank
  <2>2. 4 + MaxProduct \in Nat
    BY ProductsNumbered
  <2> HIDE DEF W
  <2>3. PICK x \in W : \A y \in W : y <= x
    BY <2>1, <2>2, SomeHighest
  <2>4. QED BY <2>3 DEF W
<1>5. PICK u \in S \ {t} : Lk!WaitsFor(t, u)
  OBVIOUS
<1>6. PICK l \in held[u] : Lk!Conflict(plan[t][1], l)
  BY <1>5 DEF Lk!WaitsFor
<1>7. l.kind = plan[t][1].kind /\ Rank(l) = Rank(plan[t][1])
  BY <1>6 DEF Lk!Conflict, Rank
<1>8. Climbs(u)
  <2>1. held[u] # {} /\ DpoSync \notin held[u] /\ ~Lk!TurnsBack(u)
    BY <1>6
  <2>2. ~Synchronises(u)
    BY <2>1 DEF Synchronises
  <2>3. ~EditsStock(u)
    <3>1. ASSUME NEW p \in 1..MaxProduct, held[u] = {Lk!Exclusive("product", p)},
                 plan[u] = <<Lk!References>>
          PROVE  FALSE
      BY <2>1, <3>1 DEF Lk!TurnsBack, Lk!Exclusive
    <3>2. QED BY <2>1, <3>1 DEF EditsStock
  <2>4. QED BY <1>1, <2>2, <2>3 DEF LocksInv, InOrder
<1>9. Below(l, plan[u][1])
  BY <1>2, <1>6, <1>8 DEF Climbs
<1>10. Rank(l) < Rank(plan[u][1])
  BY <1>7, <1>9 DEF Below
<1>11. Rank(plan[u][1]) <= Rank(plan[t][1]) /\ Rank(plan[u][1]) \in Nat /\ Rank(plan[t][1]) \in Nat
  BY <1>2, <1>3, <1>4
<1>12. QED BY <1>7, <1>10, <1>11

\* Orders, cancellations, subscriptions and edits never wait in a circle for the rows
\* of products or the references to files, unless an edit of stock and pictures at once
\* is in it, for any number of transactions, products and connections (store.py).
THEOREM NoCircleKept == ClubSpec => []NoCircleOfProducts
<1>1. LocksInv => NoCircleOfProducts
  BY HighestWaits DEF NoCircleOfProducts, Lk!NoCircleOfProducts, DpoSync
<1>2. QED BY <1>1, LocksAlone, LocksInitially, LocksStep, PTL DEF Lk!LocksSpec

---------------------------------------------------------------------------------------
(* Previews: descriptors, slots and renders.                                  *)

\* Requests and renders in Club do what Previews allows.
THEOREM PreviewsAlone == ClubSpec => Pv!PreviewsSpec
<1>1. InitClub => Pv!InitPreviews BY DEF InitClub
<1>2. [NextClub]_clubVars => [Pv!NextPreviews]_(Pv!previewVars)
  <2>1. PreviewsMoves => Pv!NextPreviews
    BY DEF PreviewsMoves, Pv!NextPreviews
  <2>2. UNCHANGED previewVars => UNCHANGED Pv!previewVars
    BY DEF previewVars, Pv!previewVars
  <2>3. QED BY <2>1, <2>2, ClubsOthersMove DEF NextClub, clubVars
<1>3. QED BY <1>1, <1>2, PTL DEF ClubSpec, Pv!PreviewsSpec

Request == [step : {"thumbnail", "stream", "waiting", "closing", "response"}, image : Image]
Asking == {r \in Reader : reader[r] # Pv!Absent}
Loading == {i \in DOMAIN pending : pending[i] = "loading"}

\* Only as many readers and renders are ever under way as have begun.
PreviewType ==
    /\ reader \in [Reader -> {Pv!Absent} \cup Request] /\ IsFiniteSet(Asking)
    /\ pending = [i \in DOMAIN pending |-> pending[i]] /\ IsFiniteSet(DOMAIN pending)
    /\ slots \in Int /\ open \in Int /\ lost \in Int

PreviewsInv ==
    /\ PreviewType
    /\ open = Cardinality(Asking) + Cardinality(DOMAIN pending) + lost
    /\ slots + Cardinality(Loading) = Workers
    /\ Cardinality(DOMAIN pending) <= MaxPending
    /\ \A r \in Reader : reader[r].step = "waiting" => reader[r].image \in DOMAIN pending

\* Previews counts as its instance here does.
LEMMA PreviewsCount == \A S : Pv!Cardinality(S) = Cardinality(S)
BY DEF Pv!Cardinality, Cardinality

\* A request is under way or is none.
LEMMA RequestOrNone ==
    ASSUME PreviewType, NEW r \in Reader
    PROVE  /\ reader[r] = Pv!Absent <=> reader[r].step = "none"
           /\ reader[r] # Pv!Absent => reader[r] \in Request
           /\ reader[r] \in Request <=> r \in Asking
BY DEF PreviewType, Request, Pv!Absent, Asking

\* A request that makes a step keeps its image.
LEMMA StepKeepsImage ==
    ASSUME NEW r \in Reader, reader[r] \in Request, NEW step
    PROVE  Pv!Step(r, step) = [reader EXCEPT ![r] = [step |-> step, image |-> reader[r].image]]
<1>1. [reader[r] EXCEPT !.step = step] = [step |-> step, image |-> reader[r].image]
  BY DEF Request
<1>2. Pv!Step(r, step) = [reader EXCEPT ![r] = [reader[r] EXCEPT !.step = step]]
  BY DEF Pv!Step
<1>3. QED BY <1>1, <1>2

\* Nothing has been asked at first.
LEMMA PreviewsInitially == Pv!InitPreviews => PreviewsInv
<1> SUFFICES ASSUME Pv!InitPreviews
             PROVE  PreviewsInv
  OBVIOUS
<1>1. Asking = {} /\ DOMAIN pending = {} /\ Loading = {}
  BY DEF Pv!InitPreviews, Asking, Loading
<1>2. QED BY <1>1, FS_EmptySet, RendersBounded DEF Pv!InitPreviews, PreviewsInv, PreviewType, Pv!Absent

\* A request that goes on has the descriptor it had, and waits only for a render
\* that is under way.
LEMMA RequestGoesOn ==
    ASSUME PreviewsInv, NEW r \in Reader, reader[r].step # "none",
           NEW step \in {"waiting", "closing", "response"},
           reader' = Pv!Step(r, step), UNCHANGED <<pending, slots, open, lost>>,
           step = "waiting" => reader[r].image \in DOMAIN pending
    PROVE  PreviewsInv'
<1>1. reader[r] \in Request /\ r \in Asking
  BY RequestOrNone DEF PreviewsInv, Pv!Absent
<1>2. reader' = [reader EXCEPT ![r] = [step |-> step, image |-> reader[r].image]]
  BY <1>1, StepKeepsImage
<1>3. /\ reader' \in [Reader -> {Pv!Absent} \cup Request]
      /\ reader'[r].step = step /\ reader'[r].image = reader[r].image
      /\ \A q \in Reader \ {r} : reader'[q] = reader[q]
  BY <1>1, <1>2 DEF PreviewsInv, PreviewType, Request
<1>4. Asking' = Asking
  BY <1>1, <1>3 DEF Asking, Pv!Absent
<1>5. Loading' = Loading
  BY DEF Loading
<1>6. \A q \in Reader : reader'[q].step = "waiting" => reader'[q].image \in DOMAIN pending
  BY <1>3 DEF PreviewsInv
<1>7. QED BY <1>3, <1>4, <1>5, <1>6 DEF PreviewsInv, PreviewType

\* Steps of requests that take nothing and give nothing back.
LEMMA RequestsGoOn ==
    ASSUME PreviewsInv, NEW r \in Reader
    PROVE  Pv!Refuse(r) \/ Pv!Hit(r) \/ Pv!Join(r) \/ Pv!Busy(r) \/ Pv!GiveUp(r) \/ Pv!Respond(r) => PreviewsInv'
<1>1. Pv!Refuse(r) \/ Pv!Hit(r) \/ Pv!Busy(r) \/ Pv!GiveUp(r) => PreviewsInv'
  BY RequestGoesOn DEF Pv!Refuse, Pv!Hit, Pv!Busy, Pv!GiveUp, Pv!Miss
<1>2. Pv!Join(r) => PreviewsInv'
  BY RequestGoesOn DEF Pv!Join, Pv!Miss
<1>3. Pv!Respond(r) => PreviewsInv'
  BY RequestGoesOn DEF Pv!Respond
<1>4. QED BY <1>1, <1>2, <1>3

\* A request takes a descriptor with its first step and gives it back with its last.
LEMMA RequestsComeAndGo ==
    ASSUME PreviewsInv, NEW r \in Reader
    PROVE  /\ \A i \in Image, kind \in {"thumbnail", "stream"} : Pv!Open(r, i, kind) => PreviewsInv'
           /\ Pv!LoseDescriptor(r) => PreviewsInv'
           /\ Pv!Close(r) => PreviewsInv'
<1>1. IsFiniteSet(Asking) /\ Cardinality(Asking) \in Nat /\ Cardinality(DOMAIN pending) \in Nat
  BY FS_CardinalityType DEF PreviewsInv, PreviewType
<1>2. ASSUME NEW i \in Image, NEW kind \in {"thumbnail", "stream"}, Pv!Open(r, i, kind)
      PROVE  PreviewsInv'
  <2>1. /\ r \notin Asking /\ reader' = [reader EXCEPT ![r] = [step |-> kind, image |-> i]]
        /\ open' = open + 1 /\ UNCHANGED <<pending, slots, lost>>
    BY <1>2 DEF Pv!Open, Asking
  <2>2. /\ reader' \in [Reader -> {Pv!Absent} \cup Request]
        /\ reader'[r].step = kind
        /\ \A q \in Reader \ {r} : reader'[q] = reader[q]
    BY <2>1 DEF PreviewsInv, PreviewType, Request
  <2>3. Asking' = Asking \cup {r}
    BY <2>1, <2>2 DEF Asking, Pv!Absent
  <2>4. IsFiniteSet(Asking') /\ Cardinality(Asking') = Cardinality(Asking) + 1
    BY <1>1, <2>1, <2>3, FS_AddElement
  <2>5. Loading' = Loading
    BY <2>1 DEF Loading
  <2>6. \A q \in Reader : reader'[q].step = "waiting" => reader'[q].image \in DOMAIN pending
    BY <2>2 DEF PreviewsInv
  <2>7. QED BY <1>1, <2>1, <2>2, <2>4, <2>5, <2>6 DEF PreviewsInv, PreviewType
<1>3. ASSUME Pv!LoseDescriptor(r)
      PROVE  PreviewsInv'
  BY <1>1, <1>3 DEF Pv!LoseDescriptor, PreviewsInv, PreviewType, Asking, Loading
<1>4. ASSUME Pv!Close(r)
      PROVE  PreviewsInv'
  <2>1. /\ r \in Asking /\ reader' = [reader EXCEPT ![r] = Pv!Absent]
        /\ open' = open - 1 /\ UNCHANGED <<pending, slots, lost>>
    BY <1>4 DEF Pv!Close, Asking, Pv!Absent
  <2>2. /\ reader' \in [Reader -> {Pv!Absent} \cup Request]
        /\ reader'[r] = Pv!Absent
        /\ \A q \in Reader \ {r} : reader'[q] = reader[q]
    BY <2>1 DEF PreviewsInv, PreviewType
  <2>3. Asking' = Asking \ {r}
    BY <2>1, <2>2 DEF Asking
  <2>4. IsFiniteSet(Asking') /\ Cardinality(Asking') = Cardinality(Asking) - 1
    BY <1>1, <2>1, <2>3, FS_RemoveElement
  <2>5. Loading' = Loading
    BY <2>1 DEF Loading
  <2>6. \A q \in Reader : reader'[q].step = "waiting" => reader'[q].image \in DOMAIN pending
    BY <2>2 DEF PreviewsInv, Pv!Absent
  <2>7. QED BY <1>1, <2>1, <2>2, <2>4, <2>5, <2>6 DEF PreviewsInv, PreviewType
<1>5. QED BY <1>2, <1>3, <1>4

\* A render that begins has a descriptor, and not yet a slot.
LEMMA RenderBegins ==
    ASSUME PreviewsInv, NEW r \in Reader, Pv!Begin(r)
    PROVE  PreviewsInv'
<1> DEFINE i == reader[r].image
<1>1. /\ reader[r].step = "thumbnail" /\ i \notin DOMAIN pending /\ Cardinality(DOMAIN pending) < MaxPending
      /\ pending' = [j \in DOMAIN pending \cup {i} |-> IF j = i THEN "queued" ELSE pending[j]]
      /\ open' = open + 1 /\ reader' = Pv!Step(r, "waiting") /\ UNCHANGED <<slots, lost>>
  BY PreviewsCount DEF Pv!Begin, Pv!Miss
<1>2. reader[r] \in Request /\ r \in Asking
  BY <1>1, RequestOrNone DEF PreviewsInv, Pv!Absent
<1>3. reader' = [reader EXCEPT ![r] = [step |-> "waiting", image |-> i]]
  BY <1>1, <1>2, StepKeepsImage
<1> HIDE DEF i
<1>4. /\ reader' \in [Reader -> {Pv!Absent} \cup Request]
      /\ reader'[r].step = "waiting" /\ reader'[r].image = i
      /\ \A q \in Reader \ {r} : reader'[q] = reader[q]
  BY <1>2, <1>3 DEF PreviewsInv, PreviewType, Request, i
<1>5. Asking' = Asking
  BY <1>2, <1>4 DEF Asking, Pv!Absent
<1>6. /\ DOMAIN pending' = DOMAIN pending \cup {i}
      /\ pending' = [j \in DOMAIN pending' |-> pending'[j]]
      /\ Loading' = Loading
  BY <1>1 DEF Loading
<1>7. IsFiniteSet(DOMAIN pending') /\ Cardinality(DOMAIN pending') = Cardinality(DOMAIN pending) + 1
  BY <1>1, <1>6, FS_AddElement DEF PreviewsInv, PreviewType
<1>8. Cardinality(DOMAIN pending) \in Nat /\ Cardinality(Asking) \in Nat
  BY FS_CardinalityType DEF PreviewsInv, PreviewType
<1>9. \A q \in Reader : reader'[q].step = "waiting" => reader'[q].image \in DOMAIN pending'
  BY <1>4, <1>6 DEF PreviewsInv
<1>10. QED BY <1>1, <1>4, <1>5, <1>6, <1>7, <1>8, <1>9, RendersBounded DEF PreviewsInv, PreviewType

\* A render that has a slot and one that has none.
LEMMA RenderTakesSlot ==
    ASSUME PreviewsInv, NEW i \in Image, Pv!TakeSlot(i)
    PROVE  PreviewsInv'
<1>1. /\ i \in DOMAIN pending /\ pending[i] = "queued" /\ slots' = slots - 1
      /\ pending' = [pending EXCEPT ![i] = "loading"] /\ UNCHANGED <<reader, open, lost>>
  BY DEF Pv!TakeSlot
<1>2. DOMAIN pending' = DOMAIN pending /\ pending' = [j \in DOMAIN pending' |-> pending'[j]]
      /\ pending'[i] = "loading" /\ \A j \in DOMAIN pending \ {i} : pending'[j] = pending[j]
  BY <1>1 DEF PreviewsInv, PreviewType
<1>3. Loading' = Loading \cup {i} /\ i \notin Loading
  BY <1>1, <1>2 DEF Loading
<1>4. IsFiniteSet(Loading) /\ Cardinality(Loading') = Cardinality(Loading) + 1
      /\ Cardinality(Loading) \in Nat
  <2>1. Loading \in SUBSET DOMAIN pending /\ IsFiniteSet(DOMAIN pending)
    BY DEF Loading, PreviewsInv, PreviewType
  <2>2. IsFiniteSet(Loading)
    BY <2>1, FS_Subset
  <2>3. QED BY <1>3, <2>2, FS_AddElement, FS_CardinalityType
<1>5. Asking' = Asking
  BY <1>1 DEF Asking
<1>6. QED BY <1>1, <1>2, <1>4, <1>5, RendersBounded DEF PreviewsInv, PreviewType

\* A render that has left waits for nothing, and nobody for it.
LEMMA RenderLeaves ==
    ASSUME PreviewsInv, NEW i \in DOMAIN pending, Pv!Leave(i)
    PROVE  /\ reader' \in [Reader -> {Pv!Absent} \cup Request] /\ Asking' = Asking
           /\ pending' = [j \in DOMAIN pending' |-> pending'[j]] /\ IsFiniteSet(DOMAIN pending')
           /\ Cardinality(DOMAIN pending') = Cardinality(DOMAIN pending) - 1
           /\ Loading' = Loading \ {i}
           /\ Cardinality(Loading') = IF i \in Loading THEN Cardinality(Loading) - 1 ELSE Cardinality(Loading)
           /\ \A r \in Reader : reader'[r].step = "waiting" => reader'[r].image \in DOMAIN pending'
           /\ lost' = lost
<1>1. /\ pending' = [j \in DOMAIN pending \ {i} |-> pending[j]] /\ lost' = lost
      /\ reader' = [r \in Reader |-> IF reader[r].step = "waiting" /\ reader[r].image = i
                                     THEN [reader[r] EXCEPT !.step = "closing"] ELSE reader[r]]
  BY DEF Pv!Leave
<1>2. ASSUME NEW r \in Reader
      PROVE  /\ reader'[r] \in {Pv!Absent} \cup Request
             /\ reader'[r] = Pv!Absent <=> reader[r] = Pv!Absent
             /\ reader'[r].step = "waiting" => reader[r].step = "waiting" /\ reader[r].image # i
                                               /\ reader'[r].image = reader[r].image
  <2>1. CASE reader[r].step = "waiting" /\ reader[r].image = i
    <3>1. reader[r] \in Request
      BY <2>1, RequestOrNone DEF PreviewsInv, Pv!Absent
    <3>2. reader'[r] = [step |-> "closing", image |-> reader[r].image]
      BY <1>1, <2>1, <3>1 DEF Request
    <3>3. QED BY <2>1, <3>1, <3>2 DEF Request, Pv!Absent
  <2>2. CASE ~(reader[r].step = "waiting" /\ reader[r].image = i)
    <3>1. reader'[r] = reader[r]
      BY <1>1, <2>2
    <3>2. QED BY <2>2, <3>1 DEF PreviewsInv, PreviewType
  <2>3. QED BY <2>1, <2>2
<1>3. reader' \in [Reader -> {Pv!Absent} \cup Request] /\ Asking' = Asking
  BY <1>1, <1>2 DEF Asking
<1>4. /\ DOMAIN pending' = DOMAIN pending \ {i} /\ pending' = [j \in DOMAIN pending' |-> pending'[j]]
      /\ Loading' = Loading \ {i}
  BY <1>1 DEF Loading
<1>5. /\ IsFiniteSet(DOMAIN pending') /\ Cardinality(DOMAIN pending') = Cardinality(DOMAIN pending) - 1
      /\ Cardinality(Loading') = IF i \in Loading THEN Cardinality(Loading) - 1 ELSE Cardinality(Loading)
  <2>1. Loading \in SUBSET DOMAIN pending /\ IsFiniteSet(DOMAIN pending)
    BY DEF Loading, PreviewsInv, PreviewType
  <2>2. IsFiniteSet(Loading)
    BY <2>1, FS_Subset
  <2>3. QED BY <1>4, <2>1, <2>2, FS_RemoveElement
<1>6. \A r \in Reader : reader'[r].step = "waiting" => reader'[r].image \in DOMAIN pending'
  BY <1>2, <1>4 DEF PreviewsInv
<1>7. QED BY <1>1, <1>3, <1>4, <1>5, <1>6

\* However a render ends, its descriptor and its slot are given back.
LEMMA RendersEnd ==
    ASSUME PreviewsInv, NEW i \in Image
    PROVE  /\ \A size \in Bytes : Pv!Loaded(i, size) => PreviewsInv'
           /\ Pv!LoadFails(i) => PreviewsInv'
           /\ Pv!CancelQueued(i) => PreviewsInv'
<1>1. Cardinality(Asking) \in Nat /\ Cardinality(DOMAIN pending) \in Nat /\ Cardinality(Loading) \in Nat
  <2>1. Loading \in SUBSET DOMAIN pending /\ IsFiniteSet(DOMAIN pending) /\ IsFiniteSet(Asking)
    BY DEF Loading, PreviewsInv, PreviewType
  <2>2. IsFiniteSet(Loading)
    BY <2>1, FS_Subset
  <2>3. QED BY <2>1, <2>2, FS_CardinalityType
<1>2. ASSUME i \in DOMAIN pending, pending[i] = "loading", slots' = slots + 1, open' = open - 1, Pv!Leave(i)
      PROVE  PreviewsInv'
  <2>1. i \in Loading
    BY <1>2 DEF Loading
  <2>2. QED BY <1>1, <1>2, <2>1, RenderLeaves, RendersBounded DEF PreviewsInv, PreviewType
<1>3. ASSUME i \in DOMAIN pending, pending[i] = "queued", slots' = slots, open' = open - 1, Pv!Leave(i)
      PROVE  PreviewsInv'
  <2>1. i \notin Loading
    BY <1>3 DEF Loading
  <2>2. QED BY <1>1, <1>3, <2>1, RenderLeaves, RendersBounded DEF PreviewsInv, PreviewType
<1>4. \A size \in Bytes : Pv!Loaded(i, size) => PreviewsInv'
  BY <1>2 DEF Pv!Loaded
<1>5. Pv!LoadFails(i) => PreviewsInv'
  BY <1>2 DEF Pv!LoadFails
<1>6. Pv!CancelQueued(i) => PreviewsInv'
  BY <1>3 DEF Pv!CancelQueued
<1>7. QED BY <1>4, <1>5, <1>6

\* Every step of requests and renders keeps the counts.
LEMMA PreviewsStep ==
    ASSUME PreviewsInv, [Pv!NextPreviews]_(Pv!previewVars)
    PROVE  PreviewsInv'
<1>1. CASE UNCHANGED Pv!previewVars
  BY <1>1 DEF Pv!previewVars, PreviewsInv, PreviewType, Asking, Loading
<1>2. QED BY <1>1, RequestsGoOn, RequestsComeAndGo, RenderBegins, RenderTakesSlot, RendersEnd DEF Pv!NextPreviews

-----------------------------------------------------------------------------
(* The size of the cache.                                                     *)

\* The bytes of the thumbnails in c.
Units(c) == UNION {{i} \X (1..c[i]) : i \in DOMAIN c}
Sizes(c) == IsFiniteSet(DOMAIN c) /\ \A i \in DOMAIN c : c[i] \in Nat

\* There are finitely many bytes.
LEMMA UnitsAreFinite ==
    ASSUME NEW c, Sizes(c)
    PROVE  IsFiniteSet(Units(c)) /\ Pv!Total(c) = Cardinality(Units(c)) /\ Pv!Total(c) \in Nat
<1> DEFINE B(i) == {i} \X (1..c[i])
           f == [i \in DOMAIN c |-> B(i)]
           T == {B(i) : i \in DOMAIN c}
<1>1. f \in Surjection(DOMAIN c, T)
  BY DEF Surjection
<1>2. IsFiniteSet(T)
  BY <1>1, FS_Surjection DEF Sizes
<1>3. \A i \in DOMAIN c : IsFiniteSet(B(i))
  <2>1. ASSUME NEW i \in DOMAIN c
        PROVE  IsFiniteSet(B(i))
    <3>1. 1 \in Int /\ c[i] \in Int
      BY DEF Sizes
    <3>2. IsFiniteSet(1..c[i])
      BY <3>1, FS_Interval
    <3>3. IsFiniteSet({i})
      BY FS_Singleton
    <3>4. QED BY <3>2, <3>3, FS_Product
  <2>2. QED BY <2>1
<1>4. IsFiniteSet(UNION T)
  <2>1. \A b \in T : IsFiniteSet(b)
    BY <1>3
  <2> HIDE DEF T
  <2>2. QED BY <1>2, <2>1, FS_UNION
<1>5. Pv!Total(c) = Cardinality(Units(c)) /\ Units(c) = UNION T
  BY PreviewsCount DEF Pv!Total, Units
<1>6. QED BY <1>4, <1>5, FS_CardinalityType

\* A cache without some of its thumbnails is no larger.
LEMMA FewerAreLess ==
    ASSUME NEW c, Sizes(c), NEW S, NEW T \in SUBSET S
    PROVE  /\ Sizes(Pv!Only(c, S)) /\ DOMAIN Pv!Only(c, S) = DOMAIN c \cap S
           /\ Pv!Total(Pv!Only(c, T)) <= Pv!Total(Pv!Only(c, S))
<1>1. /\ DOMAIN Pv!Only(c, S) = DOMAIN c \cap S /\ DOMAIN Pv!Only(c, T) = DOMAIN c \cap T
      /\ \A i \in DOMAIN c \cap S : Pv!Only(c, S)[i] = c[i]
      /\ \A i \in DOMAIN c \cap T : Pv!Only(c, T)[i] = c[i]
  BY DEF Pv!Only
<1>2. Sizes(Pv!Only(c, S)) /\ Sizes(Pv!Only(c, T))
  <2>1. IsFiniteSet(DOMAIN c \cap S) /\ IsFiniteSet(DOMAIN c \cap T)
    BY FS_Intersection DEF Sizes
  <2>2. QED BY <1>1, <2>1 DEF Sizes
<1>3. Units(Pv!Only(c, T)) \subseteq Units(Pv!Only(c, S))
  BY <1>1 DEF Units
<1>4. QED BY <1>1, <1>2, <1>3, UnitsAreFinite, FS_Subset

\* A thumbnail is put into the cache: its bytes are added, those of the one it
\* replaces are not there any more.
LEMMA PutCounts ==
    ASSUME NEW c, Sizes(c), NEW i, NEW size \in Nat,
           NEW d, d = [j \in DOMAIN c \cup {i} |-> IF j = i THEN size ELSE c[j]]
    PROVE  /\ Sizes(d) /\ DOMAIN d = DOMAIN c \cup {i}
           /\ Pv!Total(d) = Pv!Total(c) - (IF i \in DOMAIN c THEN c[i] ELSE 0) + size
<1> DEFINE Rest == Units(Pv!Only(c, DOMAIN c \ {i}))
           B(n) == {i} \X (1..n)
<1>1. Sizes(d) /\ DOMAIN d = DOMAIN c \cup {i}
  <2>1. IsFiniteSet(DOMAIN c \cup {i})
    BY FS_AddElement DEF Sizes
  <2>2. QED BY <2>1 DEF Sizes
<1>2. IsFiniteSet(Rest) /\ Cardinality(Rest) \in Nat
  BY FewerAreLess, UnitsAreFinite
<1>3. \A n \in Nat : IsFiniteSet(B(n)) /\ Cardinality(B(n)) = n
  <2>1. ASSUME NEW n \in Nat
        PROVE  IsFiniteSet(B(n)) /\ Cardinality(B(n)) = n
    <3>1. 1 \in Int /\ n \in Int
      OBVIOUS
    <3>2. IsFiniteSet(1..n) /\ Cardinality(1..n) = n
      BY <3>1, FS_Interval
    <3>3. IsFiniteSet({i}) /\ Cardinality({i}) = 1
      BY FS_Singleton
    <3>4. QED BY <3>2, <3>3, FS_Product
  <2>2. QED BY <2>1
<1>4. /\ Units(d) = Rest \cup B(size)
      /\ Units(c) = IF i \in DOMAIN c THEN Rest \cup B(c[i]) ELSE Rest
      /\ \A n \in Nat : Rest \cap B(n) = {}
  BY DEF Units, Pv!Only
<1>5. ASSUME NEW n \in Nat
      PROVE  Cardinality(Rest \cup B(n)) = Cardinality(Rest) + n
  <2> HIDE DEF Rest, B
  <2>1. Cardinality(Rest \cup B(n)) = Cardinality(Rest) + Cardinality(B(n)) - Cardinality(Rest \cap B(n))
    BY <1>2, <1>3, FS_Union
  <2>2. Rest \cap B(n) = {} /\ Cardinality({}) = 0
    BY <1>4, FS_EmptySet
  <2>3. Cardinality(Rest \cap B(n)) = 0
    BY <2>2
  <2>4. QED BY <1>2, <1>3, <2>1, <2>3
<1>6. Pv!Total(c) = Cardinality(Units(c)) /\ Pv!Total(d) = Cardinality(Units(d))
  BY <1>1, UnitsAreFinite
<1> HIDE DEF Rest, B
<1>7. Pv!Total(d) = Cardinality(Rest) + size
  BY <1>4, <1>5, <1>6
<1>8. Pv!Total(c) = Cardinality(Rest) + (IF i \in DOMAIN c THEN c[i] ELSE 0)
  <2>1. CASE i \in DOMAIN c
    <3>1. c[i] \in Nat
      BY <2>1 DEF Sizes
    <3>2. QED BY <1>4, <1>5, <1>6, <2>1, <3>1
  <2>2. CASE i \notin DOMAIN c
    BY <1>2, <1>4, <1>6, <2>2
  <2>3. QED BY <2>1, <2>2
<1>9. QED BY <1>1, <1>2, <1>7, <1>8 DEF Sizes

\* What is left of an ordered cache is within its limits.
LEMMA KeptIsWithinLimits ==
    ASSUME NEW c, Sizes(c), NEW order, Orders(order, DOMAIN c), NEW stay, stay = Pv!Kept(c, order)
    PROVE  /\ stay \subseteq DOMAIN c
           /\ Cardinality(stay) <= MaxEntries /\ Pv!Total(Pv!Only(c, stay)) <= MaxBytes
<1> DEFINE From(i) == {j \in DOMAIN c : j = i \/ <<i, j>> \in order}
<1>1. stay = {i \in DOMAIN c : Cardinality(From(i)) <= MaxEntries /\ Pv!Total(Pv!Only(c, From(i))) <= MaxBytes}
  BY PreviewsCount DEF Pv!Kept
<1>2. CASE stay = {}
  <2>1. Units(Pv!Only(c, stay)) = {} /\ Sizes(Pv!Only(c, stay))
    BY <1>2, FewerAreLess DEF Units, Pv!Only
  <2>2. QED BY <1>2, <2>1, UnitsAreFinite, FS_EmptySet, RendersBounded
<1>3. CASE stay # {}
  <2>1. IsFiniteSet(stay) /\ Orders(order \cap (stay \X stay), stay)
    BY <1>1, FS_Subset, PartIsOrdered DEF Sizes
  <2>2. PICK m \in stay : \A i \in stay : i = m \/ <<m, i>> \in order
    BY <1>3, <2>1, SomeFirst
  <2>3. stay = From(m)
    <3>1. stay \subseteq From(m)
      BY <1>1, <2>2
    <3>2. ASSUME NEW i \in From(m)
          PROVE  i \in stay
      <4>1. From(i) \in SUBSET From(m)
        BY <1>1 DEF Orders
      <4>2. From(m) \subseteq DOMAIN c /\ IsFiniteSet(DOMAIN c)
        BY DEF Sizes
      <4>3. IsFiniteSet(From(m))
        BY <4>2, FS_Subset
      <4>4. /\ IsFiniteSet(From(i)) /\ Cardinality(From(i)) <= Cardinality(From(m))
            /\ Cardinality(From(i)) \in Nat /\ Cardinality(From(m)) \in Nat
        BY <4>1, <4>3, FS_Subset, FS_CardinalityType
      <4>5. /\ Pv!Total(Pv!Only(c, From(i))) <= Pv!Total(Pv!Only(c, From(m)))
            /\ Pv!Total(Pv!Only(c, From(i))) \in Nat /\ Pv!Total(Pv!Only(c, From(m))) \in Nat
        BY <4>1, FewerAreLess, UnitsAreFinite
      <4>6. i \in DOMAIN c /\ Cardinality(From(m)) <= MaxEntries /\ Pv!Total(Pv!Only(c, From(m))) <= MaxBytes
        BY <1>1
      <4> HIDE DEF From
      <4>7. QED BY <1>1, <4>4, <4>5, <4>6, RendersBounded
    <3>3. QED BY <3>1, <3>2
  <2>4. QED BY <1>1, <2>3
<1>4. QED BY <1>1, <1>2, <1>3

CacheInv ==
    /\ cache = [i \in DOMAIN cache |-> cache[i]] /\ Sizes(cache)
    /\ Orders(older, DOMAIN cache)
    /\ cacheBytes = Pv!Total(cache) /\ cacheBytes <= MaxBytes
    /\ Cardinality(DOMAIN cache) <= MaxEntries

\* The cache is empty at first.
LEMMA CacheInitially == Pv!InitPreviews => CacheInv
<1> SUFFICES ASSUME Pv!InitPreviews
             PROVE  CacheInv
  OBVIOUS
<1>1. DOMAIN cache = {} /\ cache = [i \in DOMAIN cache |-> cache[i]] /\ older = {} /\ cacheBytes = 0
  BY DEF Pv!InitPreviews
<1>2. Sizes(cache) /\ Units(cache) = {}
  BY <1>1, FS_EmptySet DEF Sizes, Units
<1>3. Pv!Total(cache) = 0
  BY <1>2, UnitsAreFinite, FS_EmptySet
<1>4. QED BY <1>1, <1>2, <1>3, FS_EmptySet, RendersBounded DEF CacheInv, Orders

\* A thumbnail that is asked for becomes the youngest.
LEMMA HitReorders ==
    ASSUME CacheInv, NEW r \in Reader, Pv!Hit(r)
    PROVE  CacheInv'
<1>1. PICK i : i \in DOMAIN cache /\ older' = Pv!Last(i) /\ UNCHANGED <<cache, cacheBytes>>
  BY DEF Pv!Hit
<1>2. DOMAIN cache \cup {i} = DOMAIN cache
  BY <1>1
<1>3. Orders(Pv!Last(i), DOMAIN cache)
  <2>1. Orders(older, DOMAIN cache)
    BY DEF CacheInv
  <2>2. Orders(Pv!Last(i), DOMAIN cache \cup {i})
    BY <2>1, MovedToEnd DEF Pv!Last
  <2>3. QED BY <1>2, <2>2
<1>4. Orders(older, DOMAIN cache)' <=> Orders(Pv!Last(i), DOMAIN cache)
  BY <1>1 DEF Orders
<1>5. Pv!Total(cache)' = Pv!Total(cache) /\ (Sizes(cache)' <=> Sizes(cache))
  BY <1>1 DEF Pv!Total, Sizes
<1>6. QED BY <1>1, <1>3, <1>4, <1>5 DEF CacheInv

\* A render's result comes to the end, and the oldest are popped.
LEMMA LoadedIsKept ==
    ASSUME CacheInv, NEW i \in Image, NEW size \in Bytes, Pv!Loaded(i, size)
    PROVE  CacheInv'
<1> DEFINE c == [j \in DOMAIN cache \cup {i} |-> IF j = i THEN size ELSE cache[j]]
           stay == Pv!Kept(c, Pv!Last(i))
           left == Pv!Only(c, stay)
<1>1. /\ cache' = left /\ older' = Pv!Last(i) \cap (stay \X stay)
      /\ cacheBytes' = cacheBytes - Pv!Dropped(i) + size - (Pv!Total(c) - Pv!Total(left))
  BY DEF Pv!Loaded
<1>2. /\ Sizes(c) /\ DOMAIN c = DOMAIN cache \cup {i}
      /\ Pv!Total(c) = Pv!Total(cache) - Pv!Dropped(i) + size
  <2>1. size \in Nat /\ Sizes(cache)
    BY RendersBounded DEF CacheInv
  <2>2. QED BY <2>1, PutCounts DEF Pv!Dropped
<1>3. Orders(Pv!Last(i), DOMAIN c)
  <2>1. Orders(older, DOMAIN cache)
    BY DEF CacheInv
  <2>2. Orders(Pv!Last(i), DOMAIN cache \cup {i})
    BY <2>1, MovedToEnd DEF Pv!Last
  <2> HIDE DEF c
  <2>3. QED BY <1>2, <2>2
<1> HIDE DEF c
<1>4. stay \subseteq DOMAIN c /\ Cardinality(stay) <= MaxEntries /\ Pv!Total(left) <= MaxBytes
  BY <1>2, <1>3, KeptIsWithinLimits
<1> HIDE DEF stay
<1>5. Sizes(left) /\ DOMAIN left = stay /\ left = [j \in DOMAIN left |-> left[j]]
  <2>1. Sizes(left) /\ DOMAIN left = stay
    <3>1. stay \in SUBSET stay /\ DOMAIN c \cap stay = stay
      BY <1>4
    <3>2. QED BY <1>2, <3>1, FewerAreLess
  <2>2. left = [j \in DOMAIN left |-> left[j]]
    BY DEF Pv!Only
  <2>3. QED BY <2>1, <2>2
<1>6. Orders(Pv!Last(i) \cap (stay \X stay), stay)
  BY <1>3, <1>4, PartIsOrdered
<1> HIDE DEF left
<1>7. Orders(older, DOMAIN cache)'
  BY <1>1, <1>5, <1>6 DEF Orders
<1>8. Pv!Total(cache)' = Pv!Total(left) /\ Sizes(cache)'
  BY <1>1, <1>5 DEF Pv!Total, Sizes
<1>9. cacheBytes' = Pv!Total(left)
  <2>1. Pv!Total(left) \in Nat /\ Pv!Total(c) \in Nat /\ cacheBytes = Pv!Total(cache)
    BY <1>2, <1>5, UnitsAreFinite DEF CacheInv
  <2>2. Pv!Total(cache) \in Nat /\ size \in Nat
    BY UnitsAreFinite, RendersBounded DEF CacheInv
  <2>3. Pv!Dropped(i) \in Nat
    BY DEF Pv!Dropped, CacheInv, Sizes
  <2>4. QED BY <1>1, <1>2, <2>1, <2>2, <2>3
<1>10. QED BY <1>1, <1>4, <1>5, <1>7, <1>8, <1>9 DEF CacheInv

\* Nothing else touches the cache.
LEMMA CacheStep ==
    ASSUME CacheInv, [Pv!NextPreviews]_(Pv!previewVars)
    PROVE  CacheInv'
<1>1. ASSUME UNCHANGED <<cache, older, cacheBytes>>
      PROVE  CacheInv'
  <2>1. Pv!Total(cache)' = Pv!Total(cache) /\ (Sizes(cache)' <=> Sizes(cache))
        /\ (Orders(older, DOMAIN cache)' <=> Orders(older, DOMAIN cache))
    BY <1>1 DEF Pv!Total, Sizes, Orders
  <2>2. QED BY <1>1, <2>1 DEF CacheInv
<1>2. CASE UNCHANGED Pv!previewVars
  BY <1>1, <1>2 DEF Pv!previewVars
<1>3. ASSUME NEW r \in Reader
      PROVE  /\ \A i \in Image, kind \in {"thumbnail", "stream"} : Pv!Open(r, i, kind) => CacheInv'
             /\ Pv!LoseDescriptor(r) \/ Pv!Refuse(r) \/ Pv!Join(r) \/ Pv!Busy(r) \/ Pv!Begin(r)
                \/ Pv!GiveUp(r) \/ Pv!Respond(r) \/ Pv!Close(r) => CacheInv'
  BY <1>1 DEF Pv!Open, Pv!LoseDescriptor, Pv!Refuse, Pv!Join, Pv!Busy, Pv!Begin, Pv!GiveUp, Pv!Respond, Pv!Close
<1>4. ASSUME NEW i \in Image
      PROVE  Pv!TakeSlot(i) \/ Pv!LoadFails(i) \/ Pv!CancelQueued(i) => CacheInv'
  BY <1>1 DEF Pv!TakeSlot, Pv!LoadFails, Pv!CancelQueued
<1>5. QED BY <1>2, <1>3, <1>4, HitReorders, LoadedIsKept DEF Pv!NextPreviews

-----------------------------------------------------------------------------
\* Descriptors and slots are given back on every path, nobody waits for a render
\* that has gone, and the cache counts its bytes and keeps its limits, for any
\* requests, images, sizes, workers and limits (media/service.py).
THEOREM PreviewsKept == ClubSpec => []PreviewsGiveBack
<1>1. PreviewsInv /\ CacheInv => PreviewsGiveBack
  <2>1. PreviewsInv /\ CacheInv => Pv!PreviewsGiveBack
    BY PreviewsCount DEF PreviewsInv, CacheInv, Asking, Loading, Pv!PreviewsGiveBack
  <2>2. QED BY <2>1 DEF PreviewsGiveBack
<1>2. QED BY <1>1, PreviewsAlone, PreviewsInitially, PreviewsStep, CacheInitially, CacheStep, PTL DEF Pv!PreviewsSpec

-----------------------------------------------------------------------------
(* Offline: the saved pages and their limit.                                  *)

\* The worker in Club does what Offline allows.
THEOREM OfflineAlone == ClubSpec => Of!OfflineSpec
<1>1. InitClub => Of!InitOffline BY DEF InitClub
<1>2. [NextClub]_clubVars => [Of!NextOffline]_(Of!offlineVars)
  <2>1. OfflineMoves => Of!NextOffline
    BY Zenon DEF OfflineMoves, Of!NextOffline
  <2>2. UNCHANGED offlineVars => UNCHANGED Of!offlineVars
    BY DEF offlineVars, Of!offlineVars, Of!copies
  <2>3. QED BY <2>1, <2>2, ClubsOthersMove DEF NextClub, clubVars
<1>3. QED BY <1>1, <1>2, PTL DEF ClubSpec, Of!OfflineSpec

Visit == [step : {"reuse", "fetch"}, page : Of!Page]
             \cup [step : {"body", "deleted", "written"}, page : Public]
Trim == [step : {"trim"}, page : Public, victims : SUBSET (Public \ Pinned)]

Open == {w \in Frame : window[w].step \in {"written", "trim"}}
Trimming == {w \in Frame : window[w].step = "trim"}
\* What the trims in W are going to delete.
Lost(W) == UNION {window[w].victims : w \in W}

OfflineType ==
    /\ window \in [Frame -> {Of!Done} \cup Visit \cup Trim]
    /\ saved \subseteq Public /\ IsFiniteSet(saved) /\ Orders(earlier, saved)
    /\ kept \subseteq Pinned \cap saved
    /\ untrimmed \in Nat

\* The trims that are under way will do their part: without what any of them
\* deletes there are not more copies than the others account for.
TrimsSuffice ==
    \A W \in SUBSET Trimming :
        Cardinality(saved \ Lost(W)) <= MaxPages + untrimmed + Cardinality(Open) - Cardinality(W)

OfflineInv == OfflineType /\ TrimsSuffice

\* Offline counts as its instance here does.
LEMMA OfflineCounts == \A S : Of!Cardinality(S) = Cardinality(S)
BY DEF Of!Cardinality, Cardinality

\* Windows are few, and so are the trims among them.
LEMMA WindowsAreFew ==
    /\ IsFiniteSet(Open) /\ Cardinality(Open) \in Nat
    /\ \A W \in SUBSET Trimming : IsFiniteSet(W) /\ Cardinality(W) \in Nat /\ Cardinality(W) <= Cardinality(Open)
<1>1. Open \in SUBSET Frame /\ IsFiniteSet(Frame)
  BY PinnedAreFew DEF Open
<1>2. \A W \in SUBSET Trimming : W \in SUBSET Open
  BY DEF Open, Trimming
<1>3. QED BY <1>1, <1>2, FS_Subset, FS_CardinalityType

\* Nothing is saved at first.
LEMMA OfflineInitially == Of!InitOffline => OfflineInv
<1> SUFFICES ASSUME Of!InitOffline
             PROVE  OfflineInv
  OBVIOUS
<1>1. OfflineType
  BY FS_EmptySet DEF Of!InitOffline, OfflineType, Orders
<1>2. Trimming = {} /\ saved = {} /\ untrimmed = 0
  BY DEF Of!InitOffline, Trimming, Of!Done
<1>3. ASSUME NEW W \in SUBSET Trimming
      PROVE  Cardinality(saved \ Lost(W)) <= MaxPages + untrimmed + Cardinality(Open) - Cardinality(W)
  <2>1. W = {} /\ saved \ Lost(W) = {}
    BY <1>2
  <2>2. QED BY <1>2, <2>1, FS_EmptySet, WindowsAreFew, PinnedAreFew
<1>4. QED BY <1>1, <1>3 DEF OfflineInv, TrimsSuffice

\* What is deleted leaves the others in their order.
LEMMA DeletedPages ==
    ASSUME OfflineType, NEW S, Of!Delete(S)
    PROVE  /\ saved' = saved \ S /\ saved' \subseteq Public /\ IsFiniteSet(saved')
           /\ Orders(earlier', saved')
<1>1. /\ saved' = saved \ S
      /\ earlier' = {pair \in earlier : pair[1] \notin S /\ pair[2] \notin S}
  BY DEF Of!Delete
<1>2. IsFiniteSet(saved')
  BY <1>1, FS_Difference DEF OfflineType
<1>3. earlier' = earlier \cap ((saved \ S) \X (saved \ S))
  BY <1>1 DEF OfflineType, Orders
<1>4. Orders(earlier \cap ((saved \ S) \X (saved \ S)), saved \ S)
  BY PartIsOrdered DEF OfflineType
<1>5. QED BY <1>1, <1>2, <1>3, <1>4 DEF OfflineType

\* A window that is not on its way to a trim goes on, and no page is added.
LEMMA WindowGoesOn ==
    ASSUME OfflineInv, NEW w \in Frame, window[w].step \notin {"written", "trim"},
           NEW visit \in {Of!Done} \cup Visit, visit.step # "written",
           window' = [window EXCEPT ![w] = visit],
           saved' \subseteq saved, Orders(earlier', saved'), kept' \subseteq kept \cap saved', UNCHANGED untrimmed
    PROVE  OfflineInv'
<1>1. /\ window' \in [Frame -> {Of!Done} \cup Visit \cup Trim]
      /\ window'[w] = visit /\ \A v \in Frame \ {w} : window'[v] = window[v]
  BY DEF OfflineInv, OfflineType
<1>2. visit.step # "trim"
  BY DEF Of!Done, Visit
<1>3. Open' = Open /\ Trimming' = Trimming
  BY <1>1, <1>2 DEF Open, Trimming
<1>4. IsFiniteSet(saved')
  BY FS_Subset DEF OfflineInv, OfflineType
<1>5. ASSUME NEW W \in SUBSET Trimming
      PROVE  Cardinality(saved' \ Lost(W)') <= MaxPages + untrimmed + Cardinality(Open) - Cardinality(W)
  <2>1. Lost(W)' = Lost(W)
    BY <1>1 DEF Lost, Trimming
  <2>2. saved' \ Lost(W) \in SUBSET (saved \ Lost(W)) /\ IsFiniteSet(saved \ Lost(W))
    BY FS_Difference DEF OfflineInv, OfflineType
  <2>3. /\ Cardinality(saved' \ Lost(W)) <= Cardinality(saved \ Lost(W))
        /\ Cardinality(saved' \ Lost(W)) \in Nat /\ Cardinality(saved \ Lost(W)) \in Nat
    BY <2>2, FS_Subset, FS_CardinalityType
  <2>4. Cardinality(saved \ Lost(W)) <= MaxPages + untrimmed + Cardinality(Open) - Cardinality(W)
    BY DEF OfflineInv, TrimsSuffice
  <2>5. QED BY <2>1, <2>3, <2>4, WindowsAreFew, PinnedAreFew DEF OfflineInv, OfflineType
<1>6. QED BY <1>1, <1>3, <1>4, <1>5 DEF OfflineInv, OfflineType, TrimsSuffice

\* A saved page goes to the end, and its trim is still to come.
LEMMA PageWritten ==
    ASSUME OfflineInv, NEW w \in Frame, Of!PutWrite(w)
    PROVE  OfflineInv'
<1> DEFINE p == window[w].page
<1>1. /\ window[w].step = "deleted" /\ p \in Public
      /\ window' = [window EXCEPT ![w] = [step |-> "written", page |-> p]]
      /\ saved' = saved \cup {p} /\ untrimmed' = untrimmed
      /\ earlier' = {pair \in earlier : pair[1] # p /\ pair[2] # p} \cup ((saved \ {p}) \X {p})
      /\ kept' = IF p \in Pinned THEN kept \cup {p} ELSE kept
  <2>1. window[w] \in Visit /\ window[w].step = "deleted"
    BY DEF Of!PutWrite, OfflineInv, OfflineType, Visit, Trim, Of!Done
  <2>2. p \in Public /\ window[w] = [step |-> "deleted", page |-> p]
    BY <2>1 DEF Visit
  <2>3. [window[w] EXCEPT !.step = "written"] = [step |-> "written", page |-> p]
    BY <2>2
  <2>4. window' = [window EXCEPT ![w] = [window[w] EXCEPT !.step = "written"]]
    BY DEF Of!PutWrite, Of!At
  <2>5. QED BY <2>1, <2>2, <2>3, <2>4 DEF Of!PutWrite, Of!Write
<1> HIDE DEF p
<1>2. /\ window' \in [Frame -> {Of!Done} \cup Visit \cup Trim]
      /\ window'[w].step = "written" /\ \A v \in Frame \ {w} : window'[v] = window[v]
  BY <1>1 DEF OfflineInv, OfflineType, Visit
<1>3. Open' = Open \cup {w} /\ w \notin Open /\ Trimming' = Trimming /\ w \notin Trimming
  BY <1>1, <1>2 DEF Open, Trimming
<1>4. Cardinality(Open') = Cardinality(Open) + 1
  BY <1>3, WindowsAreFew, FS_AddElement
<1>5. Orders(earlier', saved')
  BY <1>1, MovedToEnd DEF OfflineInv, OfflineType
<1>6. /\ saved' \subseteq Public /\ IsFiniteSet(saved') /\ kept' \subseteq Pinned \cap saved' /\ untrimmed' \in Nat
  BY <1>1, FS_AddElement DEF OfflineInv, OfflineType
<1>7. ASSUME NEW W \in SUBSET Trimming
      PROVE  Cardinality(saved' \ Lost(W)') <= MaxPages + untrimmed + Cardinality(Open) + 1 - Cardinality(W)
  <2>1. Lost(W)' = Lost(W)
    BY <1>2, <1>3 DEF Lost, Trimming
  <2>2. PICK rest : rest = saved \ Lost(W)
    OBVIOUS
  <2>3. IsFiniteSet(rest) /\ Cardinality(rest) \in Nat
    BY <2>2, FS_Difference, FS_CardinalityType DEF OfflineInv, OfflineType
  <2>4. IsFiniteSet(rest \cup {p}) /\ Cardinality(rest \cup {p}) \in Nat /\ Cardinality(rest \cup {p}) <= Cardinality(rest) + 1
    BY <2>3, FS_AddElement, FS_CardinalityType
  <2>5. saved' \ Lost(W) \in SUBSET (rest \cup {p})
    BY <1>1, <2>2
  <2>6. Cardinality(saved' \ Lost(W)) <= Cardinality(rest) + 1 /\ Cardinality(saved' \ Lost(W)) \in Nat
    BY <2>3, <2>4, <2>5, FS_Subset, FS_CardinalityType
  <2>7. Cardinality(rest) <= MaxPages + untrimmed + Cardinality(Open) - Cardinality(W)
    BY <2>2 DEF OfflineInv, TrimsSuffice
  <2>8. QED BY <2>1, <2>3, <2>6, <2>7, WindowsAreFew, PinnedAreFew DEF OfflineInv, OfflineType
<1>8. ASSUME NEW W \in SUBSET Trimming'
      PROVE  Cardinality(saved' \ Lost(W)') <= MaxPages + untrimmed' + Cardinality(Open') - Cardinality(W)
  <2>1. W \in SUBSET Trimming /\ untrimmed' = untrimmed
    BY <1>1, <1>3
  <2>2. Cardinality(saved' \ Lost(W)') <= MaxPages + untrimmed + Cardinality(Open) + 1 - Cardinality(W)
    BY <1>7, <2>1
  <2>3. QED BY <1>4, <2>1, <2>2, WindowsAreFew, PinnedAreFew DEF OfflineInv, OfflineType
<1>9. QED BY <1>2, <1>5, <1>6, <1>8 DEF OfflineInv, OfflineType, TrimsSuffice

\* The pages a trim is to delete are loose, and enough of them: those that are left
\* are within the limit, the pinned pages being fewer than it.
LEMMA VictimsAreEnough ==
    ASSUME OfflineType
    PROVE  Of!Victims \subseteq Public \ Pinned /\ Cardinality(saved \ Of!Victims) <= MaxPages
<1> DEFINE loose == saved \ Pinned
           surplus == IF Cardinality(saved) > MaxPages THEN Cardinality(saved) - MaxPages ELSE 0
           order == earlier \cap (loose \X loose)
<1>1. Of!Victims = {p \in loose : Cardinality({q \in loose : <<q, p>> \in order}) < surplus}
  <2>1. \A p \in loose : {q \in loose : <<q, p>> \in earlier} = {q \in loose : <<q, p>> \in order}
    OBVIOUS
  <2>2. QED BY <2>1, OfflineCounts DEF Of!Victims, Of!Surplus
<1>2. PICK victims : victims = Of!Victims
  OBVIOUS
<1>3. /\ IsFiniteSet(loose) /\ Cardinality(loose) \in Nat /\ IsFiniteSet(saved) /\ Cardinality(saved) \in Nat
      /\ Orders(order, loose) /\ victims \in SUBSET loose /\ loose \in SUBSET saved
  <2>1. loose \in SUBSET saved /\ IsFiniteSet(saved) /\ Orders(earlier, saved)
    BY DEF OfflineType
  <2>2. Orders(order, loose)
    BY <2>1, PartIsOrdered
  <2>3. IsFiniteSet(loose)
    BY <2>1, FS_Subset
  <2> HIDE DEF loose, order, surplus
  <2>4. QED BY <1>1, <1>2, <2>1, <2>2, <2>3, FS_CardinalityType
<1>4. Cardinality(saved) - Cardinality(loose) <= MaxPages
  <2>1. saved \cap Pinned \in SUBSET Pinned /\ loose = saved \ (saved \cap Pinned) /\ saved \cap Pinned \in SUBSET saved
    OBVIOUS
  <2>2. PICK some : some = saved \cap Pinned
    OBVIOUS
  <2>3. IsFiniteSet(some) /\ Cardinality(some) <= MaxPages /\ Cardinality(some) \in Nat
    BY <2>1, <2>2, PinnedAreFew, FS_Subset, FS_CardinalityType
  <2>4. Cardinality(saved \ some) = Cardinality(saved) - Cardinality(saved \cap some)
    BY <1>3, FS_Difference
  <2>5. saved \cap some = some /\ loose = saved \ some
    BY <2>1, <2>2
  <2> HIDE DEF loose
  <2>6. QED BY <1>3, <2>3, <2>4, <2>5
<1>5. surplus \in 0..Cardinality(loose)
  <2> HIDE DEF loose
  <2>1. QED BY <1>3, <1>4, PinnedAreFew
<1> HIDE DEF loose, order, surplus
<1>6. Cardinality(victims) >= surplus
  BY <1>1, <1>2, <1>3, <1>5, FirstOnes
<1>7. /\ Cardinality(saved \ victims) = Cardinality(saved) - Cardinality(victims)
      /\ Cardinality(victims) \in Nat
  <2>1. victims \in SUBSET saved
    BY <1>3
  <2>2. saved \cap victims = victims /\ IsFiniteSet(victims)
    BY <1>3, <2>1, FS_Subset
  <2>3. QED BY <1>3, <2>2, FS_Difference, FS_CardinalityType
<1>8. Cardinality(saved \ victims) <= MaxPages
  BY <1>3, <1>6, <1>7, PinnedAreFew DEF surplus
<1>9. QED BY <1>2, <1>3, <1>8 DEF loose, OfflineType

\* A trim that begins has enough to delete.
LEMMA TrimBegins ==
    ASSUME OfflineInv, NEW w \in Frame, Of!PutKeys(w)
    PROVE  OfflineInv'
<1> DEFINE victims == Of!Victims
<1>1. /\ window[w].step = "written" /\ window[w].page \in Public
      /\ window' = [window EXCEPT ![w] = [step |-> "trim", page |-> window[w].page, victims |-> victims]]
      /\ UNCHANGED <<saved, earlier, kept, untrimmed>>
  <2>1. window[w] \in Visit /\ window[w].step = "written"
    BY DEF Of!PutKeys, OfflineInv, OfflineType, Visit, Trim, Of!Done
  <2>2. QED BY <2>1 DEF Of!PutKeys, Visit, Of!copies
<1>2. victims \subseteq Public \ Pinned /\ Cardinality(saved \ victims) <= MaxPages
  BY VictimsAreEnough DEF OfflineInv
<1> HIDE DEF victims
<1>3. /\ window' \in [Frame -> {Of!Done} \cup Visit \cup Trim]
      /\ window'[w].step = "trim" /\ window'[w].victims = victims
      /\ \A v \in Frame \ {w} : window'[v] = window[v]
  BY <1>1, <1>2 DEF OfflineInv, OfflineType, Trim
<1>4. Open' = Open /\ w \in Open /\ Trimming' = Trimming \cup {w} /\ w \notin Trimming
  BY <1>1, <1>3 DEF Open, Trimming
<1>5. ASSUME NEW W \in SUBSET Trimming'
      PROVE  Cardinality(saved' \ Lost(W)') <= MaxPages + untrimmed' + Cardinality(Open') - Cardinality(W)
  <2>1. CASE w \notin W
    <3>1. W \in SUBSET Trimming
      BY <1>4, <2>1
    <3>2. Lost(W)' = Lost(W)
      BY <1>3, <2>1, <3>1 DEF Lost, Trimming
    <3>3. QED BY <1>1, <1>4, <3>1, <3>2 DEF OfflineInv, TrimsSuffice
  <2>2. CASE w \in W
    <3>1. saved' \ Lost(W)' \in SUBSET (saved \ victims)
      BY <1>1, <1>3, <2>2 DEF Lost
    <3>2. IsFiniteSet(saved \ victims)
      BY FS_Difference DEF OfflineInv, OfflineType
    <3>3. Cardinality(saved' \ Lost(W)') <= MaxPages
      BY <1>2, <3>1, <3>2, FS_Subset, FS_CardinalityType, PinnedAreFew
    <3>4. Cardinality(W) <= Cardinality(Open) /\ Cardinality(W) \in Nat /\ Cardinality(Open) \in Nat
      <4>1. W \in SUBSET Open
        BY <1>4 DEF Open, Trimming
      <4>2. QED BY <4>1, WindowsAreFew, FS_Subset, FS_CardinalityType
    <3>5. IsFiniteSet(saved' \ Lost(W)') /\ Cardinality(saved' \ Lost(W)') \in Nat
      BY <3>1, <3>2, FS_Subset, FS_CardinalityType
    <3>6. QED BY <1>1, <1>4, <3>3, <3>4, <3>5, PinnedAreFew DEF OfflineInv, OfflineType
  <2>3. QED BY <2>1, <2>2
<1>6. QED BY <1>1, <1>3, <1>5 DEF OfflineInv, OfflineType, TrimsSuffice

\* A trim that ends has done what it was counted for.
LEMMA TrimEnds ==
    ASSUME OfflineInv, NEW w \in Frame, Of!PutTrim(w)
    PROVE  OfflineInv'
<1> DEFINE victims == window[w].victims
<1>1. /\ window[w].step = "trim" /\ victims \subseteq Public \ Pinned
      /\ window' = [window EXCEPT ![w] = Of!Done] /\ Of!Delete(victims) /\ UNCHANGED <<kept, untrimmed>>
  <2>1. window[w] \in Trim /\ window[w].step = "trim"
    BY DEF Of!PutTrim, OfflineInv, OfflineType, Visit, Trim, Of!Done
  <2>2. QED BY <2>1 DEF Of!PutTrim, Trim, Of!Finished
<1>2. /\ saved' = saved \ victims /\ saved' \subseteq Public /\ IsFiniteSet(saved') /\ Orders(earlier', saved')
      /\ kept' \subseteq Pinned \cap saved' /\ untrimmed' \in Nat
  BY <1>1, DeletedPages DEF OfflineInv, OfflineType
<1>3. /\ window' \in [Frame -> {Of!Done} \cup Visit \cup Trim] /\ window'[w] = Of!Done
      /\ \A v \in Frame \ {w} : window'[v] = window[v]
  BY <1>1 DEF OfflineInv, OfflineType
<1>4. Open' = Open \ {w} /\ w \in Open /\ Trimming' = Trimming \ {w} /\ w \in Trimming
  BY <1>1, <1>3 DEF Open, Trimming, Of!Done
<1>5. Cardinality(Open') = Cardinality(Open) - 1
  BY <1>4, WindowsAreFew, FS_RemoveElement
<1>6. ASSUME NEW W \in SUBSET Trimming'
      PROVE  Cardinality(saved' \ Lost(W)') <= MaxPages + untrimmed' + Cardinality(Open') - Cardinality(W)
  <2>1. W \in SUBSET Trimming /\ W \cup {w} \in SUBSET Trimming /\ w \notin W
    BY <1>4
  <2>2. Lost(W)' = Lost(W) /\ Lost(W \cup {w}) = Lost(W) \cup victims
    BY <1>3, <2>1 DEF Lost, Trimming
  <2>3. saved' \ Lost(W)' = saved \ Lost(W \cup {w})
    BY <1>2, <2>2
  <2>4. Cardinality(saved \ Lost(W \cup {w})) <= MaxPages + untrimmed + Cardinality(Open) - Cardinality(W \cup {w})
    BY <2>1 DEF OfflineInv, TrimsSuffice
  <2>5. Cardinality(W \cup {w}) = Cardinality(W) + 1 /\ Cardinality(W) \in Nat
    BY <2>1, WindowsAreFew, FS_AddElement
  <2>6. Cardinality(saved' \ Lost(W)') \in Nat
    BY <1>2, FS_Difference, FS_CardinalityType
  <2>7. MaxPages \in Nat /\ untrimmed \in Nat /\ Cardinality(Open) \in Nat /\ untrimmed' = untrimmed
    BY <1>1, WindowsAreFew, PinnedAreFew DEF OfflineInv, OfflineType
  <2>8. Cardinality(saved' \ Lost(W)') = Cardinality(saved \ Lost(W \cup {w}))
    BY <2>3
  <2>9. QED BY <1>5, <2>4, <2>5, <2>6, <2>7, <2>8
<1>7. QED BY <1>2, <1>3, <1>6 DEF OfflineInv, OfflineType, TrimsSuffice

\* The trims that a stop of the worker cuts off are counted as such.
LEMMA WorkerStopped ==
    ASSUME OfflineInv, Of!WorkerStops
    PROVE  OfflineInv'
<1>1. /\ window' = [w \in Frame |-> Of!Done] /\ UNCHANGED <<saved, earlier, kept>>
      /\ untrimmed' = untrimmed + Cardinality(Open)
  BY OfflineCounts DEF Of!WorkerStops, Open, Of!copies
<1>2. Open' = {} /\ Trimming' = {} /\ Cardinality(Open') = 0
  BY <1>1, FS_EmptySet DEF Open, Trimming, Of!Done
<1>3. OfflineType'
  BY <1>1, WindowsAreFew DEF OfflineInv, OfflineType
<1>4. ASSUME NEW W \in SUBSET Trimming'
      PROVE  Cardinality(saved' \ Lost(W)') <= MaxPages + untrimmed' + Cardinality(Open') - Cardinality(W)
  <2>1. W = {} /\ W \in SUBSET Trimming /\ Cardinality(W) = 0 /\ Lost(W)' = {} /\ Lost(W) = {}
    BY <1>2, FS_EmptySet DEF Lost
  <2>2. Cardinality(saved \ Lost(W)) <= MaxPages + untrimmed + Cardinality(Open) - Cardinality(W)
    BY <2>1 DEF OfflineInv, TrimsSuffice
  <2>3. saved' \ Lost(W)' = saved \ Lost(W)
    BY <1>1, <2>1
  <2>4. MaxPages \in Nat /\ untrimmed \in Nat /\ Cardinality(Open) \in Nat /\ untrimmed' = untrimmed + Cardinality(Open)
    BY <1>1, WindowsAreFew, PinnedAreFew DEF OfflineInv, OfflineType
  <2>5. Cardinality(saved' \ Lost(W)') = Cardinality(saved \ Lost(W))
    BY <2>3
  <2>6. Cardinality(saved \ Lost(W)) \in Nat /\ Cardinality(W) = 0 /\ Cardinality(Open') = 0
    BY <1>2, <2>1, FS_Difference, FS_CardinalityType DEF OfflineInv, OfflineType
  <2> HIDE DEF Lost
  <2>7. QED BY <2>2, <2>4, <2>5, <2>6
<1>5. QED BY <1>3, <1>4 DEF OfflineInv, TrimsSuffice

\* A copy that becomes old is still a copy.
LEMMA OfflineStands ==
    ASSUME OfflineInv, UNCHANGED <<saved, earlier, window, kept, untrimmed>>
    PROVE  OfflineInv'
BY DEF OfflineInv, OfflineType, TrimsSuffice, Open, Trimming, Lost

\* Every step of the worker keeps the invariant.
LEMMA OfflineStep == OfflineInv /\ [Of!NextOffline]_(Of!offlineVars) => OfflineInv'
<1> SUFFICES ASSUME OfflineInv, [Of!NextOffline]_(Of!offlineVars)
             PROVE  OfflineInv'
  OBVIOUS
<1>1. ASSUME NEW w \in Frame, NEW p \in Of!Page, NEW save \in BOOLEAN, Of!Navigate(w, p, save)
      PROVE  OfflineInv'
  <2>1. PICK visit : visit = [step |-> IF save THEN "reuse" ELSE "fetch", page |-> p]
    OBVIOUS
  <2>2. visit \in Visit /\ visit.step # "written" /\ window[w].step \notin {"written", "trim"}
    BY <1>1, <2>1 DEF Of!Navigate, Visit, Of!Done
  <2>3. window' = [window EXCEPT ![w] = visit] /\ UNCHANGED <<saved, earlier, kept, untrimmed>>
    BY <1>1, <2>1 DEF Of!Navigate, Of!copies
  <2>4. QED BY <2>2, <2>3, WindowGoesOn DEF OfflineInv, OfflineType
<1>2. ASSUME NEW w \in Frame, NEW p \in Pinned, Of!Install(w, p)
      PROVE  OfflineInv'
  <2>1. PICK visit : visit = [step |-> "body", page |-> p]
    OBVIOUS
  <2>2. visit \in Visit /\ visit.step # "written" /\ window[w].step \notin {"written", "trim"}
    BY <1>2, <2>1, PinnedAreFew DEF Of!Install, Visit, Of!Done
  <2>3. window' = [window EXCEPT ![w] = visit] /\ UNCHANGED <<saved, earlier, kept, untrimmed>>
    BY <1>2, <2>1 DEF Of!Install, Of!copies
  <2>4. QED BY <2>2, <2>3, WindowGoesOn DEF OfflineInv, OfflineType
<1>3. ASSUME NEW S, (Of!Delete(S) /\ kept' = kept \ S) \/ UNCHANGED <<saved, earlier, kept>>
      PROVE  saved' \subseteq saved /\ Orders(earlier', saved') /\ kept' \subseteq kept \cap saved'
  BY <1>3, DeletedPages DEF OfflineInv, OfflineType
<1>4. ASSUME NEW w \in Frame, window[w].step \in {"reuse", "fetch", "body", "deleted"},
             NEW visit \in {Of!Done} \cup Visit, visit.step # "written",
             window' = [window EXCEPT ![w] = visit], UNCHANGED untrimmed,
             NEW S, (Of!Delete(S) /\ kept' = kept \ S) \/ UNCHANGED <<saved, earlier, kept>>
      PROVE  OfflineInv'
  BY <1>3, <1>4, WindowGoesOn
<1>5. \A w \in Frame : window[w].step \in {"reuse", "fetch", "body", "deleted"} => window[w] \in Visit
  BY DEF OfflineInv, OfflineType, Trim, Of!Done
<1>6. ASSUME NEW w \in Frame, Of!Reuse(w)
      PROVE  OfflineInv'
  <2>1. window[w] \in Visit /\ window[w].step = "reuse"
    BY <1>5, <1>6 DEF Of!Reuse
  <2>2. [window[w] EXCEPT !.step = "fetch"] \in Visit /\ [window[w] EXCEPT !.step = "fetch"].step # "written"
    BY <2>1 DEF Visit
  <2>3. Of!Done.step # "written"
    BY DEF Of!Done
  <2>4. PICK visit \in {Of!Done} \cup Visit : visit.step # "written" /\ window' = [window EXCEPT ![w] = visit]
    BY <1>6, <2>2, <2>3 DEF Of!Reuse, Of!At, Of!Finished
  <2>5. (Of!Delete({window[w].page}) /\ kept' = kept \ {window[w].page}) \/ UNCHANGED <<saved, earlier, kept>>
    BY <1>6 DEF Of!Reuse, Of!SavedPage, Of!copies
  <2>6. UNCHANGED untrimmed
    BY <1>6 DEF Of!Reuse
  <2>7. QED BY <1>4, <2>1, <2>4, <2>5, <2>6
<1>7. ASSUME NEW w \in Frame, Of!NoNetwork(w)
      PROVE  OfflineInv'
  <2>1. (Of!Delete({window[w].page}) /\ kept' = kept \ {window[w].page}) \/ UNCHANGED <<saved, earlier, kept>>
    BY <1>7 DEF Of!NoNetwork, Of!SavedPage, Of!copies
  <2>2. window' = [window EXCEPT ![w] = Of!Done] /\ window[w].step = "fetch" /\ UNCHANGED untrimmed /\ Of!Done.step # "written"
    BY <1>7 DEF Of!NoNetwork, Of!Finished, Of!Done
  <2>3. QED BY <1>4, <2>1, <2>2
<1>8. ASSUME NEW w \in Frame, NEW withdrawn \in BOOLEAN, Of!Fetched(w, withdrawn)
      PROVE  OfflineInv'
  <2>1. window[w] \in Visit /\ window[w].step = "fetch"
    BY <1>5, <1>8 DEF Of!Fetched
  <2>2. window[w].page \in Public => /\ [window[w] EXCEPT !.step = "body"] \in Visit
                                     /\ [window[w] EXCEPT !.step = "body"].step # "written"
    BY <2>1 DEF Visit
  <2>3. Of!Done.step # "written"
    BY DEF Of!Done
  <2>4. PICK visit \in {Of!Done} \cup Visit : visit.step # "written" /\ window' = [window EXCEPT ![w] = visit]
    BY <1>8, <2>2, <2>3 DEF Of!Fetched, Of!At, Of!Finished
  <2>5. (Of!Delete({window[w].page}) /\ kept' = kept \ {window[w].page}) \/ UNCHANGED <<saved, earlier, kept>>
    BY <1>8 DEF Of!Fetched, Of!copies
  <2>6. UNCHANGED untrimmed
    BY <1>8 DEF Of!Fetched
  <2>7. QED BY <1>4, <2>1, <2>4, <2>5, <2>6
<1>9. ASSUME NEW w \in Frame, Of!PutDelete(w)
      PROVE  OfflineInv'
  <2>1. window[w] \in Visit /\ window[w].step = "body"
    BY <1>5, <1>9 DEF Of!PutDelete
  <2>2. PICK visit : visit = [window[w] EXCEPT !.step = "deleted"]
    OBVIOUS
  <2>3. visit \in Visit /\ visit.step # "written"
    BY <2>1, <2>2 DEF Visit
  <2>4. /\ window' = [window EXCEPT ![w] = visit] /\ UNCHANGED untrimmed
        /\ Of!Delete({window[w].page}) /\ kept' = kept \ {window[w].page}
    BY <1>9, <2>2 DEF Of!PutDelete, Of!At
  <2>5. QED BY <1>4, <2>1, <2>3, <2>4
<1>10. ASSUME NEW w \in Frame, Of!PutFails(w)
       PROVE  OfflineInv'
  <2>1. window' = [window EXCEPT ![w] = Of!Done] /\ window[w].step = "deleted" /\ UNCHANGED <<saved, earlier, kept, untrimmed>> /\ Of!Done.step # "written"
    BY <1>10 DEF Of!PutFails, Of!Finished, Of!Done, Of!copies
  <2>2. QED BY <1>4, <2>1
<1>11. CASE Of!Activate
  <2>1. OfflineType'
    BY <1>11, FS_EmptySet DEF Of!Activate, OfflineType, Orders
  <2>2. saved' = {} /\ untrimmed' = 0 /\ Trimming' = {} /\ Open' = {}
    BY <1>11 DEF Of!Activate, Trimming, Open, Of!Done
  <2>3. ASSUME NEW W \in SUBSET Trimming'
        PROVE  Cardinality(saved' \ Lost(W)') <= MaxPages + untrimmed' + Cardinality(Open') - Cardinality(W)
    <3>1. W = {} /\ saved' \ Lost(W)' = {} /\ Cardinality({}) = 0
      BY <2>2, FS_EmptySet
    <3>2. QED BY <2>2, <3>1, PinnedAreFew
  <2>4. QED BY <2>1, <2>3 DEF OfflineInv, TrimsSuffice
<1>12. ASSUME NEW p \in saved, Of!AgeCopy(p)
       PROVE  OfflineInv'
  BY <1>12, OfflineStands DEF Of!AgeCopy
<1>13. CASE UNCHANGED Of!offlineVars
  BY <1>13, OfflineStands DEF Of!offlineVars, Of!copies
<1>14. QED BY <1>1, <1>2, <1>6, <1>7, <1>8, <1>9, <1>10, <1>11, <1>12, <1>13, PageWritten, TrimBegins, TrimEnds, WorkerStopped, Zenon
           DEF Of!NextOffline

\* However the steps of put interleave, the copies exceed their limit by no more
\* than the saves that have not come to their trim, pinned pages stay and no private
\* page has a copy (put and savePage of service-worker.js).
THEOREM CopiesKept == ClubSpec => []CopiesStayBounded
<1>1. OfflineInv => CopiesStayBounded
  <2> SUFFICES ASSUME OfflineInv
               PROVE  CopiesStayBounded
    OBVIOUS
  <2>1. {} \in SUBSET Trimming /\ Lost({}) = {} /\ Cardinality({}) = 0
    BY FS_EmptySet DEF Lost
  <2>2. Cardinality(saved \ Lost({})) <= MaxPages + untrimmed + Cardinality(Open) - Cardinality({})
    BY <2>1 DEF OfflineInv, TrimsSuffice
  <2>3. saved \ Lost({}) = saved
    BY <2>1
  <2>4. Cardinality(saved) <= MaxPages + untrimmed + Cardinality(Open)
    <3>1. Cardinality(saved) \in Nat
      BY FS_CardinalityType DEF OfflineInv, OfflineType
    <3>2. MaxPages \in Nat /\ untrimmed \in Nat /\ Cardinality(Open) \in Nat
      BY WindowsAreFew, PinnedAreFew DEF OfflineInv, OfflineType
    <3>3. QED BY <2>1, <2>2, <2>3, <3>1, <3>2
  <2>5. QED BY <2>4, OfflineCounts DEF Of!CopiesStayBounded, OfflineInv, OfflineType, Open, CopiesStayBounded
<1>2. QED BY <1>1, OfflineInitially, OfflineStep, OfflineAlone, PTL DEF Of!OfflineSpec

-----------------------------------------------------------------------------
(* Catalog: one row for each card, settled as the source says.                *)

\* The synchronisation in Club does what Catalog allows.
THEOREM CatalogAlone == ClubSpec => Ct!CatalogSpec
<1>1. InitClub => Ct!InitCatalog BY DEF InitClub
<1>2. [NextClub]_clubVars => [Ct!NextCatalog]_(Ct!catalogVars)
  <2>1. CatalogMoves => Ct!NextCatalog
    BY Zenon DEF CatalogMoves, Ct!NextCatalog
  <2>2. UNCHANGED catalogVars => UNCHANGED Ct!catalogVars
    BY DEF catalogVars, Ct!catalogVars
  <2>3. QED BY <2>1, <2>2, ClubsOthersMove DEF NextClub, clubVars
<1>3. QED BY <1>1, <1>2, PTL DEF ClubSpec, Ct!CatalogSpec

ProgramRow == [id : Nat, hse : Nat, title : {c.title : c \in Card}, price : Nat,
               status : {"draft", "published", "archived"}]
Rows(S) ==
    /\ S \subseteq ProgramRow /\ IsFiniteSet(S)
    /\ \A p, q \in S : p.id = q.id => p = q
    /\ \A p, q \in S : p.hse = q.hse /\ p.hse # 0 => p = q

Lists == {cards \in Seq(Card) : \A i, j \in DOMAIN cards : cards[i].hse = cards[j].hse => i = j}
Run == [step : {"idle", "all", "lock", "apply"}, actual : Lists, all : Lists, rows : SUBSET ProgramRow]

\* Every program was among the rows the run has read, and has only been edited.
Reads(s) ==
    /\ Rows(sync[s].rows)
    /\ \A p \in programs :
          \E r \in sync[s].rows : r.id = p.id /\ r.hse = p.hse /\ (p.id \notin touched => r = p)

CatalogInv ==
    /\ Rows(programs)
    /\ listed.actual \in Lists /\ listed.all \in Lists
    /\ sync \in [Sync -> Run]
    /\ \A s \in Sync : sync[s].step = "apply" => locked = s /\ Reads(s)

\* Catalog counts as its instance here does.
LEMMA CatalogCounts == \A S : Ct!Cardinality(S) = Cardinality(S)
BY DEF Ct!Cardinality, Cardinality

\* What a function gives to a finite set is finite.
LEMMA ImageIsFinite ==
    ASSUME NEW S, IsFiniteSet(S), NEW f, DOMAIN f = S
    PROVE  IsFiniteSet({f[x] : x \in S})
<1> DEFINE T == {f[x] : x \in S}
           g == [x \in S |-> f[x]]
<1>1. g \in Surjection(S, T)
  BY DEF Surjection
<1>2. QED BY <1>1, FS_Surjection

\* In a finite set that has a member, one has the largest number.
LEMMA SomeLatest ==
    ASSUME NEW S, IsFiniteSet(S), S # {}, NEW f, \A x \in S : f[x] \in Nat
    PROVE  \E x \in S : \A y \in S : f[y] <= f[x]
<1> DEFINE Above(x) == {y \in S : f[x] < f[y]}
           T == {Above(x) : x \in S}
<1>1. T \subseteq FiniteSubsetsOf(S) /\ T # {}
  <2>1. \A x \in S : IsFiniteSet(Above(x)) /\ Above(x) \subseteq S
    BY FS_Subset
  <2>2. QED BY <2>1 DEF FiniteSubsetsOf
<1>2. PICK t \in T : \A u \in T : ~ <<u, t>> \in StrictSubsetOrdering(S)
  BY <1>1, FS_StrictSubsetOrderingWellFounded, WFMin
<1>3. PICK x \in S : t = Above(x)
  OBVIOUS
<1>4. ASSUME NEW y \in S, f[x] < f[y]
      PROVE  FALSE
  <2>1. f[x] \in Nat /\ f[y] \in Nat
    OBVIOUS
  <2>2. Above(y) \subseteq Above(x) /\ y \in Above(x) /\ y \notin Above(y)
    BY <1>4, <2>1
  <2>3. <<Above(y), Above(x)>> \in StrictSubsetOrdering(S)
    BY <2>2 DEF StrictSubsetOrdering
  <2>4. QED BY <1>2, <1>3, <2>3
<1>5. \A y \in S : f[y] <= f[x]
  BY <1>4
<1>6. QED BY <1>5

\* A set of numbers that has a member has a least.
LEMMA SomeEarliest ==
    ASSUME NEW S \in SUBSET Nat, S # {}
    PROVE  \E x \in S : \A y \in S : x <= y
<1>1. PICK b \in S : TRUE
  OBVIOUS
<1> DEFINE L == {b - x : x \in {x \in S : x <= b}}
<1>2. L \in SUBSET (0..b) /\ L # {} /\ b \in Nat
  <2>1. \A x \in S : x <= b => b - x \in 0..b
    OBVIOUS
  <2>2. b \in S /\ b <= b /\ b \in Nat
    OBVIOUS
  <2>3. QED BY <2>1, <2>2
<1>3. PICK l \in L : \A k \in L : k <= l
  BY <1>2, SomeHighest
<1>4. PICK x \in S : x <= b /\ l = b - x
  BY <1>3
<1>5. \A y \in S : x <= y
  <2>1. \A y \in S : y <= b => b - y <= b - x
    BY <1>3, <1>4
  <2>2. QED BY <1>1, <1>4, <2>1
<1>6. QED BY <1>5

\* What the source lists is a listing, and so is nothing.
LEMMA ListingsAreLists ==
    /\ Ct!Listings \subseteq Lists
    /\ <<>> \in Lists
    /\ Ct!Idle \in Run /\ Ct!Idle.step = "idle"
<1>1. \A n \in Nat : [1..n -> Card] \subseteq Seq(Card)
  OBVIOUS
<1>2. Ct!Listings \subseteq Lists
  <2>1. \A n \in 0..Ct!Cardinality(Card) : n \in Nat
    OBVIOUS
  <2>2. QED BY <1>1, <2>1 DEF Ct!Listings, Lists
<1>3. <<>> \in Lists
  BY DEF Lists
<1>4. QED BY <1>2, <1>3 DEF Ct!Idle, Run

\* A card finds at most one row by its number; of those it finds, it takes one.
LEMMA RowFound ==
    ASSUME NEW S, Rows(S), NEW c \in Card, Ct!RowFor(S, c) # {}
    PROVE  /\ Ct!RowOf(S, c) \in S
           /\ \A r \in S : r.hse = c.hse => r = Ct!RowOf(S, c)
<1> DEFINE F == Ct!RowFor(S, c)
           ids == [r \in F |-> r.id]
<1>1. F \subseteq S
  BY DEF Ct!RowFor, Ct!ById, Ct!ByTitle
<1>2. IsFiniteSet(F)
  BY <1>1, FS_Subset DEF Rows
<1>3. \A r \in F : ids[r] = r.id /\ ids[r] \in Nat
  BY <1>1 DEF Rows, ProgramRow
<1>4. PICK r \in F : \A o \in F : ids[o] <= ids[r]
  <2> HIDE DEF F, ids
  <2>1. QED BY <1>2, <1>3, SomeLatest DEF F
<1>5. \A o \in F : o.id <= r.id
  BY <1>3, <1>4
<1>7. Ct!RowOf(S, c) \in F
  BY <1>5 DEF Ct!RowOf
<1>8. ASSUME NEW q \in S, q.hse = c.hse
      PROVE  q = Ct!RowOf(S, c)
  <2>1. q \in Ct!ById(S, c)
    BY <1>8 DEF Ct!ById
  <2>2. F = Ct!ById(S, c)
    BY <2>1 DEF Ct!RowFor
  <2>3. c.hse # 0
    BY CardsNumbered
  <2>4. Ct!RowOf(S, c).hse = c.hse
    BY <1>7, <2>2 DEF Ct!ById
  <2>5. QED BY <1>1, <1>7, <1>8, <2>3, <2>4 DEF Rows
<1>9. QED BY <1>1, <1>7, <1>8

\* A row is planned for a card that takes it, each for another card; a card whose
\* number a row has is planned for that row or, its row taken, for none.
LEMMA RowsPlanned ==
    ASSUME NEW S, Rows(S), NEW cards \in Lists
    PROVE  LET p == Ct!PlanOf(S, cards) IN
           /\ \A i \in DOMAIN p.of : \E n \in DOMAIN cards :
                 p.of[i] = cards[n] /\ n \notin p.new /\ Ct!RowOf(S, cards[n]).id = i
           /\ \A i \in DOMAIN p.of : \E r \in S : r.id = i
           /\ \A r \in S, n \in DOMAIN cards : r.hse = cards[n].hse => r.id \in DOMAIN p.of /\ n \notin p.new
           /\ p.new \subseteq DOMAIN cards
<1> DEFINE known == {n \in DOMAIN cards : Ct!RowFor(S, cards[n]) # {}}
           Mine(n) == Ct!RowOf(S, cards[n]).id
           First(i) == CHOOSE n \in known : Mine(n) = i /\ \A m \in known : Mine(m) = i => n <= m
           p == Ct!PlanOf(S, cards)
<1>1. /\ p.of = [i \in {Mine(n) : n \in known} |-> cards[First(i)]]
      /\ p.new = DOMAIN cards \ known
  BY DEF Ct!PlanOf
<1> HIDE DEF p
<1>2. DOMAIN cards \in SUBSET Nat /\ \A n \in DOMAIN cards : cards[n] \in Card
  BY DEF Lists
<1>3. \A n \in known : Ct!RowOf(S, cards[n]) \in S
  BY <1>2, RowFound
<1>4. ASSUME NEW i \in DOMAIN p.of
      PROVE  First(i) \in known /\ Mine(First(i)) = i /\ p.of[i] = cards[First(i)]
  <2> DEFINE T == {n \in known : Mine(n) = i}
  <2>1. T \in SUBSET Nat /\ T # {}
    <3>1. known \subseteq Nat
      BY <1>2
    <3>2. \E n \in known : Mine(n) = i
      BY <1>1
    <3> HIDE DEF known, Mine
    <3>3. QED BY <3>1, <3>2
  <2>2. PICK n \in T : \A m \in T : n <= m
    BY <2>1, SomeEarliest
  <2>3. n \in known /\ Mine(n) = i /\ \A m \in known : Mine(m) = i => n <= m
    BY <2>2
  <2> HIDE DEF known, Mine
  <2>4. First(i) \in known /\ Mine(First(i)) = i
    BY <2>3
  <2>5. QED BY <1>1, <2>4
<1>5. ASSUME NEW r \in S, NEW n \in DOMAIN cards, r.hse = cards[n].hse
      PROVE  r.id \in DOMAIN p.of /\ n \notin p.new
  <2>1. n \in known
    BY <1>5, <1>2, CardsNumbered DEF Ct!RowFor, Ct!ById
  <2>2. r = Ct!RowOf(S, cards[n])
    BY <1>2, <1>5, <2>1, RowFound
  <2>3. QED BY <1>1, <2>1, <2>2
<1>6. QED
  <2>1. \A i \in DOMAIN p.of : \E n \in DOMAIN cards :
            p.of[i] = cards[n] /\ n \notin p.new /\ Ct!RowOf(S, cards[n]).id = i
    <3> HIDE DEF First
    <3>1. QED BY <1>1, <1>4
  <2>2. \A i \in DOMAIN p.of : \E r \in S : r.id = i
    BY <1>3, <1>4
  <2>3. QED BY <1>1, <1>5, <2>1, <2>2 DEF p

\* A row that is there when the plan is applied was read, and what the plan makes
\* of it keeps its row; one the office has not edited is settled.
LEMMA RowKept ==
    ASSUME CatalogInv, NEW s \in Sync, Reads(s), NEW x \in programs
    PROVE  LET q == Ct!Kept(s, x)
               of == Ct!Plan(s).of
           IN  /\ q \in ProgramRow /\ q.id = x.id
               /\ q.hse = IF x.id \in DOMAIN of THEN of[x.id].hse ELSE x.hse
               /\ x.id \notin touched => Ct!Settled(q, sync[s].all)
<1> DEFINE S == sync[s].rows
           cards == sync[s].all
           p == Ct!Plan(s)
           c == p.of[x.id]
           q == Ct!Kept(s, x)
<1>1. Rows(S) /\ cards \in Lists
  BY DEF CatalogInv, Reads, Run
<1>2. /\ \A i \in DOMAIN p.of : \E n \in DOMAIN cards :
            p.of[i] = cards[n] /\ n \notin p.new /\ Ct!RowOf(S, cards[n]).id = i
      /\ \A r \in S, n \in DOMAIN cards : r.hse = cards[n].hse => r.id \in DOMAIN p.of /\ n \notin p.new
  BY <1>1, RowsPlanned DEF Ct!Plan
<1>3. PICK r \in S : r.id = x.id /\ r.hse = x.hse /\ (x.id \notin touched => r = x)
  BY DEF Reads
<1>4. r = CHOOSE o \in S : o.id = x.id
  BY <1>1, <1>3 DEF Rows
<1>5. x \in ProgramRow /\ r \in ProgramRow
  BY <1>1 DEF CatalogInv, Rows
<1>6. \A n \in DOMAIN cards : cards[n] \in Card /\ cards[n].hse \in Ct!HseOf(cards)
  BY <1>1 DEF Lists, Ct!HseOf, Ct!ToSet
<1>7. \A h \in Ct!HseOf(cards) : \E n \in DOMAIN cards : cards[n].hse = h
  BY DEF Ct!HseOf, Ct!ToSet
<1> HIDE DEF S, cards, p
<1>8. CASE x.id \in DOMAIN p.of
  <2>1. c \in Card /\ c.hse \in Ct!HseOf(cards)
    BY <1>2, <1>6, <1>8
  <2>2. q = Ct!Patched(x, r, c)
    BY <1>4, <1>8 DEF Ct!Kept, S, p
  <2>3. /\ q.id = x.id /\ q.hse = c.hse /\ q.title = x.title
        /\ q.price = (IF c.price > 0 THEN c.price ELSE x.price) /\ q.status = Ct!StatusOf(c, r.price)
        /\ q \in ProgramRow
    <3>1. c.hse \in Nat /\ c.price \in Nat
      BY <2>1, CardsNumbered
    <3>2. Ct!StatusOf(c, r.price) \in {"draft", "published", "archived"}
      BY DEF Ct!StatusOf
    <3> HIDE DEF q, c
    <3>3. QED BY <1>5, <2>2, <3>1, <3>2 DEF Ct!Patched, ProgramRow
  <2>4. ASSUME x.id \notin touched
        PROVE  Ct!Settled(q, cards)
    <3>1. r = x
      BY <1>3, <2>4
    <3>2. c.price \in Nat /\ x.price \in Nat
      BY <1>5, <2>1, CardsNumbered DEF ProgramRow
    <3> HIDE DEF q, c
    <3>3. QED BY <2>1, <2>3, <3>1, <3>2 DEF Ct!Settled, Ct!StatusOf
  <2>5. QED BY <1>8, <2>3, <2>4 DEF cards, p
<1>9. CASE x.id \notin DOMAIN p.of
  <2>1. r.hse \notin Ct!HseOf(cards)
    BY <1>2, <1>3, <1>7, <1>9
  <2>2. CASE x.id \in Ct!Gone(s)
    <3>1. q = [x EXCEPT !.status = "archived"]
      BY <1>9, <2>2 DEF Ct!Kept, p
    <3> HIDE DEF q
    <3>2. q \in ProgramRow /\ q.id = x.id /\ q.hse = x.hse /\ q.status = "archived"
      BY <1>5, <3>1 DEF ProgramRow
    <3>3. Ct!Settled(q, cards)
      BY <1>3, <2>1, <3>2 DEF Ct!Settled
    <3>4. QED BY <1>9, <3>2, <3>3 DEF q, cards, p
  <2>3. CASE x.id \notin Ct!Gone(s)
    <3>1. q = x
      BY <1>9, <2>3 DEF Ct!Kept, p
    <3>2. ASSUME x.id \notin touched
          PROVE  Ct!Settled(q, cards)
      <4>1. r = x
        BY <1>3, <3>2
      <4>2. x.hse = 0 \/ x.status = "archived"
        BY <1>3, <1>9, <2>3, <4>1 DEF Ct!Gone, Ct!Archived, S, p
      <4>3. QED BY <2>1, <3>1, <4>1, <4>2 DEF Ct!Settled
    <3>3. QED BY <1>5, <1>9, <3>1, <3>2 DEF cards, p
  <2>4. QED BY <2>2, <2>3
<1>10. QED BY <1>8, <1>9

\* A new row has a number that none has yet, and is settled.
LEMMA RowsCreated ==
    ASSUME CatalogInv, NEW s \in Sync, Reads(s)
    PROVE  LET new == Ct!Plan(s).new IN
           /\ \A n \in new : /\ Ct!New(s, n) \in ProgramRow
                             /\ Ct!New(s, n).hse = sync[s].all[n].hse
                             /\ \A x \in programs : x.id < Ct!New(s, n).id
                             /\ Ct!Settled(Ct!New(s, n), sync[s].all)
           /\ \A n, m \in new : Ct!New(s, n).id = Ct!New(s, m).id => n = m
           /\ IsFiniteSet(new)
<1> DEFINE cards == sync[s].all
           new == Ct!Plan(s).new
           Upto(n) == {m \in new : m <= n}
           ids == [x \in programs |-> x.id]
           T == {ids[x] : x \in programs} \cup {0}
           base == Ct!Max({x.id : x \in programs} \cup {0})
<1>1. Rows(sync[s].rows) /\ cards \in Lists
  BY DEF CatalogInv, Reads, Run
<1>2. new \subseteq DOMAIN cards
  BY <1>1, RowsPlanned DEF Ct!Plan
<1>3. new \in SUBSET Nat /\ IsFiniteSet(new)
  <2>1. cards \in Seq(Card) /\ Len(cards) \in Nat /\ DOMAIN cards = 1..Len(cards)
    BY <1>1 DEF Lists
  <2> HIDE DEF cards, new
  <2>2. new \in SUBSET (1..Len(cards)) /\ IsFiniteSet(1..Len(cards))
    BY <1>2, <2>1, FS_Interval
  <2>3. IsFiniteSet(new)
    BY <2>2, FS_Subset, Zenon
  <2>4. QED BY <2>2, <2>3
<1>4. \A x \in programs : x.id \in Nat
  BY DEF CatalogInv, Rows, ProgramRow
<1>5. base \in Nat /\ \A x \in programs : x.id <= base
  <2>1. IsFiniteSet({ids[x] : x \in programs})
    <3>1. IsFiniteSet(programs) /\ DOMAIN ids = programs
      BY DEF CatalogInv, Rows
    <3> HIDE DEF ids
    <3>2. QED BY <3>1, ImageIsFinite
  <2>2. T \subseteq Nat /\ T # {} /\ IsFiniteSet(T)
    <3>1. IsFiniteSet(T)
      <4> HIDE DEF ids
      <4>1. QED BY <2>1, FS_AddElement
    <3>2. QED BY <1>4, <3>1
  <2>3. PICK l \in T : \A y \in T : y <= l
    <3> DEFINE same == [y \in T |-> y]
    <3> HIDE DEF T
    <3>1. \A y \in T : same[y] = y /\ same[y] \in Nat
      BY <2>2
    <3> HIDE DEF same
    <3>2. PICK l \in T : \A y \in T : same[y] <= same[l]
      BY <2>2, <3>1, SomeLatest
    <3>3. \A y \in T : y <= l
      BY <3>1, <3>2
    <3>4. QED BY <3>3
  <2>4. T = {x.id : x \in programs} \cup {0}
    OBVIOUS
  <2>5. base \in T /\ \A y \in T : y <= base
    <3>1. base = CHOOSE x \in T : \A y \in T : x >= y
      BY <2>4 DEF Ct!Max
    <3> HIDE DEF T, base
    <3>2. \A y \in T : l >= y
      BY <2>2, <2>3
    <3>3. base \in T /\ \A y \in T : base >= y
      BY <3>1, <3>2
    <3>4. QED BY <2>2, <3>3
  <2>6. QED BY <2>2, <2>4, <2>5
<1> HIDE DEF base
<1>6. \A n \in new : IsFiniteSet(Upto(n)) /\ Cardinality(Upto(n)) \in Nat
  BY <1>3, FS_Subset, FS_CardinalityType
<1>7. ASSUME NEW n \in new
      PROVE  Cardinality(Upto(n)) > 0
  <2>1. n \in Upto(n)
    BY <1>3
  <2>2. Cardinality(Upto(n)) # 0
    <3> HIDE DEF Upto
    <3>1. QED BY <1>6, <2>1, FS_EmptySet
  <2>3. QED BY <1>6, <2>2
<1>8. ASSUME NEW n \in new, NEW m \in new, n < m
      PROVE  Cardinality(Upto(n)) < Cardinality(Upto(m))
  <2>1. Upto(n) \in SUBSET Upto(m) /\ m \in Upto(m) /\ m \notin Upto(n)
    BY <1>3, <1>8
  <2> HIDE DEF Upto
  <2>2. Cardinality(Upto(n)) <= Cardinality(Upto(m)) /\ Cardinality(Upto(n)) # Cardinality(Upto(m))
    BY <1>6, <2>1, FS_Subset
  <2>3. QED BY <1>6, <2>2
<1>9. \A n \in new : Ct!New(s, n) = Ct!Created(base + Cardinality(Upto(n)), cards[n])
  BY CatalogCounts DEF Ct!New, base
<1> HIDE DEF Upto
<1>10. ASSUME NEW n \in new
       PROVE  /\ Ct!New(s, n) \in ProgramRow
              /\ Ct!New(s, n).hse = cards[n].hse
              /\ Ct!New(s, n).id = base + Cardinality(Upto(n))
              /\ Ct!Settled(Ct!New(s, n), cards)
  <2>1. cards[n] \in Card /\ cards[n].hse \in Ct!HseOf(cards)
    BY <1>1, <1>2 DEF Lists, Ct!HseOf, Ct!ToSet
  <2>2. cards[n].hse \in Nat /\ cards[n].price \in Nat
    BY <2>1, CardsNumbered
  <2>3. base + Cardinality(Upto(n)) \in Nat
    BY <1>5, <1>6
  <2>4. Ct!StatusOf(cards[n], 0) = IF cards[n].price > 0 THEN "published" ELSE "draft"
    BY <2>2 DEF Ct!StatusOf
  <2> HIDE DEF cards, new
  <2>5. QED BY <1>9, <2>1, <2>2, <2>3, <2>4 DEF Ct!Created, ProgramRow, Ct!Settled
<1>11. \A n \in new, x \in programs : x.id < Ct!New(s, n).id
  <2> HIDE DEF new
  <2>1. QED BY <1>4, <1>5, <1>6, <1>7, <1>10
<1>12. ASSUME NEW n \in new, NEW m \in new, Ct!New(s, n).id = Ct!New(s, m).id
       PROVE  n = m
  <2> HIDE DEF new
  <2>1. Cardinality(Upto(n)) = Cardinality(Upto(m))
    BY <1>5, <1>6, <1>10, <1>12
  <2>2. ~ n < m /\ ~ m < n
    BY <1>6, <1>8, <2>1
  <2>3. QED BY <1>3, <2>2
<1>13. QED BY <1>3, <1>10, <1>11, <1>12

\* What a run writes has one row for each card, and settles what the office has
\* not edited.
LEMMA ProgramsSettled ==
    ASSUME CatalogInv, NEW s \in Sync, Ct!Apply(s)
    PROVE  /\ Rows(programs')
           /\ \A q \in programs' : q.id \notin touched => Ct!Settled(q, sync[s].all)
<1> DEFINE cards == sync[s].all
           of == Ct!Plan(s).of
           new == Ct!Plan(s).new
           K == {Ct!Kept(s, x) : x \in programs}
           N == {Ct!New(s, n) : n \in new}
<1>1. programs' = K \cup N
  BY DEF Ct!Apply, Ct!After
<1>2. Reads(s) /\ Rows(sync[s].rows) /\ cards \in Lists /\ Rows(programs)
  BY DEF CatalogInv, Reads, Run, Ct!Apply
<1>3. /\ \A i \in DOMAIN of : \E n \in DOMAIN cards :
            of[i] = cards[n] /\ n \notin new /\ Ct!RowOf(sync[s].rows, cards[n]).id = i
      /\ \A r \in sync[s].rows, n \in DOMAIN cards : r.hse = cards[n].hse => r.id \in DOMAIN of /\ n \notin new
      /\ new \subseteq DOMAIN cards
  BY <1>2, RowsPlanned DEF Ct!Plan
<1>4. \A x \in programs : \E r \in sync[s].rows : r.id = x.id /\ r.hse = x.hse
  BY <1>2 DEF Reads
<1>5. \A n, m \in DOMAIN cards : cards[n].hse = cards[m].hse => n = m
  BY <1>2 DEF Lists
<1>6. \A x \in programs :
         LET q == Ct!Kept(s, x) IN
         /\ q \in ProgramRow /\ q.id = x.id
         /\ q.hse = IF x.id \in DOMAIN of THEN of[x.id].hse ELSE x.hse
         /\ x.id \notin touched => Ct!Settled(q, cards)
  BY <1>2, RowKept
<1>7. /\ \A n \in new : /\ Ct!New(s, n) \in ProgramRow
                        /\ Ct!New(s, n).hse = cards[n].hse
                        /\ \A x \in programs : x.id < Ct!New(s, n).id
                        /\ Ct!Settled(Ct!New(s, n), cards)
      /\ \A n, m \in new : Ct!New(s, n).id = Ct!New(s, m).id => n = m
      /\ IsFiniteSet(new)
  BY <1>2, RowsCreated
<1> HIDE DEF cards, of, new
<1>8. ASSUME NEW x \in programs, NEW y \in programs,
             Ct!Kept(s, x).hse = Ct!Kept(s, y).hse, Ct!Kept(s, x).hse # 0
      PROVE  x = y
  <2>1. CASE x.id \in DOMAIN of /\ y.id \in DOMAIN of
    <3>1. of[x.id].hse = of[y.id].hse
      BY <1>6, <1>8, <2>1
    <3>2. x.id = y.id
      BY <1>3, <1>5, <2>1, <3>1
    <3>3. QED BY <1>2, <3>2 DEF Rows
  <2>2. ASSUME NEW u \in programs, NEW v \in programs, u.id \in DOMAIN of, v.id \notin DOMAIN of
        PROVE  Ct!Kept(s, u).hse # Ct!Kept(s, v).hse
    <3>1. PICK n \in DOMAIN cards : of[u.id] = cards[n]
      BY <1>3, <2>2
    <3>2. v.hse # cards[n].hse
      BY <1>3, <1>4, <2>2
    <3>3. QED BY <1>6, <2>2, <3>1, <3>2
  <2>3. CASE x.id \notin DOMAIN of /\ y.id \notin DOMAIN of
    <3>1. x.hse = y.hse /\ x.hse # 0
      BY <1>6, <1>8, <2>3
    <3>2. QED BY <1>2, <3>1 DEF Rows
  <2>4. QED BY <1>8, <2>1, <2>2, <2>3
<1>9. ASSUME NEW x \in programs, NEW n \in new
      PROVE  Ct!Kept(s, x).hse # cards[n].hse
  <2>1. CASE x.id \in DOMAIN of
    <3>1. PICK m \in DOMAIN cards : of[x.id] = cards[m] /\ m \notin new
      BY <1>3, <2>1
    <3>2. QED BY <1>3, <1>5, <1>6, <2>1, <3>1
  <2>2. CASE x.id \notin DOMAIN of
    BY <1>3, <1>4, <1>6, <2>2
  <2>3. QED BY <2>1, <2>2
<1>10. IsFiniteSet(K) /\ IsFiniteSet(N)
  <2> DEFINE f == [x \in programs |-> Ct!Kept(s, x)]
             g == [n \in new |-> Ct!New(s, n)]
  <2>1. IsFiniteSet({f[x] : x \in programs}) /\ IsFiniteSet({g[n] : n \in new})
    <3>1. DOMAIN f = programs /\ DOMAIN g = new
      OBVIOUS
    <3>2. IsFiniteSet(programs) /\ IsFiniteSet(new)
      BY <1>2, <1>7 DEF Rows
    <3> HIDE DEF f, g
    <3>3. QED BY <3>1, <3>2, ImageIsFinite
  <2>2. {f[x] : x \in programs} = K /\ {g[n] : n \in new} = N
    OBVIOUS
  <2>3. QED BY <2>1, <2>2
<1>11. \A x, y \in programs : x.id = y.id => x = y
  BY <1>2 DEF Rows
<1>12. \A x \in programs : x.id \in Nat
  BY <1>2 DEF Rows, ProgramRow
<1>13. \A p, q \in K : (p.id = q.id \/ (p.hse = q.hse /\ p.hse # 0)) => p = q
  BY <1>6, <1>8, <1>11
<1>14. \A p \in K, q \in N : p.id # q.id /\ p.hse # q.hse
  <2>1. ASSUME NEW x \in programs, NEW n \in new
        PROVE  Ct!Kept(s, x).id # Ct!New(s, n).id /\ Ct!Kept(s, x).hse # Ct!New(s, n).hse
    <3>1. x.id < Ct!New(s, n).id /\ x.id \in Nat /\ Ct!New(s, n).id \in Nat
      BY <1>7, <1>12 DEF ProgramRow
    <3>2. QED BY <1>6, <1>7, <1>9, <3>1
  <2>2. QED BY <2>1
<1>15. \A p, q \in N : (p.id = q.id \/ (p.hse = q.hse /\ p.hse # 0)) => p = q
  <2>1. \A n, m \in new : Ct!New(s, n).hse = Ct!New(s, m).hse => n = m
    BY <1>3, <1>5, <1>7
  <2>2. QED BY <1>7, <2>1
<1>16. Rows(programs')
  <2>1. IsFiniteSet(K \cup N)
    <3> HIDE DEF K, N
    <3>1. QED BY <1>10, FS_Union
  <2>2. K \cup N \subseteq ProgramRow
    BY <1>6, <1>7
  <2> HIDE DEF K, N
  <2>3. \A p, q \in K \cup N : (p.id = q.id \/ (p.hse = q.hse /\ p.hse # 0)) => p = q
    <3>1. ASSUME NEW p \in K \cup N, NEW q \in K \cup N, p.id = q.id \/ (p.hse = q.hse /\ p.hse # 0)
          PROVE  p = q
      <4>1. CASE p \in K /\ q \in K BY <1>13, <3>1, <4>1
      <4>2. CASE p \in N /\ q \in N BY <1>15, <3>1, <4>2
      <4>3. CASE p \in K /\ q \in N BY <1>14, <3>1, <4>3
      <4>4. CASE p \in N /\ q \in K BY <1>14, <3>1, <4>4
      <4>5. QED BY <4>1, <4>2, <4>3, <4>4
    <3>2. QED BY <3>1
  <2>4. QED BY <1>1, <2>1, <2>2, <2>3 DEF Rows
<1>17. \A q \in programs' : q.id \notin touched => Ct!Settled(q, cards)
  BY <1>1, <1>6, <1>7
<1>18. QED BY <1>16, <1>17 DEF cards

\* The office changes neither the number nor the source of a row.
LEMMA OfficeEdits ==
    ASSUME CatalogInv, NEW p \in programs, NEW price \in {0, 1}, NEW state \in {"draft", "published"},
           Ct!Delete(p) \/ Ct!Edit(p, price, state)
    PROVE  CatalogInv'
<1> DEFINE e == [p EXCEPT !.price = price, !.status = state]
<1>1. /\ programs' \subseteq (programs \ {p}) \cup {e} /\ touched' = touched \cup {p.id}
      /\ UNCHANGED <<listed, sync, locked>>
  BY DEF Ct!Delete, Ct!Edit
<1>2. p \in ProgramRow /\ IsFiniteSet(programs)
  BY DEF CatalogInv, Rows
<1>3. e \in ProgramRow /\ e.id = p.id /\ e.hse = p.hse
  <2>1. price \in Nat /\ state \in {"draft", "published", "archived"}
    OBVIOUS
  <2>2. p.id \in Nat /\ p.hse \in Nat /\ p.title \in {c.title : c \in Card}
    BY <1>2 DEF ProgramRow
  <2>3. e = [id |-> p.id, hse |-> p.hse, title |-> p.title, price |-> price, status |-> state]
    <3>1. p = [id |-> p.id, hse |-> p.hse, title |-> p.title, price |-> p.price, status |-> p.status]
      BY <1>2 DEF ProgramRow
    <3>2. PICK m : m = [id |-> p.id, hse |-> p.hse, title |-> p.title, price |-> price, status |-> p.status]
      OBVIOUS
    <3>3. m = [p EXCEPT !.price = price]
      BY <3>1, <3>2
    <3>4. e = [m EXCEPT !.status = state]
      BY <3>3
    <3> HIDE DEF e
    <3>5. QED BY <3>2, <3>4
  <2> HIDE DEF e
  <2>4. QED BY <2>1, <2>2, <2>3 DEF ProgramRow
<1> HIDE DEF e
<1>4. IsFiniteSet(programs')
  <2>1. IsFiniteSet((programs \ {p}) \cup {e})
    BY <1>2, FS_RemoveElement, FS_AddElement
  <2>2. QED BY <1>1, <2>1, FS_Subset
<1>5. Rows(programs')
  BY <1>1, <1>3, <1>4 DEF CatalogInv, Rows
<1>6. ASSUME NEW s \in Sync, Reads(s)
      PROVE  Reads(s)'
  <2>1. ASSUME NEW q \in programs'
        PROVE  \E r \in sync[s].rows : r.id = q.id /\ r.hse = q.hse /\ (q.id \notin touched' => r = q)
    <3>1. CASE q \in programs \ {p}
      BY <1>1, <1>6, <3>1 DEF Reads
    <3>2. CASE q = e
      BY <1>1, <1>3, <1>6, <3>2 DEF Reads
    <3>3. QED BY <1>1, <3>1, <3>2
  <2>2. QED BY <1>1, <1>6, <2>1 DEF Reads
<1>7. QED BY <1>1, <1>5, <1>6 DEF CatalogInv

\* A run goes on or ends; another run that applies its plan is not disturbed.
LEMMA RunGoesOn ==
    ASSUME CatalogInv, NEW s \in Sync, NEW r \in Run, sync' = [sync EXCEPT ![s] = r],
           r.step # "apply", locked' = IF locked = s THEN "none" ELSE locked,
           UNCHANGED <<listed, programs, touched>>
    PROVE  CatalogInv'
<1>1. sync' \in [Sync -> Run] /\ sync'[s] = r /\ \A o \in Sync : o # s => sync'[o] = sync[o]
  BY DEF CatalogInv
<1>2. ASSUME NEW o \in Sync, sync'[o].step = "apply"
      PROVE  locked' = o /\ Reads(o)'
  <2>1. o # s /\ sync[o].step = "apply" /\ sync'[o] = sync[o]
    BY <1>1, <1>2
  <2>2. locked = o /\ Reads(o)
    BY <2>1 DEF CatalogInv
  <2>3. QED BY <2>1, <2>2 DEF Reads
<1>3. QED BY <1>1, <1>2 DEF CatalogInv

\* At first there are no programs, and no run is under way.
LEMMA CatalogInitially == Ct!InitCatalog => CatalogInv
<1> SUFFICES ASSUME Ct!InitCatalog
             PROVE  CatalogInv
  OBVIOUS
<1>1. Rows(programs)
  BY FS_EmptySet DEF Ct!InitCatalog, Rows
<1>2. listed.actual \in Lists /\ listed.all \in Lists
  BY ListingsAreLists DEF Ct!InitCatalog
<1>3. sync \in [Sync -> Run] /\ \A s \in Sync : sync[s].step = "idle"
  BY ListingsAreLists DEF Ct!InitCatalog
<1>4. QED BY <1>1, <1>2, <1>3 DEF CatalogInv

\* Each step of a run, the office and the source keeps one row for each card.
LEMMA CatalogStep == CatalogInv /\ [Ct!NextCatalog]_(Ct!catalogVars) => CatalogInv'
<1> SUFFICES ASSUME CatalogInv, [Ct!NextCatalog]_(Ct!catalogVars)
             PROVE  CatalogInv'
  OBVIOUS
<1>1. ASSUME NEW s \in Sync, Ct!CollectActual(s)
      PROVE  CatalogInv'
  <2> DEFINE r == [Ct!Idle EXCEPT !.step = "all", !.actual = listed.actual]
  <2>1. r \in Run /\ r.step = "all"
    BY ListingsAreLists DEF CatalogInv, Run, Ct!Idle
  <2>2. sync' = [sync EXCEPT ![s] = r] /\ UNCHANGED <<listed, programs, locked, touched>>
    BY <1>1 DEF Ct!CollectActual
  <2>3. locked # s \/ locked' = locked
    BY <2>2
  <2> HIDE DEF r
  <2>4. sync' \in [Sync -> Run] /\ sync'[s] = r /\ \A o \in Sync : o # s => sync'[o] = sync[o]
    BY <2>1, <2>2 DEF CatalogInv
  <2>5. QED BY <2>1, <2>2, <2>4 DEF CatalogInv, Reads
<1>2. ASSUME NEW s \in Sync, Ct!CollectAll(s)
      PROVE  CatalogInv'
  <2> DEFINE r == IF Ct!Complete(s) THEN [sync[s] EXCEPT !.step = "lock", !.all = listed.all] ELSE Ct!Idle
  <2>1. r \in Run /\ r.step # "apply"
    BY ListingsAreLists DEF CatalogInv, Run
  <2>2. sync' = [sync EXCEPT ![s] = r] /\ UNCHANGED <<listed, programs, locked, touched>>
    BY <1>2 DEF Ct!CollectAll
  <2> HIDE DEF r
  <2>3. sync' \in [Sync -> Run] /\ sync'[s] = r /\ \A o \in Sync : o # s => sync'[o] = sync[o]
    BY <2>1, <2>2 DEF CatalogInv
  <2>4. QED BY <2>1, <2>2, <2>3 DEF CatalogInv, Reads
<1>3. ASSUME NEW s \in Sync, Ct!Read(s)
      PROVE  CatalogInv'
  <2> DEFINE r == [sync[s] EXCEPT !.step = "apply", !.rows = programs]
  <2>1. /\ sync' = [sync EXCEPT ![s] = r] /\ locked = "none" /\ locked' = s
        /\ UNCHANGED <<listed, programs>>
    BY <1>3 DEF Ct!Read, Ct!Free, Ct!NoSync, CatalogInv
  <2>2. r \in Run /\ r.rows = programs /\ Rows(programs)
    BY DEF CatalogInv, Run, Rows
  <2> HIDE DEF r
  <2>3. sync' \in [Sync -> Run] /\ sync'[s] = r /\ \A o \in Sync : o # s => sync'[o] = sync[o]
    BY <2>1, <2>2 DEF CatalogInv
  <2>4. \A o \in Sync : o # s => sync'[o].step # "apply"
    BY <2>1, <2>3, CardsNumbered DEF CatalogInv
  <2>5. Reads(s)'
    BY <2>1, <2>2, <2>3 DEF Reads, Rows
  <2>6. QED BY <2>1, <2>2, <2>3, <2>4, <2>5 DEF CatalogInv
<1>4. ASSUME NEW s \in Sync, Ct!Apply(s)
      PROVE  CatalogInv'
  <2>1. Rows(programs')
    BY <1>4, ProgramsSettled
  <2>2. sync' = [sync EXCEPT ![s] = Ct!Idle] /\ UNCHANGED listed /\ locked = s
    BY <1>4 DEF Ct!Apply, CatalogInv
  <2>3. sync' \in [Sync -> Run] /\ \A o \in Sync : sync'[o].step # "apply"
    BY <2>2, ListingsAreLists DEF CatalogInv
  <2>4. QED BY <2>1, <2>2, <2>3 DEF CatalogInv
<1>5. ASSUME NEW s \in Sync, Ct!Fails(s)
      PROVE  CatalogInv'
  BY <1>5, ListingsAreLists, RunGoesOn DEF Ct!Fails, Ct!NoSync
<1>6. ASSUME NEW all \in Ct!Listings, NEW actual \in {all, <<>>}, Ct!Publish(actual, all)
      PROVE  CatalogInv'
  <2>1. listed'.actual \in Lists /\ listed'.all \in Lists /\ UNCHANGED <<programs, sync, locked, touched>>
    BY <1>6, ListingsAreLists DEF Ct!Publish
  <2>2. QED BY <2>1 DEF CatalogInv, Reads
<1>7. CASE UNCHANGED Ct!catalogVars
  BY <1>7 DEF Ct!catalogVars, CatalogInv, Reads
<1>8. QED BY <1>1, <1>2, <1>3, <1>4, <1>5, <1>6, <1>7, OfficeEdits DEF Ct!NextCatalog

\* However synchronisations overlap and the office edits, no two programs stand
\* for one card, and a run leaves what the office did not touch as the source
\* says (plan_sync and sync_catalog of sync.py).
THEOREM CatalogKept == ClubSpec => CatalogFollowsSource
<1>1. CatalogInv => \A p, q \in programs : p.hse = q.hse /\ p.hse # 0 => p = q
  BY DEF CatalogInv, Rows
<1>2. CatalogInv /\ [Ct!NextCatalog]_(Ct!catalogVars)
      => [\A s \in Sync : Ct!Apply(s) => \A p \in programs' : p.id \notin touched => Ct!Settled(p, sync[s].all)]_(Ct!catalogVars)
  BY ProgramsSettled
<1>3. QED BY <1>1, <1>2, CatalogInitially, CatalogStep, CatalogAlone, PTL
          DEF Ct!CatalogSpec, Ct!CatalogFollowsSource, CatalogFollowsSource

-----------------------------------------------------------------------------
(* Schema: migrations that stop after any statement.                          *)

\* The tables, unique columns and keys of a migration's operations.
TablesOf(ops) == {x.name : x \in Sc!ToSet(ops)}
UniquesOfAll(ops) == UNION {{<<Sc!TableOf(x), c>> : c \in x.unique} : x \in Sc!ToSet(ops)}
KeysOf(ops) == Sc!RefsOf(Sc!ToSet(ops))
Plains(rs) == {Sc!Plain(r) : r \in rs}

\* The statements of migration n before the next one have been executed.
Executed(n) ==
    LET ops == Sc!Operations(n)
        late == Sc!Deferred(ops)
    IN  /\ \A i \in DOMAIN ops : i < at =>
               /\ ops[i].name \in tables
               /\ \A c \in ops[i].unique : <<Sc!TableOf(ops[i]), c>> \in uniques
               /\ Sc!AtOnce(ops[i]) => Plains(Sc!ToSet(ops[i].refs)) \subseteq keys
        /\ \A j \in DOMAIN late : j + Len(ops) < at => Sc!Plain(late[j]) \in keys

\* While 0002 runs, a key is there without its action, with it, or for a moment
\* not at all; the keys that are passed have theirs.
ActionsGiven ==
    LET declared == Sc!RefsOf(Sc!FirstModels)
    IN  /\ keys \subseteq declared \cup Plains(declared)
        /\ \A r \in declared : IF r.act = "PROTECT" THEN r \in keys
                               ELSE r \in keys => Sc!Plain(r) \notin keys
        /\ deploy = "migrating" =>
               \A j \in DOMAIN Sc!ActionKeys : j < at => Sc!Left(Sc!ActionKeys[j])

KeysFollow ==
    LET declared == Sc!RefsOf(Sc!FirstModels)
        polls == Plains(Sc!RefsOf(Sc!PollModels))
    IN  /\ recorded = 0 => keys \subseteq Plains(declared)
        /\ recorded = 1 => ActionsGiven
        /\ recorded \in {2, 3} => keys = declared
        /\ recorded = 4 => declared \subseteq keys /\ keys \subseteq declared \cup polls
        /\ recorded = 5 => keys = declared \cup polls

UniquesFollow ==
    LET declared == Sc!UniquesOf(Sc!FirstModels)
        polls == Sc!UniquesOf(Sc!PollModels)
    IN  /\ recorded = 0 => uniques \subseteq declared
        /\ recorded \in 1..3 => uniques = declared
        /\ recorded = 4 => declared \subseteq uniques /\ uniques \subseteq declared \cup polls
        /\ recorded = 5 => uniques = declared \cup polls

TablesFollow ==
    /\ recorded > 0 => TablesOf(Sc!FirstTables) \subseteq tables
    /\ recorded > 3 => TablesOf(Sc!OwnerColumn) \subseteq tables
    /\ recorded > 4 => TablesOf(Sc!PollTables) \subseteq tables

\* The rights that are given when all tables before the next one have theirs.
RightsTo(n) == {<<t, Sc!Privileges(t)>> : t \in Sc!RoleTargets \cap {Sc!GrantOrder[i].name : i \in {i \in DOMAIN Sc!GrantOrder : i < n}}}

SchemaInv ==
    /\ recorded \in 0..5 /\ at \in Nat \ {0}
    /\ deploy \in {"up", "migrating", "granting", "down"}
    /\ KeysFollow
    /\ UniquesFollow
    /\ TablesFollow
    /\ deploy = "migrating" => \A n \in {1, 4, 5} : recorded + 1 = n => Executed(n)
    /\ deploy = "granting" => recorded = 5 /\ granted = RightsTo(at)
    /\ deploy = "up" /\ recorded = 5 => granted = {<<t, Sc!Privileges(t)>> : t \in Sc!RoleTargets}

-----------------------------------------------------------------------------
(* Sequences of sequences, one after the other.                               *)

\* A set of numbers that is not empty has a least one.
LEMMA SomeLeast ==
    ASSUME NEW n \in Nat, NEW S, S \subseteq 0..n, S # {}
    PROVE  \E m \in S : \A k \in S : m <= k
<1>1. \E R : Orders(R, S) /\ \A k, m \in S : <<m, k>> \in R => m < k
  <2> DEFINE R == {p \in S \X S : p[1] < p[2]}
  <2>1. Orders(R, S) /\ \A k, m \in S : <<m, k>> \in R => m < k
    BY DEF Orders
  <2>2. QED BY <2>1
<1>2. PICK R : Orders(R, S) /\ \A k, m \in S : <<m, k>> \in R => m < k
  BY <1>1
<1>3. PICK m \in S : \A k \in S : k = m \/ <<m, k>> \in R
  <2> DEFINE First(Q, T) == \E m \in T : \A k \in T : k = m \/ <<m, k>> \in Q
  <2>1. \A Q, T : IsFiniteSet(T) /\ T # {} /\ Orders(Q, T) => First(Q, T)
    BY SomeFirst
  <2> HIDE DEF First
  <2>2. IsFiniteSet(0..n)
    BY FS_Interval
  <2>3. First(R, S)
    BY <1>2, <2>1, <2>2, FS_Subset
  <2>4. QED BY <2>3 DEF First
<1>4. ASSUME NEW k \in S
      PROVE  m <= k
  <2>1. m \in Int /\ k \in Int
    OBVIOUS
  <2>2. k = m \/ m < k
    BY <1>2, <1>3
  <2>3. QED BY <2>1, <2>2
<1>5. QED BY <1>4

\* What a sequence holds.
LEMMA Holds ==
    ASSUME NEW S
    PROVE  /\ \A s \in Seq(S) : DOMAIN s = 1..Len(s) /\ Sc!ToSet(s) \subseteq S
           /\ \A s \in Seq(S), t \in Seq(S) : s \o t \in Seq(S) /\ Sc!ToSet(s \o t) = Sc!ToSet(s) \cup Sc!ToSet(t)
<1>1. \A s \in Seq(S) : DOMAIN s = 1..Len(s) /\ Sc!ToSet(s) \subseteq S
  BY DEF Sc!ToSet
<1>2. ASSUME NEW s \in Seq(S), NEW t \in Seq(S)
      PROVE  Sc!ToSet(s \o t) = Sc!ToSet(s) \cup Sc!ToSet(t)
  <2>1. \A i \in 1..Len(t) : i + Len(s) \in DOMAIN (s \o t) /\ (s \o t)[i + Len(s)] = t[i]
    OBVIOUS
  <2>2. \A i \in 1..Len(s) : i \in DOMAIN (s \o t) /\ (s \o t)[i] = s[i]
    OBVIOUS
  <2>3. \A i \in DOMAIN (s \o t) : i \in 1..Len(s) \/ \E j \in 1..Len(t) : i = j + Len(s)
    <3>1. ASSUME NEW i \in DOMAIN (s \o t), i \notin 1..Len(s)
          PROVE  i - Len(s) \in 1..Len(t) /\ i = (i - Len(s)) + Len(s)
      BY <3>1
    <3>2. QED BY <3>1
  <2>4. DOMAIN s = 1..Len(s) /\ DOMAIN t = 1..Len(t)
    OBVIOUS
  <2> DEFINE st == s \o t
  <2> HIDE DEF st
  <2>5. (\A i \in DOMAIN st : i \in 1..Len(s) \/ \E j \in 1..Len(t) : i = j + Len(s))
        /\ (\A i \in 1..Len(s) : i \in DOMAIN st /\ st[i] = s[i])
        /\ (\A i \in 1..Len(t) : i + Len(s) \in DOMAIN st /\ st[i + Len(s)] = t[i])
    BY <2>1, <2>2, <2>3 DEF st
  <2>6. Sc!ToSet(st) = Sc!ToSet(s) \cup Sc!ToSet(t)
    BY <2>4, <2>5 DEF Sc!ToSet
  <2>7. QED BY <2>6 DEF st
<1>3. QED BY <1>1, <1>2

\* What f holds is what the first n sequences hold.
HeldBy(ss, n, f) == \A x : x \in Sc!ToSet(f) <=> \E j \in 1..n : x \in Sc!ToSet(ss[j])

\* The sequences of ss up to the n-th, one after the other.
Joined(ss, n, f) ==
    f = [i \in 1..n |-> IF i = 1 THEN ss[i] ELSE f[i - 1] \o ss[i]]

\* There is such a function for every sequence,
LEMMA JoinedExists ==
    ASSUME NEW ss, NEW n \in Nat
    PROVE  \E f : Joined(ss, n, f)
<1> SUFFICES ASSUME ~ \E f : Joined(ss, n, f)
             PROVE  FALSE
  OBVIOUS
<1> DEFINE S == {k \in 0..n : ~ \E f : Joined(ss, k, f)}
<1>1. PICK m \in S : \A k \in S : m <= k
  <2>1. S # {}
    OBVIOUS
  <2> HIDE DEF S
  <2>2. S \subseteq 0..n
    BY DEF S
  <2>3. QED BY <2>1, <2>2, SomeLeast
<1>2. CASE m = 0
  <2>1. Joined(ss, 0, [i \in 1..0 |-> {}])
    BY DEF Joined
  <2>2. QED BY <1>2, <2>1
<1>3. CASE m # 0
  <2>1. PICK f : Joined(ss, m - 1, f)
    BY <1>1, <1>3
  <2> DEFINE g == [i \in 1..m |-> IF i < m THEN f[i] ELSE IF i = 1 THEN ss[i] ELSE f[i - 1] \o ss[i]]
  <2>2. \A i \in 1..(m - 1) : f[i] = IF i = 1 THEN ss[i] ELSE f[i - 1] \o ss[i]
    BY <2>1 DEF Joined
  <2>3. \A i \in 1..m : g[i] = IF i = 1 THEN ss[i] ELSE g[i - 1] \o ss[i]
    <3>1. \A i \in 1..m : i < m => i \in 1..(m - 1) /\ (i # 1 => i - 1 \in 1..m /\ i - 1 < m)
      OBVIOUS
    <3>2. QED BY <2>2, <3>1
  <2>4. Joined(ss, m, g)
    BY <2>3 DEF Joined
  <2>5. QED BY <2>4
<1>4. QED BY <1>2, <1>3

\* and it holds what the sequences hold.
LEMMA JoinedHolds ==
    ASSUME NEW S, NEW ss \in Seq(Seq(S)), NEW f, Joined(ss, Len(ss), f)
    PROVE  \A i \in 1..Len(ss) : f[i] \in Seq(S) /\ HeldBy(ss, i, f[i])
<1> DEFINE P(i) == f[i] \in Seq(S) /\ HeldBy(ss, i, f[i])
           B == {i \in 1..Len(ss) : ~P(i)}
<1> SUFFICES ASSUME B # {}
             PROVE  FALSE
  OBVIOUS
<1>1. PICK m \in B : \A k \in B : m <= k
  <2> HIDE DEF P
  <2>1. B \subseteq 0..Len(ss) /\ Len(ss) \in Nat
    OBVIOUS
  <2> HIDE DEF B
  <2>2. QED BY <2>1, SomeLeast
<1>2. m \in 1..Len(ss) /\ ss[m] \in Seq(S) /\ ~P(m)
  OBVIOUS
<1>3. f[m] = IF m = 1 THEN ss[m] ELSE f[m - 1] \o ss[m]
  BY <1>2 DEF Joined
<1>4. CASE m = 1
  <2>1. 1..1 = {1}
    OBVIOUS
  <2>2. HeldBy(ss, 1, ss[1])
    BY <2>1 DEF HeldBy
  <2>3. QED BY <1>2, <1>3, <1>4, <2>2
<1>5. CASE m # 1
  <2>1. m - 1 \in 1..Len(ss) /\ ~(m <= m - 1)
    BY <1>2, <1>5
  <2>a. m - 1 \notin B
    BY <1>1, <2>1
  <2>2. P(m - 1)
    BY <2>1, <2>a
  <2>3. Sc!ToSet(f[m - 1] \o ss[m]) = Sc!ToSet(f[m - 1]) \cup Sc!ToSet(ss[m]) /\ f[m - 1] \o ss[m] \in Seq(S)
    BY <1>2, <2>2, Holds
  <2>4. \A j : j \in 1..m <=> j \in 1..(m - 1) \/ j = m
    BY <1>2, <1>5
  <2>5. f[m] = f[m - 1] \o ss[m]
    BY <1>3, <1>5
  <2>6. \A x : x \in Sc!ToSet(f[m]) <=> x \in Sc!ToSet(f[m - 1]) \/ x \in Sc!ToSet(ss[m])
    BY <2>3, <2>5
  <2>7. HeldBy(ss, m - 1, f[m - 1])
    BY <2>2
  <2>8. HeldBy(ss, m, f[m])
    BY <2>4, <2>6, <2>7, Zenon DEF HeldBy
  <2>9. QED BY <1>2, <2>3, <2>5, <2>8
<1>6. QED BY <1>4, <1>5

\* A flattened sequence holds what its sequences hold.
LEMMA FlattenHolds ==
    ASSUME NEW S, NEW ss \in Seq(Seq(S))
    PROVE  /\ Sc!FlattenSeq(ss) \in Seq(S)
           /\ \A x : x \in Sc!ToSet(Sc!FlattenSeq(ss)) <=> \E i \in DOMAIN ss : x \in Sc!ToSet(ss[i])
<1> DEFINE n == Len(ss)
           f == CHOOSE f : f = [i \in 1..n |-> IF i = 1 THEN ss[i] ELSE f[i - 1] \o ss[i]]
<1>1. CASE n = 0
  <2>1. ss = <<>> /\ Sc!FlattenSeq(ss) = ss
    BY <1>1 DEF Sc!FlattenSeq
  <2>2. <<>> \in Seq(S) /\ DOMAIN <<>> = {}
    OBVIOUS
  <2>3. Sc!ToSet(<<>>) = {} /\ DOMAIN ss = {}
    BY <2>1, <2>2 DEF Sc!ToSet
  <2>4. QED BY <2>1, <2>2, <2>3
<1>2. CASE n # 0
  <2>1. Sc!FlattenSeq(ss) = f[n]
    BY <1>2 DEF Sc!FlattenSeq
  <2>2. Joined(ss, n, f)
    <3>1. \E g : g = [i \in 1..n |-> IF i = 1 THEN ss[i] ELSE g[i - 1] \o ss[i]]
      <4>1. n \in Nat
        OBVIOUS
      <4>2. QED BY <4>1, JoinedExists, Zenon DEF Joined
    <3>2. QED BY <3>1, Zenon DEF Joined
  <2> HIDE DEF f
  <2>3. n \in 1..n
    BY <1>2
  <2>4. f[n] \in Seq(S) /\ HeldBy(ss, n, f[n])
    BY <2>2, <2>3, JoinedHolds
  <2>5. DOMAIN ss = 1..n
    OBVIOUS
  <2>6. QED BY <2>1, <2>4, <2>5 DEF HeldBy
<1>3. QED BY <1>1, <1>2

-----------------------------------------------------------------------------
(* What the migrations create is what the models declare.                     *)

\* A table is made of what New is given.
LEMMA NewHas ==
    \A t, u, rs : Sc!New(t, u, rs).name = t /\ Sc!New(t, u, rs).unique = u /\ Sc!New(t, u, rs).refs = rs
BY DEF Sc!New

\* A list that is written out is a sequence of what it holds.
IsList(s) == s \in Seq(Sc!ToSet(s))
LEMMA WrittenOut ==
    /\ Sc!ToSet(<<>>) = {} /\ IsList(<<>>)
    /\ \A a : Sc!ToSet(<<a>>) = {a} /\ IsList(<<a>>)
    /\ \A a, b : Sc!ToSet(<<a, b>>) = {a, b} /\ IsList(<<a, b>>)
    /\ \A a, b, c : Sc!ToSet(<<a, b, c>>) = {a, b, c} /\ IsList(<<a, b, c>>)
    /\ \A a, b, c, d : Sc!ToSet(<<a, b, c, d>>) = {a, b, c, d} /\ IsList(<<a, b, c, d>>)
    /\ \A a, b, c, d, e : Sc!ToSet(<<a, b, c, d, e>>) = {a, b, c, d, e} /\ IsList(<<a, b, c, d, e>>)
    /\ \A a, b, c, d, e, f : Sc!ToSet(<<a, b, c, d, e, f>>) = {a, b, c, d, e, f} /\ IsList(<<a, b, c, d, e, f>>)
<1>1. /\ 1..6 = {1, 2, 3, 4, 5, 6} /\ 1..5 = {1, 2, 3, 4, 5} /\ 1..4 = {1, 2, 3, 4}
      /\ 1..3 = {1, 2, 3} /\ 1..2 = {1, 2} /\ 1..1 = {1} /\ DOMAIN <<>> = {}
  OBVIOUS
<1>2. QED BY <1>1 DEF Sc!ToSet, IsList

\* Two lists that follow each other are one.
LEMMA ListsJoin ==
    \A s, t : IsList(s) /\ IsList(t) => IsList(s \o t) /\ Sc!ToSet(s \o t) = Sc!ToSet(s) \cup Sc!ToSet(t)
<1>1. ASSUME NEW s, NEW t, IsList(s), IsList(t)
      PROVE  IsList(s \o t) /\ Sc!ToSet(s \o t) = Sc!ToSet(s) \cup Sc!ToSet(t)
  <2> DEFINE S == Sc!ToSet(s) \cup Sc!ToSet(t)
  <2>1. s \in Seq(S) /\ t \in Seq(S)
    BY <1>1 DEF IsList
  <2> HIDE DEF S
  <2>2. s \o t \in Seq(S) /\ Sc!ToSet(s \o t) = Sc!ToSet(s) \cup Sc!ToSet(t)
    BY <2>1, Holds
  <2>3. QED BY <2>2 DEF S, IsList
<1>2. QED BY <1>1

\* A list of tables whose keys are lists too.
Ordered(ops) == IsList(ops) /\ \A x \in Sc!ToSet(ops) : IsList(x.refs)

\* The keys of the models, each with its columns, table and action.
LEMMA KeysListed ==
    /\ Sc!RefsOf(Sc!FirstModels) =
           {Sc!Ref("alumni", "user_id", "directus_users", "SET_NULL"),
            Sc!Ref("alumni", "referred_by", "alumni", "SET_NULL"),
            Sc!Ref("alumni_achievements", "alumni_id", "alumni", "CASCADE"),
            Sc!Ref("alumni_achievements", "achievement_id", "achievements", "CASCADE"),
            Sc!Ref("alumni_friends", "alumni_id", "alumni", "CASCADE"),
            Sc!Ref("alumni_friends", "friend_id", "alumni", "CASCADE"),
            Sc!Ref("carts", "alumni_id", "alumni", "SET_NULL"),
            Sc!Ref("club_checkout_commits", "order_id", "orders", "CASCADE"),
            Sc!Ref("club_news_inbox", "news_id", "news", "SET_NULL"),
            Sc!Ref("club_social_membership", "alumni_id", "alumni", "CASCADE"),
            Sc!Ref("club_social_reactions", "alumni_id", "alumni", "CASCADE"),
            Sc!Ref("club_staff_sessions", "user_id", "directus_users", "CASCADE"),
            Sc!Ref("club_telegram_links", "alumni_id", "alumni", "CASCADE"),
            Sc!Ref("directus_files", "uploaded_by", "directus_users", "PROTECT"),
            Sc!Ref("directus_files", "modified_by", "directus_users", "PROTECT"),
            Sc!Ref("directus_roles", "parent", "directus_roles", "PROTECT"),
            Sc!Ref("directus_users", "role", "directus_roles", "SET_NULL"),
            Sc!Ref("event_rsvps", "event_id", "events", "CASCADE"),
            Sc!Ref("event_rsvps", "alumni_id", "alumni", "CASCADE"),
            Sc!Ref("offers", "alumni_id", "alumni", "CASCADE"),
            Sc!Ref("orders", "alumni_id", "alumni", "SET_NULL"),
            Sc!Ref("pages_blocks", "pages_id", "pages", "CASCADE"),
            Sc!Ref("podcast_plays", "podcast_id", "podcasts", "CASCADE"),
            Sc!Ref("podcast_plays", "alumni_id", "alumni", "SET_NULL"),
            Sc!Ref("points_ledger", "alumni_id", "alumni", "CASCADE"),
            Sc!Ref("push_subs", "alumni_id", "alumni", "CASCADE"),
            Sc!Ref("referrals", "referrer_id", "alumni", "CASCADE"),
            Sc!Ref("referrals", "invited_user_id", "directus_users", "SET_NULL")}
    /\ Sc!RefsOf(Sc!PollModels) =
           {Sc!Ref("club_poll_votes", "poll_id", "club_polls", "CASCADE"),
            Sc!Ref("club_poll_votes", "alumni_id", "alumni", "CASCADE")}
BY WrittenOut, NewHas DEF Sc!RefsOf, Sc!FirstModels, Sc!MemberModels, Sc!ClubModels,
   Sc!ServiceModels, Sc!OfficeModels, Sc!ContentModels, Sc!LedgerModels, Sc!PollModels

\* The tables of 0001 have the keys and unique columns of the models, but for the
\* polls, and they are all tables but for the mail's later column.
LEMMA FirstTablesMatch ==
    /\ Ordered(Sc!FirstTables)
    /\ KeysOf(Sc!FirstTables) = Sc!RefsOf(Sc!FirstModels)
    /\ UniquesOfAll(Sc!FirstTables) = Sc!UniquesOf(Sc!FirstModels)
    /\ {x.name : x \in Sc!FirstModels} \subseteq TablesOf(Sc!FirstTables) \cup TablesOf(Sc!OwnerColumn)
<1>1. /\ Ordered(Sc!MemberTables)
      /\ TablesOf(Sc!MemberTables) = {"achievements", "alumni", "block_cta", "block_hero"}
      /\ UniquesOfAll(Sc!MemberTables) = {<<"achievements", "key">>, <<"alumni", "referral_code">>,
            <<"alumni", "telegram_id">>}
      /\ KeysOf(Sc!MemberTables) = {Sc!Ref("alumni", "referred_by", "alumni", "SET_NULL")}
  BY WrittenOut, NewHas DEF Ordered, TablesOf, UniquesOfAll, Sc!TableOf, Sc!LaterColumns,
        KeysOf, Sc!RefsOf, Sc!MemberTables
<1>2. /\ Ordered(Sc!SiteTables)
      /\ TablesOf(Sc!SiteTables) = {"events", "levels", "news", "club_news_source_runs", "pages", "club_page_views"}
      /\ UniquesOfAll(Sc!SiteTables) = {<<"levels", "key">>, <<"news", "slug">>, <<"pages", "slug">>}
      /\ KeysOf(Sc!SiteTables) = {}
  BY WrittenOut, NewHas DEF Ordered, TablesOf, UniquesOfAll, Sc!TableOf, Sc!LaterColumns,
        KeysOf, Sc!RefsOf, Sc!SiteTables
<1>3. /\ Ordered(Sc!ShopTables)
      /\ TablesOf(Sc!ShopTables) = {"podcasts", "point_rules", "products", "programs", "club_settings"}
      /\ UniquesOfAll(Sc!ShopTables) = {<<"point_rules", "reason">>, <<"products", "slug">>, <<"programs", "slug">>}
      /\ KeysOf(Sc!ShopTables) = {}
  BY WrittenOut, NewHas DEF Ordered, TablesOf, UniquesOfAll, Sc!TableOf, Sc!LaterColumns,
        KeysOf, Sc!RefsOf, Sc!ShopTables
<1>4. /\ Ordered(Sc!FriendTables)
      /\ TablesOf(Sc!FriendTables) = {"directus_users", "timeline_items", "club_social_membership", "alumni_friends"}
      /\ UniquesOfAll(Sc!FriendTables) = {<<"directus_users", "email">>, <<"directus_users", "token">>,
            <<"directus_users", "external_identifier">>}
      /\ KeysOf(Sc!FriendTables) = {Sc!Ref("club_social_membership", "alumni_id", "alumni", "CASCADE"),
            Sc!Ref("alumni_friends", "alumni_id", "alumni", "CASCADE"),
            Sc!Ref("alumni_friends", "friend_id", "alumni", "CASCADE")}
  BY WrittenOut, NewHas DEF Ordered, TablesOf, UniquesOfAll, Sc!TableOf, Sc!LaterColumns,
        KeysOf, Sc!RefsOf, Sc!FriendTables
<1>5. /\ Ordered(Sc!LogTables)
      /\ TablesOf(Sc!LogTables) = {"alumni_achievements", "audit_log", "club_auth_revocations", "club_faq_events"}
      /\ UniquesOfAll(Sc!LogTables) = {}
      /\ KeysOf(Sc!LogTables) = {Sc!Ref("alumni_achievements", "achievement_id", "achievements", "CASCADE"),
            Sc!Ref("alumni_achievements", "alumni_id", "alumni", "CASCADE")}
  BY WrittenOut, NewHas DEF Ordered, TablesOf, UniquesOfAll, Sc!TableOf, Sc!LaterColumns,
        KeysOf, Sc!RefsOf, Sc!LogTables
<1>6. /\ Ordered(Sc!OrderTables)
      /\ TablesOf(Sc!OrderTables) = {"club_mail_outbox", "offers", "orders"}
      /\ UniquesOfAll(Sc!OrderTables) = {<<"orders", "number">>}
      /\ KeysOf(Sc!OrderTables) = {Sc!Ref("offers", "alumni_id", "alumni", "CASCADE"),
            Sc!Ref("orders", "alumni_id", "alumni", "SET_NULL")}
  BY WrittenOut, NewHas DEF Ordered, TablesOf, UniquesOfAll, Sc!TableOf, Sc!LaterColumns,
        KeysOf, Sc!RefsOf, Sc!OrderTables
<1>7. /\ Ordered(Sc!LedgerTables)
      /\ TablesOf(Sc!LedgerTables) = {"club_checkout_commits", "pages_blocks", "podcast_plays", "points_ledger"}
      /\ UniquesOfAll(Sc!LedgerTables) = {<<"club_checkout_commits", "order_id">>, <<"points_ledger", "idempotency_key">>}
      /\ KeysOf(Sc!LedgerTables) = {Sc!Ref("club_checkout_commits", "order_id", "orders", "CASCADE"),
            Sc!Ref("pages_blocks", "pages_id", "pages", "CASCADE"),
            Sc!Ref("podcast_plays", "alumni_id", "alumni", "SET_NULL"),
            Sc!Ref("podcast_plays", "podcast_id", "podcasts", "CASCADE"),
            Sc!Ref("points_ledger", "alumni_id", "alumni", "CASCADE")}
  BY WrittenOut, NewHas DEF Ordered, TablesOf, UniquesOfAll, Sc!TableOf, Sc!LaterColumns,
        KeysOf, Sc!RefsOf, Sc!LedgerTables
<1>8. /\ Ordered(Sc!SessionTables)
      /\ TablesOf(Sc!SessionTables) = {"push_subs", "club_social_reactions", "club_staff_sessions", "referrals"}
      /\ UniquesOfAll(Sc!SessionTables) = {}
      /\ KeysOf(Sc!SessionTables) = {Sc!Ref("push_subs", "alumni_id", "alumni", "CASCADE"),
            Sc!Ref("club_social_reactions", "alumni_id", "alumni", "CASCADE"),
            Sc!Ref("club_staff_sessions", "user_id", "directus_users", "CASCADE"),
            Sc!Ref("referrals", "referrer_id", "alumni", "CASCADE"),
            Sc!Ref("referrals", "invited_user_id", "directus_users", "SET_NULL")}
  BY WrittenOut, NewHas DEF Ordered, TablesOf, UniquesOfAll, Sc!TableOf, Sc!LaterColumns,
        KeysOf, Sc!RefsOf, Sc!SessionTables
<1>9. /\ Ordered(Sc!FileTables)
      /\ TablesOf(Sc!FileTables) = {"directus_files", "alumni.user_id", "club_support_tickets"}
      /\ UniquesOfAll(Sc!FileTables) = {<<"alumni", "user_id">>}
      /\ KeysOf(Sc!FileTables) = {Sc!Ref("directus_files", "modified_by", "directus_users", "PROTECT"),
            Sc!Ref("directus_files", "uploaded_by", "directus_users", "PROTECT"),
            Sc!Ref("alumni", "user_id", "directus_users", "SET_NULL")}
  BY WrittenOut, NewHas DEF Ordered, TablesOf, UniquesOfAll, Sc!TableOf, Sc!LaterColumns,
        KeysOf, Sc!RefsOf, Sc!FileTables
<1>10. /\ Ordered(Sc!RoleTables)
      /\ TablesOf(Sc!RoleTables) = {"directus_roles", "directus_users.role", "club_telegram_links", "carts"}
      /\ UniquesOfAll(Sc!RoleTables) = {<<"club_telegram_links", "token_hash">>}
      /\ KeysOf(Sc!RoleTables) = {Sc!Ref("directus_roles", "parent", "directus_roles", "PROTECT"),
            Sc!Ref("directus_users", "role", "directus_roles", "SET_NULL"),
            Sc!Ref("club_telegram_links", "alumni_id", "alumni", "CASCADE"),
            Sc!Ref("carts", "alumni_id", "alumni", "SET_NULL")}
  BY WrittenOut, NewHas DEF Ordered, TablesOf, UniquesOfAll, Sc!TableOf, Sc!LaterColumns,
        KeysOf, Sc!RefsOf, Sc!RoleTables
<1>11. /\ Ordered(Sc!EventTables)
      /\ TablesOf(Sc!EventTables) = {"event_rsvps", "club_news_inbox"}
      /\ UniquesOfAll(Sc!EventTables) = {<<"event_rsvps", "event_id__alumni_id">>, <<"club_news_inbox", "source_url">>}
      /\ KeysOf(Sc!EventTables) = {Sc!Ref("event_rsvps", "alumni_id", "alumni", "CASCADE"),
            Sc!Ref("event_rsvps", "event_id", "events", "CASCADE"),
            Sc!Ref("club_news_inbox", "news_id", "news", "SET_NULL")}
  BY WrittenOut, NewHas DEF Ordered, TablesOf, UniquesOfAll, Sc!TableOf, Sc!LaterColumns,
        KeysOf, Sc!RefsOf, Sc!EventTables
<1>12. IsList(Sc!FirstTables) /\ Sc!ToSet(Sc!FirstTables) =
             Sc!ToSet(Sc!MemberTables) \cup Sc!ToSet(Sc!SiteTables) \cup Sc!ToSet(Sc!ShopTables) \cup Sc!ToSet(Sc!FriendTables)
             \cup Sc!ToSet(Sc!LogTables) \cup Sc!ToSet(Sc!OrderTables) \cup Sc!ToSet(Sc!LedgerTables) \cup Sc!ToSet(Sc!SessionTables)
             \cup Sc!ToSet(Sc!FileTables) \cup Sc!ToSet(Sc!RoleTables) \cup Sc!ToSet(Sc!EventTables)
  BY <1>1, <1>2, <1>3, <1>4, <1>5, <1>6, <1>7, <1>8, <1>9, <1>10, <1>11, ListsJoin DEF Ordered, Sc!FirstTables
<1>13. Ordered(Sc!FirstTables)
  BY <1>1, <1>2, <1>3, <1>4, <1>5, <1>6, <1>7, <1>8, <1>9, <1>10, <1>11, <1>12 DEF Ordered
<1>14. KeysOf(Sc!FirstTables) = Sc!RefsOf(Sc!FirstModels)
  <2>1. KeysOf(Sc!FirstTables) =
             KeysOf(Sc!MemberTables) \cup KeysOf(Sc!SiteTables) \cup KeysOf(Sc!ShopTables) \cup KeysOf(Sc!FriendTables)
             \cup KeysOf(Sc!LogTables) \cup KeysOf(Sc!OrderTables) \cup KeysOf(Sc!LedgerTables) \cup KeysOf(Sc!SessionTables)
             \cup KeysOf(Sc!FileTables) \cup KeysOf(Sc!RoleTables) \cup KeysOf(Sc!EventTables)
    BY <1>12 DEF KeysOf, Sc!RefsOf
  <2>2. QED BY <1>1, <1>2, <1>3, <1>4, <1>5, <1>6, <1>7, <1>8, <1>9, <1>10, <1>11, <2>1, KeysListed
<1>15. UniquesOfAll(Sc!FirstTables) = Sc!UniquesOf(Sc!FirstModels)
  <2>1. Sc!UniquesOf(Sc!FirstModels) =
          {<<"achievements", "key">>, <<"alumni", "user_id">>, <<"alumni", "referral_code">>,
           <<"alumni", "telegram_id">>, <<"club_checkout_commits", "order_id">>,
           <<"club_news_inbox", "source_url">>, <<"club_telegram_links", "token_hash">>,
           <<"directus_users", "email">>, <<"directus_users", "token">>,
           <<"directus_users", "external_identifier">>,
           <<"event_rsvps", "event_id__alumni_id">>, <<"levels", "key">>, <<"news", "slug">>,
           <<"orders", "number">>, <<"pages", "slug">>, <<"point_rules", "reason">>,
           <<"points_ledger", "idempotency_key">>, <<"products", "slug">>,
           <<"programs", "slug">>}
    BY NewHas DEF Sc!UniquesOf, Sc!FirstModels, Sc!MemberModels, Sc!ClubModels, Sc!ServiceModels,
        Sc!OfficeModels, Sc!ContentModels, Sc!LedgerModels
  <2>2. UniquesOfAll(Sc!FirstTables) =
             UniquesOfAll(Sc!MemberTables) \cup UniquesOfAll(Sc!SiteTables) \cup UniquesOfAll(Sc!ShopTables) \cup UniquesOfAll(Sc!FriendTables)
             \cup UniquesOfAll(Sc!LogTables) \cup UniquesOfAll(Sc!OrderTables) \cup UniquesOfAll(Sc!LedgerTables) \cup UniquesOfAll(Sc!SessionTables)
             \cup UniquesOfAll(Sc!FileTables) \cup UniquesOfAll(Sc!RoleTables) \cup UniquesOfAll(Sc!EventTables)
    BY <1>12 DEF UniquesOfAll
  <2>3. QED BY <1>1, <1>2, <1>3, <1>4, <1>5, <1>6, <1>7, <1>8, <1>9, <1>10, <1>11, <2>1, <2>2
<1>16. {x.name : x \in Sc!FirstModels} \subseteq TablesOf(Sc!FirstTables) \cup TablesOf(Sc!OwnerColumn)
  <2>1. {x.name : x \in Sc!FirstModels} =
          {"achievements", "alumni", "alumni_achievements", "alumni_friends", "audit_log",
           "block_cta", "block_hero", "carts", "club_auth_revocations", "club_checkout_commits",
           "club_faq_events", "club_mail_outbox", "club_mail_outbox.owner_user_id",
           "club_news_inbox", "club_news_source_runs", "club_page_views", "club_settings",
           "club_social_membership", "club_social_reactions", "club_staff_sessions",
           "club_support_tickets", "club_telegram_links", "directus_files", "directus_roles",
           "directus_users", "event_rsvps", "events", "levels", "news", "offers", "orders",
           "pages", "pages_blocks", "podcast_plays", "podcasts", "point_rules", "points_ledger",
           "products", "programs", "push_subs", "referrals", "timeline_items"}
    BY NewHas DEF Sc!FirstModels, Sc!MemberModels, Sc!ClubModels, Sc!ServiceModels, Sc!OfficeModels,
        Sc!ContentModels, Sc!LedgerModels
  <2>2. TablesOf(Sc!FirstTables) =
             TablesOf(Sc!MemberTables) \cup TablesOf(Sc!SiteTables) \cup TablesOf(Sc!ShopTables) \cup TablesOf(Sc!FriendTables)
             \cup TablesOf(Sc!LogTables) \cup TablesOf(Sc!OrderTables) \cup TablesOf(Sc!LedgerTables) \cup TablesOf(Sc!SessionTables)
             \cup TablesOf(Sc!FileTables) \cup TablesOf(Sc!RoleTables) \cup TablesOf(Sc!EventTables)
    BY <1>12 DEF TablesOf
  <2>3. TablesOf(Sc!OwnerColumn) = {"club_mail_outbox.owner_user_id"}
    BY WrittenOut, NewHas DEF TablesOf, Sc!OwnerColumn
  <2>4. QED BY <1>1, <1>2, <1>3, <1>4, <1>5, <1>6, <1>7, <1>8, <1>9, <1>10, <1>11, <2>1, <2>2, <2>3
<1>17. QED BY <1>13, <1>14, <1>15, <1>16

\* So have the later migrations: those of the polls, and a column without any.
LEMMA LaterTablesMatch ==
    /\ Ordered(Sc!OwnerColumn) /\ Ordered(Sc!PollTables)
    /\ UniquesOfAll(Sc!OwnerColumn) = {} /\ KeysOf(Sc!OwnerColumn) = {}
    /\ KeysOf(Sc!PollTables) = Sc!RefsOf(Sc!PollModels)
    /\ UniquesOfAll(Sc!PollTables) = Sc!UniquesOf(Sc!PollModels)
    /\ TablesOf(Sc!PollTables) = {x.name : x \in Sc!PollModels}
    /\ TablesOf(Sc!OwnerColumn) = {"club_mail_outbox.owner_user_id"}
<1>1. /\ Ordered(Sc!OwnerColumn)
      /\ TablesOf(Sc!OwnerColumn) = {"club_mail_outbox.owner_user_id"}
      /\ UniquesOfAll(Sc!OwnerColumn) = {}
      /\ KeysOf(Sc!OwnerColumn) = {}
  BY WrittenOut, NewHas DEF Ordered, TablesOf, UniquesOfAll, Sc!TableOf, Sc!LaterColumns,
        KeysOf, Sc!RefsOf, Sc!OwnerColumn
<1>3. /\ Ordered(Sc!PollTables)
      /\ TablesOf(Sc!PollTables) = {"club_polls", "club_poll_votes"}
      /\ UniquesOfAll(Sc!PollTables) = {<<"club_poll_votes", "poll_id__alumni_id">>}
      /\ KeysOf(Sc!PollTables) = {Sc!Ref("club_poll_votes", "alumni_id", "alumni", "CASCADE"),
            Sc!Ref("club_poll_votes", "poll_id", "club_polls", "CASCADE")}
  BY WrittenOut, NewHas DEF Ordered, TablesOf, UniquesOfAll, Sc!TableOf, Sc!LaterColumns,
        KeysOf, Sc!RefsOf, Sc!PollTables
<1>4. /\ Sc!RefsOf(Sc!PollModels) = {Sc!Ref("club_poll_votes", "poll_id", "club_polls", "CASCADE"),
            Sc!Ref("club_poll_votes", "alumni_id", "alumni", "CASCADE")}
      /\ Sc!UniquesOf(Sc!PollModels) = {<<"club_poll_votes", "poll_id__alumni_id">>}
      /\ {x.name : x \in Sc!PollModels} = {"club_polls", "club_poll_votes"}
  BY WrittenOut, NewHas DEF Sc!RefsOf, Sc!UniquesOf, Sc!PollModels
<1>5. QED BY <1>1, <1>3, <1>4

-----------------------------------------------------------------------------
(* The statements of a migration.                                             *)

\* The keys left for the end are those of the tables that do not bring theirs,
\* and 0002 goes through all keys of 0001.
LEMMA DeferredRead ==
    /\ \A ops : Ordered(ops) =>
           /\ Sc!Deferred(ops) \in Seq(KeysOf(ops))
           /\ \A i \in DOMAIN ops : ~Sc!AtOnce(ops[i]) => Sc!ToSet(ops[i].refs) \subseteq Sc!ToSet(Sc!Deferred(ops))
    /\ Sc!ActionKeys \in Seq(Sc!RefsOf(Sc!FirstModels))
    /\ Sc!ToSet(Sc!ActionKeys) = Sc!RefsOf(Sc!FirstModels)
<1>1. ASSUME NEW ops, Ordered(ops)
      PROVE  /\ DOMAIN ops = 1..Len(ops) /\ Len(ops) \in Nat
             /\ \A i \in DOMAIN ops : ops[i].refs \in Seq(KeysOf(ops)) /\ Sc!ToSet(ops[i].refs) \subseteq KeysOf(ops)
             /\ \A r \in KeysOf(ops) : \E i \in DOMAIN ops : r \in Sc!ToSet(ops[i].refs)
  <2>1. ops \in Seq(Sc!ToSet(ops)) /\ DOMAIN ops = 1..Len(ops) /\ Len(ops) \in Nat
    BY <1>1 DEF Ordered, IsList
  <2>2. ASSUME NEW i \in DOMAIN ops
        PROVE  ops[i].refs \in Seq(Sc!ToSet(ops[i].refs)) /\ Sc!ToSet(ops[i].refs) \subseteq KeysOf(ops)
    BY <1>1, <2>2 DEF Ordered, IsList, KeysOf, Sc!RefsOf, Sc!ToSet
  <2>3. ASSUME NEW i \in DOMAIN ops
        PROVE  ops[i].refs \in Seq(KeysOf(ops))
    BY <2>2
  <2>4. ASSUME NEW r \in KeysOf(ops)
        PROVE  \E i \in DOMAIN ops : r \in Sc!ToSet(ops[i].refs)
    BY DEF KeysOf, Sc!RefsOf, Sc!ToSet
  <2>5. QED BY <2>1, <2>2, <2>3, <2>4
<1>2. ASSUME NEW ops, Ordered(ops)
      PROVE  /\ Sc!Deferred(ops) \in Seq(KeysOf(ops))
             /\ \A i \in DOMAIN ops : ~Sc!AtOnce(ops[i]) => Sc!ToSet(ops[i].refs) \subseteq Sc!ToSet(Sc!Deferred(ops))
  <2> DEFINE ss == [i \in DOMAIN ops |-> IF Sc!AtOnce(ops[i]) THEN <<>> ELSE ops[i].refs]
  <2>1. ss \in Seq(Seq(KeysOf(ops)))
    <3>1. <<>> \in Seq(KeysOf(ops)) /\ \A i \in DOMAIN ops : ops[i].refs \in Seq(KeysOf(ops))
      BY <1>1, <1>2
    <3>2. \A i \in DOMAIN ops : (IF Sc!AtOnce(ops[i]) THEN <<>> ELSE ops[i].refs) \in Seq(KeysOf(ops))
      BY <3>1
    <3>3. DOMAIN ops = 1..Len(ops) /\ Len(ops) \in Nat
      BY <1>1, <1>2
    <3>4. ss \in [1..Len(ops) -> Seq(KeysOf(ops))]
      BY <3>2, <3>3
    <3> HIDE DEF ss
    <3>5. QED BY <3>3, <3>4
  <2>2. DOMAIN ss = DOMAIN ops /\ \A i \in DOMAIN ops : ~Sc!AtOnce(ops[i]) => ss[i] = ops[i].refs
    OBVIOUS
  <2>3. Sc!Deferred(ops) = Sc!FlattenSeq(ss)
    BY DEF Sc!Deferred
  <2> HIDE DEF ss
  <2>4. /\ Sc!FlattenSeq(ss) \in Seq(KeysOf(ops))
        /\ \A x : x \in Sc!ToSet(Sc!FlattenSeq(ss)) <=> \E i \in DOMAIN ss : x \in Sc!ToSet(ss[i])
    BY <2>1, FlattenHolds
  <2>5. QED BY <2>2, <2>3, <2>4
<1>3. /\ Sc!ActionKeys \in Seq(KeysOf(Sc!FirstTables))
      /\ Sc!ToSet(Sc!ActionKeys) = KeysOf(Sc!FirstTables)
  <2> DEFINE ops == Sc!FirstTables
             ss == [i \in DOMAIN ops |-> ops[i].refs]
  <2>1. Ordered(ops)
    BY FirstTablesMatch
  <2>2. Sc!ActionKeys = Sc!FlattenSeq(ss)
    BY DEF Sc!ActionKeys
  <2> HIDE DEF ops
  <2>3. ss \in Seq(Seq(KeysOf(ops))) /\ DOMAIN ss = DOMAIN ops /\ \A i \in DOMAIN ops : ss[i] = ops[i].refs
    BY <1>1, <2>1
  <2> HIDE DEF ss
  <2>4. /\ Sc!FlattenSeq(ss) \in Seq(KeysOf(ops))
        /\ \A x : x \in Sc!ToSet(Sc!FlattenSeq(ss)) <=> \E i \in DOMAIN ss : x \in Sc!ToSet(ss[i])
    BY <2>3, FlattenHolds
  <2>5. Sc!ToSet(Sc!FlattenSeq(ss)) = KeysOf(ops)
    BY <1>1, <2>1, <2>3, <2>4
  <2>6. QED BY <2>2, <2>4, <2>5 DEF ops
<1>4. QED BY <1>2, <1>3, FirstTablesMatch

\* How many statements there are.
LEMMA StatementsCounted ==
    /\ Sc!Operations(1) = Sc!FirstTables /\ Sc!Operations(4) = Sc!OwnerColumn /\ Sc!Operations(5) = Sc!PollTables
    /\ \A n \in {1, 4, 5} :
           /\ Ordered(Sc!Operations(n))
           /\ Sc!Statements(n) = Len(Sc!Operations(n)) + Len(Sc!Deferred(Sc!Operations(n)))
           /\ Len(Sc!Operations(n)) \in Nat /\ DOMAIN Sc!Operations(n) = 1..Len(Sc!Operations(n))
           /\ Len(Sc!Deferred(Sc!Operations(n))) \in Nat
           /\ DOMAIN Sc!Deferred(Sc!Operations(n)) = 1..Len(Sc!Deferred(Sc!Operations(n)))
    /\ Sc!Statements(2) = Len(Sc!ActionKeys) /\ DOMAIN Sc!ActionKeys = 1..Len(Sc!ActionKeys)
    /\ Sc!Statements(3) = 0
<1>1. Sc!Operations(1) = Sc!FirstTables /\ Sc!Operations(4) = Sc!OwnerColumn /\ Sc!Operations(5) = Sc!PollTables
      /\ Sc!Operations(3) = <<>>
  BY DEF Sc!Operations
<1>2. Sc!Statements(3) = 0
  <2>1. Ordered(<<>>) /\ KeysOf(<<>>) = {}
    BY WrittenOut DEF Ordered, KeysOf, Sc!RefsOf
  <2>2. Sc!Deferred(<<>>) \in Seq({})
    BY <2>1, DeferredRead
  <2>3. Len(Sc!Deferred(<<>>)) = 0
    BY <2>2
  <2>4. QED BY <1>1, <2>3 DEF Sc!Statements
<1>3. ASSUME NEW n \in {1, 4, 5}
      PROVE  /\ Ordered(Sc!Operations(n))
             /\ Sc!Statements(n) = Len(Sc!Operations(n)) + Len(Sc!Deferred(Sc!Operations(n)))
  BY <1>1, FirstTablesMatch, LaterTablesMatch DEF Sc!Statements
<1>4. ASSUME NEW ops, Ordered(ops)
      PROVE  /\ Len(ops) \in Nat /\ DOMAIN ops = 1..Len(ops)
             /\ Len(Sc!Deferred(ops)) \in Nat /\ DOMAIN Sc!Deferred(ops) = 1..Len(Sc!Deferred(ops))
  <2>1. ops \in Seq(Sc!ToSet(ops)) /\ Sc!Deferred(ops) \in Seq(KeysOf(ops))
    BY <1>4, DeferredRead DEF Ordered, IsList
  <2>2. QED BY <2>1
<1>5. Sc!Statements(2) = Len(Sc!ActionKeys) /\ DOMAIN Sc!ActionKeys = 1..Len(Sc!ActionKeys)
  BY DeferredRead DEF Sc!Statements
<1>6. QED BY <1>1, <1>2, <1>3, <1>4, <1>5

\* Nothing comes before a first statement.
LEMMA NoneBefore ==
    /\ \A n \in {1, 4, 5} :
           /\ \A i \in DOMAIN Sc!Operations(n) : ~(i < 1)
           /\ \A j \in DOMAIN Sc!Deferred(Sc!Operations(n)) : ~(j + Len(Sc!Operations(n)) < 1)
    /\ \A j \in DOMAIN Sc!ActionKeys : ~(j < 1)
<1>1. ASSUME NEW n \in {1, 4, 5}
      PROVE  /\ \A i \in DOMAIN Sc!Operations(n) : ~(i < 1)
             /\ \A j \in DOMAIN Sc!Deferred(Sc!Operations(n)) : ~(j + Len(Sc!Operations(n)) < 1)
  <2> DEFINE ops == Sc!Operations(n)
             late == Sc!Deferred(ops)
  <2>1. /\ Len(ops) \in Nat /\ DOMAIN ops = 1..Len(ops)
        /\ Len(late) \in Nat /\ DOMAIN late = 1..Len(late)
    BY StatementsCounted
  <2> HIDE DEF ops, late
  <2>2. /\ \A i \in DOMAIN ops : ~(i < 1)
        /\ \A j \in DOMAIN late : ~(j + Len(ops) < 1)
    BY <2>1
  <2>3. QED BY <2>2 DEF ops, late
<1>2. \A j \in DOMAIN Sc!ActionKeys : ~(j < 1)
  <2>1. DOMAIN Sc!ActionKeys = 1..Len(Sc!ActionKeys) /\ Len(Sc!ActionKeys) \in Nat
    BY StatementsCounted, DeferredRead
  <2>2. QED BY <2>1
<1>3. QED BY <1>1, <1>2

\* After its last statement a migration has created all its tables and their keys.
LEMMA MigrationCreates ==
    ASSUME NEW n \in {1, 4, 5}, at \in Nat, at > Sc!Statements(n), Executed(n)
    PROVE  LET ops == Sc!Operations(n) IN
           TablesOf(ops) \subseteq tables /\ UniquesOfAll(ops) \subseteq uniques /\ Plains(KeysOf(ops)) \subseteq keys
<1> DEFINE ops == Sc!Operations(n)
           late == Sc!Deferred(ops)
<1>1. /\ \A i \in DOMAIN ops :
             /\ ops[i].name \in tables
             /\ \A c \in ops[i].unique : <<Sc!TableOf(ops[i]), c>> \in uniques
             /\ Sc!AtOnce(ops[i]) => Plains(Sc!ToSet(ops[i].refs)) \subseteq keys
      /\ \A j \in DOMAIN late : Sc!Plain(late[j]) \in keys
  <2>1. (\A i \in DOMAIN ops : i < at) /\ (\A j \in DOMAIN late : j + Len(ops) < at)
    <3>1. /\ Sc!Statements(n) = Len(ops) + Len(late)
          /\ Len(ops) \in Nat /\ DOMAIN ops = 1..Len(ops)
          /\ Len(late) \in Nat /\ DOMAIN late = 1..Len(late)
      BY StatementsCounted
    <3> HIDE DEF ops, late
    <3>2. QED BY <3>1
  <2>2. QED BY <2>1 DEF Executed
<1>2. Ordered(ops)
  BY StatementsCounted
<1>3. \A i \in DOMAIN ops : Plains(Sc!ToSet(ops[i].refs)) \subseteq keys
  <2>1. ASSUME NEW i \in DOMAIN ops, ~Sc!AtOnce(ops[i]), NEW r \in Sc!ToSet(ops[i].refs)
        PROVE  Sc!Plain(r) \in keys
    <3>1. r \in Sc!ToSet(late)
      BY <1>2, <2>1, DeferredRead
    <3>2. QED BY <1>1, <3>1 DEF Sc!ToSet
  <2>2. QED BY <1>1, <2>1 DEF Plains
<1> HIDE DEF ops, late
<1>4. TablesOf(ops) \subseteq tables /\ UniquesOfAll(ops) \subseteq uniques
  BY <1>1 DEF TablesOf, UniquesOfAll, Sc!ToSet
<1>5. ASSUME NEW r \in KeysOf(ops)
      PROVE  Sc!Plain(r) \in keys
  <2>1. PICK i \in DOMAIN ops : r \in Sc!ToSet(ops[i].refs)
    BY DEF KeysOf, Sc!RefsOf, Sc!ToSet
  <2>2. QED BY <1>3, <2>1 DEF Plains
<1>6. QED BY <1>4, <1>5 DEF ops, Plains

\* A statement of a migration adds what belongs to it and takes nothing away.
LEMMA MigrationStep ==
    ASSUME NEW n \in {1, 4, 5}, recorded + 1 = n, at \in Nat \ {0}, Executed(n), Sc!Migrate
    PROVE  /\ Executed(n)' /\ at' \in Nat \ {0} /\ UNCHANGED <<recorded, granted, deploy>>
           /\ tables \subseteq tables' /\ uniques \subseteq uniques' /\ keys \subseteq keys'
           /\ uniques' \subseteq uniques \cup UniquesOfAll(Sc!Operations(n))
           /\ keys' \subseteq keys \cup Plains(KeysOf(Sc!Operations(n)))
<1> DEFINE ops == Sc!Operations(n)
           late == Sc!Deferred(ops)
<1>1. /\ Len(ops) \in Nat /\ DOMAIN ops = 1..Len(ops)
      /\ Len(late) \in Nat /\ DOMAIN late = 1..Len(late)
      /\ Sc!Statements(n) = Len(ops) + Len(late)
      /\ Ordered(ops)
  BY StatementsCounted
<1>2. /\ at <= Len(ops) + Len(late)
      /\ \/ at <= Len(ops) /\ Sc!Create(n)
         \/ at > Len(ops) /\ Sc!AddKey(n)
  BY <1>1 DEF Sc!Migrate
<1>3. /\ \A i \in DOMAIN ops : i < at =>
             /\ ops[i].name \in tables
             /\ \A c \in ops[i].unique : <<Sc!TableOf(ops[i]), c>> \in uniques
             /\ Sc!AtOnce(ops[i]) => Plains(Sc!ToSet(ops[i].refs)) \subseteq keys
      /\ \A j \in DOMAIN late : j + Len(ops) < at => Sc!Plain(late[j]) \in keys
  BY DEF Executed
<1>4. /\ Sc!Create(n) =>
             LET x == ops[at] IN
             /\ tables' = tables \cup {x.name}
             /\ uniques' = uniques \cup {<<Sc!TableOf(x), c>> : c \in x.unique}
             /\ keys' = IF Sc!AtOnce(x) THEN keys \cup Plains(Sc!ToSet(x.refs)) ELSE keys
             /\ at' = at + 1 /\ UNCHANGED <<recorded, granted, deploy>>
      /\ Sc!AddKey(n) =>
             /\ keys' = keys \cup {Sc!Plain(late[at - Len(ops)])}
             /\ at' = at + 1 /\ UNCHANGED <<tables, uniques, recorded, granted, deploy>>
  BY DEF Sc!Create, Sc!AddKey, Plains
<1>5. Executed(n)' <=>
      /\ \A i \in DOMAIN ops : i < at' =>
             /\ ops[i].name \in tables'
             /\ \A c \in ops[i].unique : <<Sc!TableOf(ops[i]), c>> \in uniques'
             /\ Sc!AtOnce(ops[i]) => Plains(Sc!ToSet(ops[i].refs)) \subseteq keys'
      /\ \A j \in DOMAIN late : j + Len(ops) < at' => Sc!Plain(late[j]) \in keys'
  BY DEF Executed
<1> HIDE DEF ops, late
<1>6. CASE at <= Len(ops) /\ Sc!Create(n)
  <2> DEFINE x == ops[at]
  <2>1. at \in DOMAIN ops /\ x \in Sc!ToSet(ops)
    BY <1>1, <1>6 DEF Sc!ToSet
  <2>2. /\ tables' = tables \cup {x.name}
        /\ uniques' = uniques \cup {<<Sc!TableOf(x), c>> : c \in x.unique}
        /\ keys' = IF Sc!AtOnce(x) THEN keys \cup Plains(Sc!ToSet(x.refs)) ELSE keys
        /\ at' = at + 1 /\ UNCHANGED <<recorded, granted, deploy>>
    BY <1>4, <1>6
  <2>3. {<<Sc!TableOf(x), c>> : c \in x.unique} \subseteq UniquesOfAll(ops)
    BY <2>1 DEF UniquesOfAll
  <2>4. Plains(Sc!ToSet(x.refs)) \subseteq Plains(KeysOf(ops))
    BY <2>1 DEF Plains, KeysOf, Sc!RefsOf
  <2>5. \A j \in DOMAIN late : ~(j + Len(ops) < at')
    BY <1>1, <1>6, <2>2
  <2>6. ASSUME NEW i \in DOMAIN ops, i < at'
        PROVE  /\ ops[i].name \in tables'
               /\ \A c \in ops[i].unique : <<Sc!TableOf(ops[i]), c>> \in uniques'
               /\ Sc!AtOnce(ops[i]) => Plains(Sc!ToSet(ops[i].refs)) \subseteq keys'
    <3>1. i < at \/ i = at
      BY <1>1, <2>2, <2>6
    <3> HIDE DEF x
    <3>2. CASE i < at
      BY <1>3, <2>2, <3>2
    <3>3. CASE i = at
      BY <2>2, <3>3 DEF x
    <3>4. QED BY <3>1, <3>2, <3>3
  <2>7. Executed(n)'
    BY <1>5, <2>5, <2>6
  <2> HIDE DEF x
  <2>8. QED BY <2>2, <2>3, <2>4, <2>7 DEF ops
<1>7. CASE at > Len(ops) /\ Sc!AddKey(n)
  <2> DEFINE k == at - Len(ops)
  <2>1. k \in DOMAIN late /\ late[k] \in KeysOf(ops)
    <3>1. k \in DOMAIN late
      BY <1>1, <1>2, <1>7
    <3>2. late \in Seq(KeysOf(ops))
      BY <1>1, DeferredRead DEF late
    <3>3. QED BY <3>1, <3>2
  <2>2. /\ keys' = keys \cup {Sc!Plain(late[k])}
        /\ at' = at + 1 /\ UNCHANGED <<tables, uniques, recorded, granted, deploy>>
    BY <1>4, <1>7
  <2>3. ASSUME NEW j \in DOMAIN late, j + Len(ops) < at'
        PROVE  Sc!Plain(late[j]) \in keys'
    <3>1. j + Len(ops) < at \/ j = k
      BY <1>1, <2>2, <2>3
    <3>2. QED BY <1>3, <2>2, <3>1
  <2>4. \A i \in DOMAIN ops : i < at
    BY <1>1, <1>7
  <2>5. Executed(n)'
    BY <1>3, <1>5, <2>2, <2>3, <2>4
  <2>6. Sc!Plain(late[k]) \in Plains(KeysOf(ops))
    BY <2>1 DEF Plains
  <2>7. QED BY <2>2, <2>5, <2>6 DEF ops
<1>8. QED BY <1>2, <1>6, <1>7

-----------------------------------------------------------------------------
(* Keys and their actions.                                                    *)

\* The parts of a key, and the key without its action.
LEMMA RefHas ==
    \A of, col, to, act :
        LET r == Sc!Ref(of, col, to, act) IN
        /\ r.of = of /\ r.col = col /\ r.to = to /\ r.act = act
        /\ Sc!Plain(r) = Sc!Ref(of, col, to, "PROTECT")
BY DEF Sc!Ref, Sc!Plain

\* The declared keys that protect have columns of their own.
LEMMA KeysRead ==
    /\ Sc!RefsOf(Sc!Declared) = Sc!RefsOf(Sc!FirstModels) \cup Sc!RefsOf(Sc!PollModels)
    /\ \A r \in Sc!RefsOf(Sc!Declared) :
           /\ r = Sc!Ref(r.of, r.col, r.to, r.act)
           /\ r.act = "PROTECT" <=> r.col \in {"uploaded_by", "modified_by", "parent"}
<1>1. Sc!RefsOf(Sc!Declared) = Sc!RefsOf(Sc!FirstModels) \cup Sc!RefsOf(Sc!PollModels)
  BY DEF Sc!RefsOf, Sc!Declared
<1>2. \A r \in Sc!RefsOf(Sc!Declared) : r = Sc!Ref(r.of, r.col, r.to, r.act)
  BY <1>1, KeysListed, RefHas
<1>3. \A r \in Sc!RefsOf(Sc!Declared) : r.act = "PROTECT" <=> r.col \in {"uploaded_by", "modified_by", "parent"}
  BY <1>1, KeysListed, RefHas
<1>4. QED BY <1>1, <1>2, <1>3

\* So no key is declared both with an action and without.
LEMMA PlainKeys ==
    /\ \A r \in Sc!RefsOf(Sc!Declared) :
           /\ Sc!Same(Sc!Plain(r), r)
           /\ Sc!Plain(Sc!Plain(r)) = Sc!Plain(r)
           /\ Sc!Plain(r).to = r.to
           /\ IF r.act = "PROTECT" THEN Sc!Plain(r) = r ELSE Sc!Plain(r) \notin Sc!RefsOf(Sc!Declared)
<1> SUFFICES ASSUME NEW r \in Sc!RefsOf(Sc!Declared)
             PROVE  /\ Sc!Same(Sc!Plain(r), r)
                    /\ Sc!Plain(Sc!Plain(r)) = Sc!Plain(r)
                    /\ Sc!Plain(r).to = r.to
                    /\ IF r.act = "PROTECT" THEN Sc!Plain(r) = r ELSE Sc!Plain(r) \notin Sc!RefsOf(Sc!Declared)
  OBVIOUS
<1>1. r = Sc!Ref(r.of, r.col, r.to, r.act) /\ Sc!Plain(r) = Sc!Ref(r.of, r.col, r.to, "PROTECT")
  BY KeysRead, RefHas
<1>2. /\ Sc!Plain(r).of = r.of /\ Sc!Plain(r).col = r.col /\ Sc!Plain(r).to = r.to /\ Sc!Plain(r).act = "PROTECT"
      /\ Sc!Plain(Sc!Plain(r)) = Sc!Plain(r)
  BY <1>1, RefHas
<1>3. ASSUME r.act # "PROTECT", Sc!Plain(r) \in Sc!RefsOf(Sc!Declared)
      PROVE  FALSE
  BY <1>2, <1>3, KeysRead
<1>4. QED BY <1>1, <1>2, <1>3 DEF Sc!Same

\* A statement of 0002 leaves one key without its action fewer, or takes a key
\* away to add it again.
LEMMA ActionStep ==
    ASSUME recorded = 1, deploy = "migrating", at \in Nat \ {0}, ActionsGiven, Sc!Migrate
    PROVE  ActionsGiven' /\ at' \in Nat \ {0} /\ UNCHANGED <<tables, uniques, recorded, granted, deploy>>
<1> DEFINE declared == Sc!RefsOf(Sc!FirstModels)
           r == Sc!ActionKeys[at]
<1>1. at \in DOMAIN Sc!ActionKeys /\ r \in declared
  BY StatementsCounted, DeferredRead DEF Sc!Migrate
<1>2. Sc!ApplyAction(r) /\ UNCHANGED <<tables, uniques, recorded, granted, deploy>>
  BY DEF Sc!Migrate
<1>3. \A s \in declared :
          /\ Sc!Same(Sc!Plain(s), s)
          /\ IF s.act = "PROTECT" THEN Sc!Plain(s) = s ELSE Sc!Plain(s) \notin declared
  BY KeysRead, PlainKeys
<1>4. /\ keys \subseteq declared \cup Plains(declared)
      /\ \A s \in declared : IF s.act = "PROTECT" THEN s \in keys ELSE s \in keys => Sc!Plain(s) \notin keys
      /\ \A j \in DOMAIN Sc!ActionKeys : j < at => Sc!Left(Sc!ActionKeys[j])
  BY DEF ActionsGiven
<1>5. ActionsGiven' <=>
      /\ keys' \subseteq declared \cup Plains(declared)
      /\ \A s \in declared : IF s.act = "PROTECT" THEN s \in keys' ELSE s \in keys' => Sc!Plain(s) \notin keys'
      /\ \A j \in DOMAIN Sc!ActionKeys : j < at' => Sc!ActionKeys[j].act = "PROTECT" \/ Sc!ActionKeys[j] \in keys'
  BY <1>2 DEF ActionsGiven, Sc!Left
<1>6. \A j \in DOMAIN Sc!ActionKeys : j \in Nat /\ Sc!ActionKeys[j] \in declared
  BY StatementsCounted, DeferredRead
<1> HIDE DEF declared, r
<1>7. CASE Sc!Left(r) /\ at' = at + 1 /\ UNCHANGED keys
  <2>1. \A j \in DOMAIN Sc!ActionKeys : j < at' => j < at \/ Sc!ActionKeys[j] = r
    BY <1>6, <1>7 DEF r
  <2>2. QED BY <1>2, <1>4, <1>5, <1>7, <2>1 DEF Sc!Left
<1>8. CASE ~Sc!Left(r) /\ keys' = keys \ {Sc!Plain(r)} /\ UNCHANGED at
  <2>1. r.act # "PROTECT" /\ Sc!Plain(r) \notin declared
    BY <1>1, <1>3, <1>8 DEF Sc!Left
  <2>2. QED BY <1>2, <1>4, <1>5, <1>6, <1>8, <2>1 DEF Sc!Left
<1>9. CASE ~Sc!Left(r) /\ (\A k \in keys : ~Sc!Same(k, r)) /\ keys' = keys \cup {r} /\ at' = at + 1
  <2>1. r.act # "PROTECT" /\ Sc!Plain(r) \notin declared /\ Sc!Plain(r) \notin keys
    BY <1>1, <1>3, <1>9 DEF Sc!Left
  <2>2. \A j \in DOMAIN Sc!ActionKeys : j < at' => j < at \/ Sc!ActionKeys[j] = r
    BY <1>6, <1>9 DEF r
  <2>3. keys' \subseteq declared \cup Plains(declared)
    BY <1>1, <1>4, <1>9
  <2>4. \A s \in declared : IF s.act = "PROTECT" THEN s \in keys' ELSE s \in keys' => Sc!Plain(s) \notin keys'
    <3> SUFFICES ASSUME NEW s \in declared
                 PROVE  IF s.act = "PROTECT" THEN s \in keys' ELSE s \in keys' => Sc!Plain(s) \notin keys'
      OBVIOUS
    <3>1. s.act # "PROTECT" => Sc!Plain(s) # r
      BY <1>1, <1>3
    <3>2. QED BY <1>4, <1>9, <2>1, <3>1
  <2>5. QED BY <1>2, <1>4, <1>5, <1>9, <2>2, <2>3, <2>4 DEF Sc!Left
<1>10. QED BY <1>2, <1>7, <1>8, <1>9 DEF Sc!ApplyAction

\* When 0002 has passed all keys, they are as declared.
LEMMA ActionsComplete ==
    ASSUME recorded = 1, deploy = "migrating", at \in Nat, at > Sc!Statements(2), ActionsGiven
    PROVE  keys = Sc!RefsOf(Sc!FirstModels)
<1> DEFINE declared == Sc!RefsOf(Sc!FirstModels)
<1>1. \A j \in DOMAIN Sc!ActionKeys : Sc!Left(Sc!ActionKeys[j])
  <2>1. Sc!Statements(2) = Len(Sc!ActionKeys)
    BY StatementsCounted
  <2>2. Sc!ActionKeys \in Seq(declared)
    BY DeferredRead
  <2>3. ASSUME NEW j \in DOMAIN Sc!ActionKeys
        PROVE  j < at
    <3>1. Len(Sc!ActionKeys) \in Nat /\ j \in 1..Len(Sc!ActionKeys)
      BY <2>2, <2>3
    <3>2. QED BY <2>1, <3>1
  <2>4. QED BY <2>3 DEF ActionsGiven
<1>2. \A s \in declared : s.act = "PROTECT" \/ s \in keys
  BY <1>1, DeferredRead DEF Sc!Left, Sc!ToSet
<1>3. declared \subseteq keys
  BY <1>2 DEF ActionsGiven
<1>4. ASSUME NEW k \in keys
      PROVE  k \in declared
  <2>1. k \in declared \/ \E s \in declared : k = Sc!Plain(s)
    BY DEF ActionsGiven, Plains
  <2>2. ASSUME NEW s \in declared, k = Sc!Plain(s)
        PROVE  k \in declared
    <3>1. s.act = "PROTECT"
      BY <1>3, <2>2 DEF ActionsGiven
    <3>2. QED BY <2>2, <3>1, KeysRead, PlainKeys
  <2>3. QED BY <2>1, <2>2
<1>5. QED BY <1>3, <1>4

-----------------------------------------------------------------------------
(* The schema after any interruption.                                         *)

\* An empty database, and one from before the polls.
LEMMA SchemaInitially == Sc!InitSchema => SchemaInv
<1> SUFFICES ASSUME Sc!InitSchema
             PROVE  SchemaInv
  OBVIOUS
<1>1. CASE recorded = 0
  BY <1>1 DEF Sc!InitSchema, SchemaInv, KeysFollow, UniquesFollow, TablesFollow, Executed
<1>2. CASE recorded = 4
  <2>1. /\ at = 1 /\ deploy = "up"
        /\ tables = {x.name : x \in Sc!ToSet(Sc!FirstTables \o Sc!OwnerColumn)}
        /\ uniques = Sc!UniquesOf(Sc!FirstModels)
        /\ keys = Sc!RefsOf(Sc!FirstModels)
    BY <1>2 DEF Sc!InitSchema
  <2>2. TablesOf(Sc!FirstTables) \subseteq tables /\ TablesOf(Sc!OwnerColumn) \subseteq tables
    BY <2>1, FirstTablesMatch, LaterTablesMatch, ListsJoin DEF TablesOf, Ordered
  <2>3. QED BY <1>2, <2>1, <2>2 DEF SchemaInv, KeysFollow, UniquesFollow, TablesFollow
<1>3. QED BY <1>1, <1>2 DEF Sc!InitSchema

\* A statement of a migration leaves the schema as far as it is recorded.
LEMMA MigrateStep == SchemaInv /\ Sc!Migrate => SchemaInv'
<1> SUFFICES ASSUME SchemaInv, Sc!Migrate
             PROVE  SchemaInv'
  OBVIOUS
<1>1. recorded \in 0..5 /\ at \in Nat \ {0} /\ deploy = "migrating" /\ recorded + 1 <= 5
      /\ KeysFollow /\ UniquesFollow /\ TablesFollow
  BY DEF SchemaInv, Sc!Migrate, Sc!Latest
<1>2. CASE recorded = 1
  <2>1. ActionsGiven' /\ at' \in Nat \ {0} /\ UNCHANGED <<tables, uniques, recorded, granted, deploy>>
    BY <1>1, <1>2, ActionStep DEF KeysFollow
  <2>2. KeysFollow'
    BY <1>2, <2>1 DEF KeysFollow
  <2>3. UniquesFollow' /\ TablesFollow'
    BY <1>1, <2>1 DEF UniquesFollow, TablesFollow
  <2>4. QED BY <1>1, <1>2, <2>1, <2>2, <2>3 DEF SchemaInv
<1>3. CASE recorded = 2
  <2>1. ~(at <= Sc!Statements(3))
    BY <1>1, StatementsCounted
  <2>2. QED BY <1>3, <2>1 DEF Sc!Migrate
<1>4. ASSUME NEW n \in {1, 4, 5}, recorded + 1 = n
      PROVE  SchemaInv'
  <2>1. Executed(n)
    BY <1>1, <1>4 DEF SchemaInv
  <2>2. /\ Executed(n)' /\ at' \in Nat \ {0} /\ UNCHANGED <<recorded, granted, deploy>>
        /\ tables \subseteq tables' /\ uniques \subseteq uniques' /\ keys \subseteq keys'
        /\ uniques' \subseteq uniques \cup UniquesOfAll(Sc!Operations(n))
        /\ keys' \subseteq keys \cup Plains(KeysOf(Sc!Operations(n)))
    BY <1>1, <1>4, <2>1, MigrationStep
  <2>3. /\ n = 1 => /\ UniquesOfAll(Sc!Operations(n)) = Sc!UniquesOf(Sc!FirstModels)
                    /\ KeysOf(Sc!Operations(n)) = Sc!RefsOf(Sc!FirstModels)
        /\ n = 4 => UniquesOfAll(Sc!Operations(n)) = {} /\ Plains(KeysOf(Sc!Operations(n))) = {}
        /\ n = 5 => /\ UniquesOfAll(Sc!Operations(n)) = Sc!UniquesOf(Sc!PollModels)
                    /\ KeysOf(Sc!Operations(n)) = Sc!RefsOf(Sc!PollModels)
    BY StatementsCounted, FirstTablesMatch, LaterTablesMatch DEF Plains
  <2>4. KeysFollow'
    BY <1>1, <1>4, <2>2, <2>3 DEF KeysFollow
  <2>5. UniquesFollow'
    BY <1>1, <1>4, <2>2, <2>3 DEF UniquesFollow
  <2>6. TablesFollow'
    BY <1>1, <2>2 DEF TablesFollow
  <2>7. \A m \in {1, 4, 5} : recorded' + 1 = m => Executed(m)'
    BY <1>4, <2>2
  <2>8. QED BY <1>1, <1>4, <2>2, <2>4, <2>5, <2>6, <2>7 DEF SchemaInv
<1>5. QED BY <1>1, <1>2, <1>3, <1>4

\* A migration is recorded when it is complete.
LEMMA RecordStep == SchemaInv /\ Sc!Record => SchemaInv'
<1> SUFFICES ASSUME SchemaInv, Sc!Record
             PROVE  SchemaInv'
  OBVIOUS
<1>1. /\ recorded \in 0..4 /\ at \in Nat \ {0} /\ deploy = "migrating" /\ at > Sc!Statements(recorded + 1)
      /\ KeysFollow /\ UniquesFollow /\ TablesFollow
      /\ recorded' = recorded + 1 /\ at' = 1 /\ UNCHANGED <<tables, uniques, keys, granted, deploy>>
      /\ \A n \in {1, 4, 5} : recorded + 1 = n => Executed(n)
  BY DEF SchemaInv, Sc!Record, Sc!Latest
<1>2. \A n \in {1, 4, 5} : recorded + 1 = n =>
          LET ops == Sc!Operations(n) IN
          TablesOf(ops) \subseteq tables /\ UniquesOfAll(ops) \subseteq uniques /\ Plains(KeysOf(ops)) \subseteq keys
  BY <1>1, MigrationCreates
<1>3. /\ recorded = 0 => /\ TablesOf(Sc!FirstTables) \subseteq tables
                         /\ Sc!UniquesOf(Sc!FirstModels) \subseteq uniques
                         /\ Plains(Sc!RefsOf(Sc!FirstModels)) \subseteq keys
      /\ recorded = 3 => TablesOf(Sc!OwnerColumn) \subseteq tables
      /\ recorded = 4 => /\ TablesOf(Sc!PollTables) \subseteq tables
                         /\ Sc!UniquesOf(Sc!PollModels) \subseteq uniques
                         /\ Plains(Sc!RefsOf(Sc!PollModels)) \subseteq keys
  <2>1. CASE recorded = 0
    BY <1>2, <2>1, StatementsCounted, FirstTablesMatch
  <2>2. CASE recorded = 3
    BY <1>2, <2>2, StatementsCounted
  <2>3. CASE recorded = 4
    BY <1>2, <2>3, StatementsCounted, LaterTablesMatch
  <2>4. QED BY <2>1, <2>2, <2>3
<1>4. TablesFollow' /\ UniquesFollow'
  <2>1. TablesFollow'
    <3>1. /\ recorded = 0 \/ recorded > 0
          /\ recorded > 2 => recorded = 3 \/ recorded > 3
          /\ recorded > 3 => recorded = 4
      BY <1>1
    <3>2. /\ recorded' > 0 => TablesOf(Sc!FirstTables) \subseteq tables
          /\ recorded' > 3 => recorded > 2 /\ TablesOf(Sc!OwnerColumn) \subseteq tables
          /\ recorded' > 4 => recorded > 3 /\ TablesOf(Sc!PollTables) \subseteq tables
      BY <1>1, <1>3, <3>1 DEF TablesFollow
    <3>3. QED BY <1>1, <3>2 DEF TablesFollow
  <2>2. CASE recorded = 0
    BY <2>1, <1>1, <1>3, <2>2 DEF UniquesFollow
  <2>3. CASE recorded \in 1..2
    BY <2>1, <1>1, <2>3 DEF UniquesFollow
  <2>4. CASE recorded = 3
    BY <2>1, <1>1, <2>4 DEF UniquesFollow
  <2>5. CASE recorded = 4
    BY <2>1, <1>1, <1>3, <2>5 DEF UniquesFollow
  <2>6. recorded = 0 \/ recorded \in 1..2 \/ recorded = 3 \/ recorded = 4
    BY <1>1
  <2>7. QED BY <2>2, <2>3, <2>4, <2>5, <2>6
<1>5. \A n \in {1, 4, 5} : Executed(n)'
  BY <1>1, NoneBefore DEF Executed
<1>6. recorded = 0 => ActionsGiven'
  <2> SUFFICES ASSUME recorded = 0
               PROVE  ActionsGiven'
    OBVIOUS
  <2>1. keys = Plains(Sc!RefsOf(Sc!FirstModels))
    BY <1>1, <1>3 DEF KeysFollow
  <2>2. \A r \in Sc!RefsOf(Sc!FirstModels) :
            /\ r.act = "PROTECT" => Sc!Plain(r) = r
            /\ r.act # "PROTECT" => \A s \in Sc!RefsOf(Sc!FirstModels) : r # Sc!Plain(s)
    BY KeysRead, PlainKeys, RefHas
  <2>3. \A j \in DOMAIN Sc!ActionKeys : ~(j < 1)
    BY StatementsCounted, DeferredRead
  <2>4. QED BY <1>1, <2>1, <2>2, <2>3 DEF ActionsGiven, Plains
<1>7. recorded = 1 => keys = Sc!RefsOf(Sc!FirstModels)
  BY <1>1, ActionsComplete DEF KeysFollow
<1>8. KeysFollow'
  BY <1>1, <1>3, <1>6, <1>7 DEF KeysFollow
<1>9. QED BY <1>1, <1>4, <1>5, <1>8 DEF SchemaInv

\* The tables in the order of the rights are a list, and every one that may be
\* worked with is among them.
LEMMA GrantOrderRead ==
    /\ DOMAIN Sc!GrantOrder = 1..Len(Sc!GrantOrder) /\ Len(Sc!GrantOrder) \in Nat
    /\ Sc!RoleTargets \subseteq {Sc!GrantOrder[i].name : i \in DOMAIN Sc!GrantOrder}
<1>1. IsList(Sc!GrantOrder) /\ Sc!ToSet(Sc!GrantOrder) = Sc!ToSet(Sc!FirstTables) \cup Sc!ToSet(Sc!PollTables)
  BY FirstTablesMatch, LaterTablesMatch, ListsJoin DEF Ordered, Sc!GrantOrder
<1>2. DOMAIN Sc!GrantOrder = 1..Len(Sc!GrantOrder) /\ Len(Sc!GrantOrder) \in Nat
  BY <1>1 DEF IsList
<1>3. {x.name : x \in Sc!ToSet(Sc!GrantOrder)} = TablesOf(Sc!FirstTables) \cup TablesOf(Sc!PollTables)
  BY <1>1 DEF TablesOf
<1>4. TablesOf(Sc!OwnerColumn) = {"club_mail_outbox.owner_user_id"}
  BY LaterTablesMatch
<1>5. Sc!RoleTargets \subseteq TablesOf(Sc!FirstTables) \cup TablesOf(Sc!PollTables)
  BY <1>4, FirstTablesMatch, LaterTablesMatch DEF Sc!RoleTargets, Sc!Declared
<1>6. QED BY <1>2, <1>3, <1>5 DEF Sc!ToSet

\* Rights are given table by table.
LEMMA GrantStep == SchemaInv /\ Sc!Grant => SchemaInv'
<1> SUFFICES ASSUME SchemaInv, Sc!Grant
             PROVE  SchemaInv'
  OBVIOUS
<1> DEFINE order == Sc!GrantOrder
           before(n) == {order[i].name : i \in {i \in DOMAIN order : i < n}}
<1>1. /\ at \in Nat \ {0} /\ deploy = "granting" /\ recorded = 5 /\ granted = RightsTo(at)
      /\ at' = at + 1 /\ UNCHANGED <<tables, uniques, keys, recorded, deploy>>
      /\ granted' = granted \cup {<<r, Sc!Privileges(r)>> : r \in Sc!RoleTargets \cap {order[at].name}}
      /\ KeysFollow /\ UniquesFollow /\ TablesFollow
      /\ at \in DOMAIN order /\ \A i \in DOMAIN order : i \in Nat
  BY GrantOrderRead DEF SchemaInv, Sc!Grant
<1>2. before(at + 1) = before(at) \cup {order[at].name}
  <2>1. {i \in DOMAIN order : i < at + 1} = {i \in DOMAIN order : i < at} \cup {at}
    BY <1>1
  <2> HIDE DEF order
  <2>2. QED BY <2>1
<1>3. \A n : RightsTo(n) = {<<t, Sc!Privileges(t)>> : t \in Sc!RoleTargets \cap before(n)}
  BY DEF RightsTo
<1> HIDE DEF before, order
<1>4. granted' = RightsTo(at')
  BY <1>1, <1>2, <1>3
<1>5. KeysFollow' /\ UniquesFollow' /\ TablesFollow'
  BY <1>1 DEF KeysFollow, UniquesFollow, TablesFollow, ActionsGiven
<1>6. QED BY <1>1, <1>4, <1>5 DEF SchemaInv

\* All other steps, a new deployment after an interruption among them.
LEMMA SchemaStep == SchemaInv /\ [Sc!NextSchema]_(Sc!schemaVars) => SchemaInv'
<1> SUFFICES ASSUME SchemaInv, [Sc!NextSchema]_(Sc!schemaVars)
             PROVE  SchemaInv'
  OBVIOUS
<1>1. ASSUME UNCHANGED <<tables, uniques, keys, recorded>>
      PROVE  /\ UniquesFollow' /\ TablesFollow'
             /\ (recorded # 1 \/ (deploy' = "migrating" => \A j \in DOMAIN Sc!ActionKeys : j < at' => Sc!Left(Sc!ActionKeys[j]))) => KeysFollow'
  <2>1. KeysFollow /\ UniquesFollow /\ TablesFollow
    BY DEF SchemaInv
  <2>2. UniquesFollow' /\ TablesFollow'
    BY <1>1, <2>1 DEF UniquesFollow, TablesFollow
  <2>3. ASSUME recorded # 1 \/ (deploy' = "migrating" => \A j \in DOMAIN Sc!ActionKeys : j < at' => Sc!Left(Sc!ActionKeys[j]))
        PROVE  KeysFollow'
    BY <1>1, <2>1, <2>3 DEF KeysFollow, ActionsGiven, Sc!Left
  <2>4. QED BY <2>2, <2>3
<1>2. CASE Sc!Revoke
  <2>1. granted' = RightsTo(at')
    <3>1. granted' = {} /\ at' = 1
      BY <1>2 DEF Sc!Revoke
    <3>2. {i \in DOMAIN Sc!GrantOrder : i < 1} = {}
      BY GrantOrderRead
    <3>3. RightsTo(1) = {}
      BY <3>2 DEF RightsTo
    <3>4. QED BY <3>1, <3>3
  <2>2. QED BY <1>1, <1>2, <2>1 DEF SchemaInv, Sc!Revoke, Sc!Latest
<1>3. CASE Sc!Stop
  BY <1>1, <1>3 DEF SchemaInv, Sc!Stop
<1>4. CASE Sc!StartDeploy
  <2>1. \A n \in {1, 4, 5} : Executed(n)'
    BY <1>4, NoneBefore DEF Executed, Sc!StartDeploy
  <2>2. QED BY <1>1, <1>4, <2>1, NoneBefore DEF SchemaInv, Sc!StartDeploy
<1>5. CASE Sc!StartApi
  <2>1. granted = {<<t, Sc!Privileges(t)>> : t \in Sc!RoleTargets}
    <3>1. granted = RightsTo(at) /\ at \in Nat /\ at > Len(Sc!GrantOrder)
      BY <1>5 DEF SchemaInv, Sc!StartApi
    <3>2. {i \in DOMAIN Sc!GrantOrder : i < at} = DOMAIN Sc!GrantOrder
      BY <3>1, GrantOrderRead
    <3>3. Sc!RoleTargets \cap {Sc!GrantOrder[i].name : i \in DOMAIN Sc!GrantOrder} = Sc!RoleTargets
      BY GrantOrderRead
    <3>4. QED BY <3>1, <3>2, <3>3 DEF RightsTo
  <2>2. QED BY <1>1, <1>5, <2>1 DEF SchemaInv, Sc!StartApi
<1>6. CASE UNCHANGED Sc!schemaVars
  BY <1>6 DEF SchemaInv, KeysFollow, ActionsGiven, UniquesFollow, TablesFollow, Executed, Sc!Left, Sc!schemaVars
<1>7. QED BY <1>2, <1>3, <1>4, <1>5, <1>6, MigrateStep, RecordStep, GrantStep DEF Sc!NextSchema

\* The schema in Club moves as it does alone.
THEOREM SchemaAlone == ClubSpec => Sc!SchemaSpec
<1>1. InitClub => Sc!InitSchema BY DEF InitClub
<1>2. [NextClub]_clubVars => [Sc!NextSchema]_(Sc!schemaVars)
  <2>1. SchemaMoves => Sc!NextSchema
    BY DEF SchemaMoves, Sc!NextSchema
  <2>2. UNCHANGED schemaVars => UNCHANGED Sc!schemaVars
    BY DEF schemaVars, Sc!schemaVars
  <2>3. QED BY <2>1, <2>2, ClubsOthersMove DEF NextClub, clubVars
<1>3. QED BY <1>1, <1>2, PTL DEF ClubSpec, Sc!SchemaSpec

\* Whenever the API runs on a finished schema, after whatever interruptions,
\* every table, unique column and key of models.py exists, every key but those of
\* the votes has its declared action, and the API's account has all its rights.
THEOREM ModelsMet == ClubSpec => []ApiMeetsItsModels
<1>1. ASSUME SchemaInv
      PROVE  ApiMeetsItsModels
  <2> SUFFICES ASSUME deploy = "up", recorded = Sc!Latest
               PROVE  /\ {x.name : x \in Sc!Declared} \subseteq tables
                      /\ Sc!UniquesOf(Sc!Declared) = uniques
                      /\ keys = Sc!RefsOf(Sc!FirstModels) \cup Plains(Sc!RefsOf(Sc!PollModels))
                      /\ granted = {<<t, Sc!Privileges(t)>> : t \in Sc!RoleTargets}
    BY DEF ApiMeetsItsModels, Sc!ApiMeetsItsModels, Plains
  <2>1. recorded = 5 /\ KeysFollow /\ UniquesFollow /\ TablesFollow
        /\ granted = {<<t, Sc!Privileges(t)>> : t \in Sc!RoleTargets}
    BY <1>1 DEF SchemaInv, Sc!Latest
  <2>2. {x.name : x \in Sc!Declared} \subseteq tables
    <3>1. {x.name : x \in Sc!Declared} = {x.name : x \in Sc!FirstModels} \cup {x.name : x \in Sc!PollModels}
      BY DEF Sc!Declared
    <3>2. TablesOf(Sc!FirstTables) \cup TablesOf(Sc!OwnerColumn) \cup TablesOf(Sc!PollTables) \subseteq tables
      BY <2>1 DEF TablesFollow
    <3>3. QED BY <3>1, <3>2, FirstTablesMatch, LaterTablesMatch
  <2>3. Sc!UniquesOf(Sc!Declared) = uniques
    <3>1. Sc!UniquesOf(Sc!Declared) = Sc!UniquesOf(Sc!FirstModels) \cup Sc!UniquesOf(Sc!PollModels)
      BY DEF Sc!UniquesOf, Sc!Declared
    <3>2. QED BY <2>1, <3>1 DEF UniquesFollow
  <2>4. QED BY <2>1, <2>2, <2>3 DEF KeysFollow
<1>2. QED BY <1>1, SchemaAlone, SchemaInitially, SchemaStep, PTL DEF Sc!SchemaSpec
=============================================================================
