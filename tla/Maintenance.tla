----------------------------- MODULE Maintenance -----------------------------
(* The maintenance of an installation with MariaDB: install, deploy, backup    *)
(* and restore run one at a time under a file lock, stop the API while they    *)
(* read or change its data, and may fail or be killed after every step. Data   *)
(* is the rows of the media library and the files they name.                   *)
EXTENDS Naturals, FiniteSets

CONSTANTS
    File,       \* uploaded files
    Offsite,    \* a remote for copies is configured
    Revision,   \* commits that are deployed, 1 being the first
    MaxSnap     \* bound on the snapshots

VARIABLES
    config,     \* how many files of the configuration exist
    place,      \* directories and database of the installation exist
    rows, files,    \* the media library: rows in the database, files in uploads
    api,        \* "absent", "running" or "stopped"
    image,      \* revision of the containers of api and web
    release,    \* last-deploy.json: the commit of the operator image, 0 for none
    checkout,   \* the revision of the repository
    job,        \* the operation that holds the lock
    snaps,      \* snapshots in the backup directory, and whether copied offsite
    last,       \* last-backup.json
    target      \* the last installation a snapshot was restored to: its state, files its rows miss

installed == <<config, place>>
data == <<rows, files>>
running == <<api, image, release>>
copies == <<snaps, last>>
maintenanceVars == <<installed, data, running, checkout, job, copies, target>>

Idle == [kind |-> "idle", step |-> "none", was |-> FALSE, rows |-> {}, files |-> {}, name |-> 0]
NoBackup == [name |-> 0, offsite |-> FALSE]
NoTarget == [state |-> "none", missing |-> {}]
ConfigFiles == 6

At(kind, step) == job.kind = kind /\ job.step = step
Go(step) == job' = [job EXCEPT !.step = step]
During(kinds) == job.kind \in kinds

-----------------------------------------------------------------------------
(* The API, while it runs: a file is written before its row and removed after. *)

Save(f) ==
    /\ api = "running"
    /\ \/ f \notin files /\ files' = files \cup {f} /\ UNCHANGED rows
       \/ f \in files \ rows /\ rows' = rows \cup {f} /\ UNCHANGED files
    /\ UNCHANGED <<installed, running, checkout, job, copies, target>>

Remove(f) ==
    /\ api = "running"
    /\ \/ f \in rows /\ rows' = rows \ {f} /\ UNCHANGED files
       \/ f \in files \ rows /\ files' = files \ {f} /\ UNCHANGED rows
    /\ UNCHANGED <<installed, running, checkout, job, copies, target>>

-----------------------------------------------------------------------------
(* Installation. What an interrupted one left is never taken over: without     *)
(* install.json, the last file, a directory that is not empty is refused.      *)

Prepare ==
    /\ job.kind = "idle"
    /\ config = 0 /\ ~place
    /\ place' = TRUE
    /\ job' = [Idle EXCEPT !.kind = "install", !.step = "write"]
    /\ UNCHANGED <<config, data, running, checkout, copies, target>>

WriteConfig ==
    /\ At("install", "write")
    /\ config < ConfigFiles
    /\ config' = config + 1
    /\ UNCHANGED <<place, data, running, checkout, job, copies, target>>

InstallDeploys ==
    /\ At("install", "write")
    /\ config = ConfigFiles
    /\ job' = [Idle EXCEPT !.kind = "deploy", !.step = "build"]
    /\ UNCHANGED <<installed, data, running, checkout, copies, target>>

-----------------------------------------------------------------------------
(* Backup, alone or as a part of a deployment.                                 *)

\* The operator image that was verified with the running version reads the tables.
Deployed == image.api = image.web /\ release = image.api /\ release # 0

StartBackup ==
    /\ job.kind = "idle"
    /\ config = ConfigFiles
    /\ Deployed
    /\ Cardinality(snaps) < MaxSnap
    /\ job' = [Idle EXCEPT !.kind = "backup", !.step = "stop"]
    /\ UNCHANGED <<installed, data, running, checkout, copies, target>>

Copying == {"backup", "deploy"}
In(step) == During(Copying) /\ job.step = step

StopForCopy ==
    /\ In("stop")
    /\ job' = [job EXCEPT !.step = "dump", !.was = api = "running"]
    /\ api' = "stopped"
    /\ UNCHANGED <<installed, data, image, release, checkout, copies, target>>

Dump ==
    /\ In("dump")
    /\ job' = [job EXCEPT !.step = "tar", !.rows = rows]
    /\ UNCHANGED <<installed, data, running, checkout, copies, target>>

Tar ==
    /\ In("tar")
    /\ job' = [job EXCEPT !.step = "publish", !.files = files]
    /\ UNCHANGED <<installed, data, running, checkout, copies, target>>

\* A name no file of the directory bears and no record names.
NewName == CHOOSE n \in 1..(MaxSnap + 2) : last.name # n /\ \A s \in snaps : s.name # n
Publish ==
    /\ In("publish")
    /\ snaps' = snaps \cup {[name |-> NewName, rows |-> job.rows, files |-> job.files,
                             rev |-> image.api, sent |-> FALSE, whole |-> TRUE]}
    /\ job' = [job EXCEPT !.step = IF Offsite THEN "offsite" ELSE "record", !.name = NewName,
                         !.rows = {}, !.files = {}]
    /\ UNCHANGED <<installed, data, running, checkout, last, target>>

CopyOffsite ==
    /\ In("offsite")
    /\ snaps' = {IF s.name = job.name THEN [s EXCEPT !.sent = TRUE] ELSE s : s \in snaps}
    /\ Go("record")
    /\ UNCHANGED <<installed, data, running, checkout, last, target>>

RecordBackup ==
    /\ In("record")
    /\ last' = [name |-> job.name, offsite |-> Offsite]
    /\ Go("rotate")
    /\ UNCHANGED <<installed, data, running, checkout, snaps, target>>

\* Mutant: the age of the new snapshot counts as well.
OutdatedAny(s) == s \in snaps
\* Snapshots older than BACKUP_KEEP_DAYS go, any of them with time, but never the
\* new one, however long the copy took.
Outdated(s) == s.name # job.name
Rotate ==
    /\ In("rotate")
    /\ \E old \in SUBSET {s \in snaps : Outdated(s)} : snaps' = snaps \ old
    /\ Go("resume")
    /\ UNCHANGED <<installed, data, running, checkout, last, target>>

\* The finally of backup; a deployment goes on only after a copy that succeeded.
Resume ==
    /\ In("resume")
    /\ api' = IF job.was THEN "running" ELSE api
    /\ job' = IF job.kind = "deploy" THEN [job EXCEPT !.step = "halt"] ELSE Idle
    /\ UNCHANGED <<installed, data, image, release, checkout, copies, target>>
CopyFails ==
    /\ During(Copying)
    /\ job.step \in {"dump", "tar", "publish", "offsite", "record", "rotate"}
    /\ api' = IF job.was THEN "running" ELSE api
    /\ job' = Idle
    /\ UNCHANGED <<installed, data, image, release, checkout, copies, target>>

-----------------------------------------------------------------------------
(* Deployment of the checkout.                                                 *)

StartDeploy ==
    /\ job.kind = "idle"
    /\ config = ConfigFiles
    /\ job' = [Idle EXCEPT !.kind = "deploy", !.step = "build"]
    /\ UNCHANGED <<installed, data, running, checkout, copies, target>>

\* A running installation is copied first, if it can be; a stopped one is not.
Built ==
    /\ At("deploy", "build")
    /\ \/ api = "running" /\ Deployed /\ Cardinality(snaps) < MaxSnap /\ Go("stop")
       \/ api = "running" /\ ~Deployed /\ job' = Idle
       \/ api # "running" /\ Go("halt")
    /\ UNCHANGED <<installed, data, running, checkout, copies, target>>

Halt ==
    /\ At("deploy", "halt")
    /\ api' = IF api = "absent" THEN api ELSE "stopped"
    /\ Go("migrate")
    /\ UNCHANGED <<installed, data, image, release, checkout, copies, target>>

\* The migrations, the rights and the first records, then the containers.
Migrated ==
    /\ At("deploy", "migrate")
    /\ Go("up")
    /\ UNCHANGED <<installed, data, running, checkout, copies, target>>

Up ==
    /\ At("deploy", "up")
    /\ api' = "running"
    /\ image' = [image EXCEPT !.api = checkout]
    /\ Go("web")
    /\ UNCHANGED <<installed, data, release, checkout, copies, target>>
UpWeb ==
    /\ At("deploy", "web")
    /\ image' = [image EXCEPT !.web = checkout]
    /\ Go("verify")
    /\ UNCHANGED <<installed, data, api, release, checkout, copies, target>>

RecordDeploy ==
    /\ At("deploy", "verify")
    /\ release' = checkout
    /\ job' = Idle
    /\ UNCHANGED <<installed, data, api, image, checkout, copies, target>>

\* An error leaves the API stopped; before that the old version keeps running.
DeployFails ==
    /\ job.kind = "deploy"
    /\ job.step \in {"build", "halt", "migrate", "up", "web", "verify"}
    /\ api' = IF job.step \in {"migrate", "up", "web", "verify"} /\ api = "running" THEN "stopped" ELSE api
    /\ job' = Idle
    /\ UNCHANGED <<installed, data, image, release, checkout, copies, target>>

\* A kill, or the machine stops: the lock is free and nothing is undone.
Killed ==
    /\ job.kind # "idle"
    /\ job' = Idle
    /\ UNCHANGED <<installed, data, running, checkout, copies, target>>

\* By hand: start a stopped API, or fetch another version of the code.
StartByHand ==
    /\ job.kind = "idle"
    /\ api = "stopped"
    /\ api' = "running"
    /\ UNCHANGED <<installed, data, image, release, checkout, job, copies, target>>
Fetch(r) ==
    /\ job.kind = "idle"
    /\ checkout < r
    /\ checkout' = r
    /\ UNCHANGED <<installed, data, running, job, copies, target>>

-----------------------------------------------------------------------------
(* Restore, only to a separate installation, which must be empty each time.    *)

\* A file of a snapshot may be damaged on its disk.
Damage(s) ==
    /\ s \in snaps
    /\ s.whole
    /\ snaps' = (snaps \ {s}) \cup {[s EXCEPT !.whole = FALSE, !.rows = {}, !.files = {}]}
    /\ UNCHANGED <<installed, data, running, checkout, job, last, target>>

\* Checksums, then the revision of the checkout.
Accepts(s) == s.whole /\ s.rev = checkout
Restore(s) ==
    /\ job.kind = "idle"
    /\ s \in snaps
    /\ Accepts(s)
    /\ target' \in {[state |-> "verified", missing |-> s.rows \ s.files],
                   [state |-> "partial", missing |-> {}]}
    /\ UNCHANGED <<installed, data, running, checkout, job, copies>>

-----------------------------------------------------------------------------
InitMaintenance ==
    /\ config = 0 /\ place = FALSE
    /\ rows = {} /\ files = {}
    /\ api = "absent" /\ image = [api |-> 0, web |-> 0] /\ release = 0
    /\ checkout = 1
    /\ job = Idle
    /\ snaps = {} /\ last = NoBackup
    /\ target = NoTarget

NextMaintenance ==
    \/ \E f \in File : Save(f) \/ Remove(f)
    \/ Prepare \/ WriteConfig \/ InstallDeploys
    \/ StartBackup \/ StopForCopy \/ Dump \/ Tar \/ Publish \/ CopyOffsite \/ RecordBackup
    \/ Rotate \/ Resume \/ CopyFails
    \/ StartDeploy \/ Built \/ Halt \/ Migrated \/ Up \/ UpWeb \/ RecordDeploy \/ DeployFails
    \/ Killed \/ StartByHand
    \/ \E r \in Revision : Fetch(r)
    \/ \E s \in snaps : Damage(s) \/ Restore(s)
MaintenanceSpec == InitMaintenance /\ [][NextMaintenance]_maintenanceVars

-----------------------------------------------------------------------------
\* The last backup can be relied on: the snapshot its record names exists, and
\* offsite too when the record says so, whatever failed or was killed, however
\* old it is; and every snapshot that restores, with what was restored from one,
\* has the file of each of its rows.
BackupsCanBeRestored ==
    /\ last # NoBackup => \E s \in snaps : s.name = last.name /\ (last.offsite => s.sent)
    /\ \A s \in snaps : s.whole => s.rows \subseteq s.files
    /\ target.state = "verified" => target.missing = {}
=============================================================================
