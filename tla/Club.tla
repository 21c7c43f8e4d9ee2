-------------------------------- MODULE Club --------------------------------
(* Components of the site that keep no state in common, in one specification:   *)
(* the initial state chooses the component that runs, the others keep still.    *)
(* Each of them behaves as it does alone (ClubProofs). Members does the same    *)
(* for those about members.                                                     *)
EXTENDS Naturals, Sequences, FiniteSets

CONSTANTS
    File, Offsite, Revision, MaxSnap,
    Sync, Card, MinCards, MaxPrograms, MaxEdits,
    Image, Reader, Workers, MaxPending, MaxEntries, MaxBytes, Bytes, MaxLost,
    Tab, Dpo, Merch, MaxLines, MaxQty, Price, Stock, MaxUnits, MaxAltered,
    Task, Connections, Session, Member, Order, MaxProduct,
    Frame, Public, Private, Pinned, MaxPages, MaxStops

VARIABLES
    part,   \* the component that runs
    tables, uniques, keys, recorded, granted, at, deploy,
    config, place, rows, files, api, image, release, checkout, job, snaps, last, target,
    listed, programs, sync, locked, touched, edits,
    reader, pending, slots, cache, older, cacheBytes, open, lost,
    lines, product, tab, added, ordered, put, altered,
    plan, held, using,
    saved, earlier, stale, window, kept, untrimmed

\* A line of a cart is of a program or of a product; a cart is bounded.
ASSUME LinesApart == Dpo \cap Merch = {} /\ MaxLines \in Nat /\ MaxQty \in Nat

\* Thumbnails are made by some workers, some may wait for them, and all are
\* kept within limits.
ASSUME RendersBounded ==
    /\ Workers \in Nat /\ MaxPending \in Nat
    /\ MaxEntries \in Nat /\ MaxBytes \in Nat /\ Bytes \subseteq Nat

\* A card has a number and a price, zero for an unknown one; no run is named as
\* the lock is when nobody holds it.
ASSUME CardsNumbered ==
    /\ \A c \in Card : c.hse \in Nat \ {0} /\ c.price \in Nat
    /\ "none" \notin Sync

\* The pages that stay are few (service-worker.js:56).
ASSUME PinnedAreFew ==
    /\ IsFiniteSet(Frame) /\ Pinned \subseteq Public /\ IsFiniteSet(Pinned)
    /\ MaxPages \in Nat /\ Cardinality(Pinned) <= MaxPages

\* Programs and products have numbered rows.
ASSUME ProductsNumbered == MaxProduct \in Nat

Sc == INSTANCE Schema
Mt == INSTANCE Maintenance
Ct == INSTANCE Catalog
Pv == INSTANCE Previews
Cr == INSTANCE Carts
Lk == INSTANCE Locks
Of == INSTANCE Offline

-----------------------------------------------------------------------------
schemaVars == <<tables, uniques, keys, recorded, granted, at, deploy>>
maintenanceVars == <<config, place, rows, files, api, image, release, checkout, job, snaps, last, target>>
catalogVars == <<listed, programs, sync, locked, touched, edits>>
previewVars == <<reader, pending, slots, cache, older, cacheBytes, open, lost>>
cartVars == <<lines, product, tab, added, ordered, put, altered>>
lockVars == <<plan, held, using>>
offlineVars == <<saved, earlier, stale, window, kept, untrimmed>>

Parts == {"schema", "maintenance", "catalog", "previews", "carts", "locks", "offline"}

Still(p) ==
    /\ part = p
    /\ part' = part
    /\ IF p = "schema" THEN TRUE ELSE UNCHANGED schemaVars
    /\ IF p = "maintenance" THEN TRUE ELSE UNCHANGED maintenanceVars
    /\ IF p = "catalog" THEN TRUE ELSE UNCHANGED catalogVars
    /\ IF p = "previews" THEN TRUE ELSE UNCHANGED previewVars
    /\ IF p = "carts" THEN TRUE ELSE UNCHANGED cartVars
    /\ IF p = "locks" THEN TRUE ELSE UNCHANGED lockVars
    /\ IF p = "offline" THEN TRUE ELSE UNCHANGED offlineVars

\* A component that keeps still has one initial state.
InitClub ==
    /\ part \in Parts
    /\ Sc!InitSchema /\ Mt!InitMaintenance /\ Ct!InitCatalog
    /\ Pv!InitPreviews /\ Cr!InitCarts /\ Lk!InitLocks /\ Of!InitOffline
    /\ part # "schema" => recorded = 0
    /\ part # "catalog" => listed = CHOOSE x \in {[actual |-> l, all |-> l] : l \in Ct!Listings} : Len(x.all) = MinCards

SchemaMoves ==
    \/ Still("schema") /\ Sc!Migrate
    \/ Still("schema") /\ Sc!Record
    \/ Still("schema") /\ Sc!Revoke
    \/ Still("schema") /\ Sc!Grant
    \/ Still("schema") /\ Sc!Stop
    \/ Still("schema") /\ Sc!StartDeploy
    \/ Still("schema") /\ Sc!StartApi

MaintenanceMoves ==
    \/ Still("maintenance") /\ \E f \in File : Mt!Save(f)
    \/ Still("maintenance") /\ \E f \in File : Mt!Remove(f)
    \/ Still("maintenance") /\ Mt!Prepare
    \/ Still("maintenance") /\ Mt!WriteConfig
    \/ Still("maintenance") /\ Mt!InstallDeploys
    \/ Still("maintenance") /\ Mt!StartBackup
    \/ Still("maintenance") /\ Mt!StopForCopy
    \/ Still("maintenance") /\ Mt!Dump
    \/ Still("maintenance") /\ Mt!Tar
    \/ Still("maintenance") /\ Mt!Publish
    \/ Still("maintenance") /\ Mt!CopyOffsite
    \/ Still("maintenance") /\ Mt!RecordBackup
    \/ Still("maintenance") /\ Mt!Rotate
    \/ Still("maintenance") /\ Mt!Resume
    \/ Still("maintenance") /\ Mt!CopyFails
    \/ Still("maintenance") /\ Mt!StartDeploy
    \/ Still("maintenance") /\ Mt!Built
    \/ Still("maintenance") /\ Mt!Halt
    \/ Still("maintenance") /\ Mt!Migrated
    \/ Still("maintenance") /\ Mt!Up
    \/ Still("maintenance") /\ Mt!UpWeb
    \/ Still("maintenance") /\ Mt!RecordDeploy
    \/ Still("maintenance") /\ Mt!DeployFails
    \/ Still("maintenance") /\ Mt!Killed
    \/ Still("maintenance") /\ Mt!StartByHand
    \/ Still("maintenance") /\ \E r \in Revision : Mt!Fetch(r)
    \/ Still("maintenance") /\ \E s \in snaps : Mt!Damage(s)
    \/ Still("maintenance") /\ \E s \in snaps : Mt!Restore(s)

CatalogMoves ==
    \/ Still("catalog") /\ \E s \in Sync : Ct!CollectActual(s)
    \/ Still("catalog") /\ \E s \in Sync : Ct!CollectAll(s)
    \/ Still("catalog") /\ \E s \in Sync : Ct!Read(s)
    \/ Still("catalog") /\ \E s \in Sync : Ct!Apply(s)
    \/ Still("catalog") /\ \E s \in Sync : Ct!Fails(s)
    \/ Still("catalog") /\ \E p \in programs : Ct!Delete(p)
    \/ \E p \in programs, price \in {0, 1}, state \in {"draft", "published"} :
          Still("catalog") /\ Ct!Edit(p, price, state)
    \/ Still("catalog") /\ \E all \in Ct!Listings : \E actual \in {all, <<>>} : Ct!Publish(actual, all)

PreviewsMoves ==
    \/ Still("previews") /\ \E r \in Reader, i \in Image, kind \in {"thumbnail", "stream"} : Pv!Open(r, i, kind)
    \/ Still("previews") /\ \E r \in Reader : Pv!LoseDescriptor(r)
    \/ Still("previews") /\ \E r \in Reader : Pv!Refuse(r)
    \/ Still("previews") /\ \E r \in Reader : Pv!Hit(r)
    \/ Still("previews") /\ \E r \in Reader : Pv!Join(r)
    \/ Still("previews") /\ \E r \in Reader : Pv!Busy(r)
    \/ Still("previews") /\ \E r \in Reader : Pv!Begin(r)
    \/ Still("previews") /\ \E r \in Reader : Pv!GiveUp(r)
    \/ Still("previews") /\ \E r \in Reader : Pv!Respond(r)
    \/ Still("previews") /\ \E r \in Reader : Pv!Close(r)
    \/ Still("previews") /\ \E i \in Image : Pv!TakeSlot(i)
    \/ Still("previews") /\ \E i \in Image, size \in Bytes : Pv!Loaded(i, size)
    \/ Still("previews") /\ \E i \in Image : Pv!LoadFails(i)
    \/ Still("previews") /\ \E i \in Image : Pv!CancelQueued(i)

CartsMoves ==
    \/ Still("carts") /\ \E t \in Tab, l \in Cr!Line, qty \in 1..MaxQty : Cr!LookUp(t, l, qty)
    \/ Still("carts") /\ \E t \in Tab : Cr!AddCart(t)
    \/ Still("carts") /\ \E l \in Cr!Line, qty \in 0..MaxQty : Cr!ChangeQty(l, qty)
    \/ Still("carts") /\ Cr!ClearCart
    \/ Still("carts") /\ \E t \in Tab : Cr!ReadCart(t)
    \/ Still("carts") /\ \E t \in Tab : Cr!PriceItems(t)
    \/ Still("carts") /\ \E t \in Tab : Cr!Commit(t)
    \/ \E l \in Cr!Line, price \in Price, stock \in Stock, published \in BOOLEAN :
          Still("carts") /\ Cr!Edit(l, price, stock, published)

LocksMoves ==
    \/ Still("locks") /\ \E t \in Task : Lk!Take(t)
    \/ Still("locks") /\ \E t \in Task : Lk!Finish(t)
    \/ Still("locks") /\ \E t \in Task : Lk!TimeOut(t)
    \/ Still("locks") /\ \E t \in Task, s \in Session, m \in Member, items \in Lk!Carts : Lk!Commit(t, s, m, items)
    \/ Still("locks") /\ \E t \in Task, o \in Order, items \in Lk!Carts : Lk!Close(t, o, items)
    \/ Still("locks") /\ \E t \in Task, o \in Order, m \in Member : Lk!Extend(t, o, m)
    \/ Still("locks") /\ \E t \in Task, m \in Member : Lk!Subscribe(t, m)
    \/ Still("locks") /\ \E t \in Task, p \in Lk!Product, pictures \in BOOLEAN : Lk!EditStock(t, p, pictures)
    \/ Still("locks") /\ \E t \in Task, p \in Lk!Product, pictures \in BOOLEAN : Lk!EditOther(t, p, pictures)
    \/ Still("locks") /\ \E t \in Task, items \in Lk!Carts : Lk!Synchronise(t, items)
    \/ Still("locks") /\ \E t \in Task, m \in Member, o \in Order : Lk!EraseMember(t, m, o)

OfflineMoves ==
    \/ Still("offline") /\ \E w \in Frame, p \in Of!Page, save \in BOOLEAN : Of!Navigate(w, p, save)
    \/ Still("offline") /\ \E w \in Frame : Of!Reuse(w)
    \/ Still("offline") /\ \E w \in Frame : Of!NoNetwork(w)
    \/ Still("offline") /\ \E w \in Frame, withdrawn \in BOOLEAN : Of!Fetched(w, withdrawn)
    \/ Still("offline") /\ \E w \in Frame, p \in Pinned : Of!Install(w, p)
    \/ Still("offline") /\ \E w \in Frame : Of!PutDelete(w)
    \/ Still("offline") /\ \E w \in Frame : Of!PutWrite(w)
    \/ Still("offline") /\ \E w \in Frame : Of!PutFails(w)
    \/ Still("offline") /\ \E w \in Frame : Of!PutKeys(w)
    \/ Still("offline") /\ \E w \in Frame : Of!PutTrim(w)
    \/ Still("offline") /\ Of!WorkerStops
    \/ Still("offline") /\ Of!Activate
    \/ Still("offline") /\ \E p \in saved : Of!AgeCopy(p)

NextClub ==
    \/ SchemaMoves \/ MaintenanceMoves \/ CatalogMoves
    \/ PreviewsMoves \/ CartsMoves \/ LocksMoves \/ OfflineMoves

clubVars == <<part, schemaVars, maintenanceVars, catalogVars,
              previewVars, cartVars, lockVars, offlineVars>>
ClubSpec == InitClub /\ [][NextClub]_clubVars

-----------------------------------------------------------------------------
(* The properties of the components, stated in their modules.                  *)

\* A repeated deployment has lost no key of the schema, no right and no action that
\* the migrations give (models.py).
ApiMeetsItsModels == part = "schema" => Sc!ApiMeetsItsModels
\* The recorded backup exists and what is restored is complete (mariadb_backup.py).
BackupsCanBeRestored == part = "maintenance" => Mt!BackupsCanBeRestored
\* A synchronisation leaves one row per card, settled as the source says (sync.py).
CatalogFollowsSource == Ct!CatalogFollowsSource
\* Every way through a thumbnail gives back descriptor, slot and bytes (media/service.py).
PreviewsGiveBack == part = "previews" => Pv!PreviewsGiveBack
\* The units shown in the cart are ordered once or still there (cart.py, store.py).
OrdersTakeTheCart == part = "carts" => Cr!OrdersTakeTheCart
\* No transactions wait in a circle over the rows of products (store.py).
NoCircleOfProducts == part = "locks" => Lk!NoCircleOfProducts
\* A browser keeps no more pages than its limit, the pinned among them (service-worker.js).
CopiesStayBounded == part = "offline" => Of!CopiesStayBounded
=============================================================================
