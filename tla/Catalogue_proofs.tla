-------------------------- MODULE Catalogue_proofs --------------------------
(* Proof that the repository implements the catalogue: every step of every     *)
(* operation, of recovery and of a crash is one step of Catalogue or none.     *)
EXTENDS Repository_proofs

\* The catalogue's step that a step of the repository is seen as.
CatalogueStep == [Abstract!Next]_(Abstract!vars)

\* What is offered depends on the rows alone.
LEMMA SameOffer == ASSUME rows' = rows PROVE Offered' = Offered
BY DEF Offered, Offer, Active, InState, Registered

\* A step that leaves rows, index and pool alone is none of the catalogue's.
LEMMA Stutter ==
    ASSUME rows' = rows, pool' = pool, live' = live, lost' = lost, forgotten' = forgotten,
           moved' = moved
    PROVE  CatalogueStep
BY SameOffer DEF CatalogueStep, Abstract!vars

\* Rows may be relabelled, other than to active: packages are withdrawn.
LEMMA Withdrawn ==
    ASSUME \A p \in Package : Active(p)' => Active(p) /\ rows'[p] = rows[p],
           pool' = pool, live' = live, lost' = lost, forgotten' = forgotten, moved' = moved
    PROVE  CatalogueStep
<1> DEFINE ps == {p \in Package : ~Active(p)'}
<1>1. Offered' = [p \in Package |-> IF p \in ps THEN None ELSE Offered[p]]
  BY DEF Offered, Offer
<1>2. Abstract!Withdraw(ps)
  BY <1>1 DEF Abstract!Withdraw
<1>3. ps \in SUBSET Package
  OBVIOUS
<1> QED
  BY <1>2, <1>3 DEF CatalogueStep, Abstract!Next

\* A file that is neither offered nor promised, or lost already, may be removed.
LEMMA Removed ==
    ASSUME TypeOK, NEW x \in Path,
           \/ /\ Active(x[1]) => FileOf(x[1]) # x
              /\ Listed(x[1]) /\ ListedFile(x[1]) = x => x[1] \in forgotten \cup moved
           \/ x \in lost,
           pool' = [pool EXCEPT ![x] = None], rows' = rows, live' = live, lost' = lost,
           forgotten' = forgotten, moved' = moved
    PROVE  CatalogueStep
<1>1. PICK p \in Package, d \in Component : x = <<p, d>>
  BY DEF Path
<1>2. Abstract!OffersAt(p, d) => Active(p) /\ FileOf(p) = x
  BY <1>1 DEF Abstract!OffersAt, Offered, Offer, FileOf
<1>3. Abstract!PromisesAt(p, d) =>
        Listed(p) /\ ListedFile(p) = x /\ p \notin forgotten \cup moved
  BY <1>1 DEF Abstract!PromisesAt, Abstract!Promised, Abstract!Listed, Listed, ListedFile
<1>4. Abstract!Remove(p, d)
  BY <1>1, <1>2, <1>3, SameOffer DEF Abstract!Remove
<1> QED
  BY <1>4 DEF CatalogueStep, Abstract!Next

\* Relabelling one row, other than to active, withdraws its package.
LEMMA Relabelled ==
    ASSUME TypeOK, NEW p \in Package, Registered(p), NEW s \in State \ {"active"},
           rows' = [rows EXCEPT ![p].state = s], pool' = pool, live' = live, lost' = lost,
           forgotten' = forgotten, moved' = moved
    PROVE  CatalogueStep
<1>1. rows[p] \in Row /\ rows'[p] = [rows[p] EXCEPT !.state = s]
  BY DEF TypeOK, Registered
<1>2. rows'[p].state # "active"
  BY <1>1 DEF Row, State
<1>3. \A q \in Package : q # p => rows'[q] = rows[q]
  BY DEF TypeOK
<1> QED
  BY <1>2, <1>3, Withdrawn DEF Active, InState, Registered

\* Dropping a row that is marked for deletion changes nothing a client can see.
LEMMA Dropped ==
    ASSUME TypeOK, NEW p \in RowsIn("pending_delete"), rows' = [rows EXCEPT ![p] = None],
           pool' = pool, live' = live, lost' = lost, forgotten' = forgotten, moved' = moved
    PROVE  CatalogueStep
<1>1. p \in Package /\ ~Active(p)
  BY DEF RowsIn, InState, Active
<1>2. \A q \in Package : q # p => rows'[q] = rows[q]
  BY DEF TypeOK
<1>3. ~Active(p)'
  BY <1>1 DEF TypeOK, Active, InState, Registered
<1> QED
  BY <1>1, <1>2, <1>3, Withdrawn DEF Active, InState, Registered

\* os.link stores bytes where there are none, and none but a listed stanza's.
LEMMA LinkStores ==
    ASSUME TypeOK, HolderInv, ListedInv, LinkItem
    PROVE  CatalogueStep
<1>1. /\ item.pkg \in Package /\ item.hash \in Content /\ ~Refused(item.pkg, item.hash)
      /\ cfg.component \in Component /\ dest = <<item.pkg, cfg.component>>
      /\ rows' = rows /\ live' = live /\ lost' = lost /\ forgotten' = forgotten
      /\ moved' = moved
  BY DestType DEF LinkItem, Step, HolderInv, db, history
<1>2. CASE Stored(dest)
  BY <1>1, <1>2, Stutter DEF LinkItem
<1>3. CASE ~Stored(dest)
  <2>1. Listed(item.pkg) => live[item.pkg].hash = item.hash \/ item.pkg \in forgotten
    BY <1>1 DEF ListedInv, Refused
  <2>2. Abstract!PromisesAt(item.pkg, cfg.component) => live[item.pkg].hash = item.hash
    BY <2>1 DEF Abstract!PromisesAt, Abstract!Promised, Abstract!Listed, Listed
  <2>3. Abstract!Store(item.pkg, cfg.component, item.hash)
    BY <1>1, <1>3, <2>2, SameOffer DEF LinkItem, Abstract!Store, Stored
  <2> QED
    BY <1>1, <2>3 DEF CatalogueStep, Abstract!Next
<1> QED
  BY <1>2, <1>3

\* An upload's transaction offers the package with the bytes stored for it.
LEMMA CommitOffers ==
    ASSUME TypeOK, HolderInv, PlaceInv, ListedInv, CommitItem
    PROVE  CatalogueStep
<1> DEFINE p == item.pkg
           d == cfg.component
           c == item.hash
           new == rows'[item.pkg]
<1>1. /\ pc = "commit" /\ p \in Package /\ c \in Content /\ new \in Row
      /\ new.hash = c /\ new.state = "active" /\ <<p, new.dir>> = dest
      /\ \A q \in Package : q # p => rows'[q] = rows[q]
      /\ pool' = pool /\ live' = live /\ forgotten' = forgotten /\ moved' = moved
      /\ lost' = IF Stored(dest) THEN lost \ {dest} ELSE lost
  BY CommitEffect
<1>2. d \in Component /\ dest = <<p, d>> /\ new.dir = d
  BY <1>1, DestType DEF HolderInv
<1>3. Offered' = [Offered EXCEPT ![p] = [hash |-> c, dir |-> d]]
  <2>1. Offered'[p] = [hash |-> c, dir |-> d]
    BY <1>1, <1>2, NoneAssumption DEF Offered, Offer, Active, InState, Registered
  <2>2. \A q \in Package : q # p => Offered'[q] = Offered[q]
    BY <1>1 DEF Offered, Offer, Active, InState, Registered
  <2> QED
    BY <1>1, <2>1, <2>2 DEF Offered
<1>4. Offered[p] # None => Offered[p].hash = c
  BY <1>1 DEF Offered, Offer, Active, InState, PlaceInv
<1>5. Abstract!Promised(p) => live[p].hash = c
  BY <1>1 DEF PlaceInv, ListedInv, Abstract!Promised, Abstract!Listed, Listed
<1>6. /\ pool[dest] = c \/ dest \in lost
      /\ Stored(dest) <=> pool[dest] = c
  BY <1>1, NoneAssumption DEF PlaceInv, Stored
<1>7. Abstract!Offer(p, d, c)
  BY <1>1, <1>2, <1>3, <1>4, <1>5, <1>6 DEF Abstract!Offer
<1> QED
  BY <1>1, <1>2, <1>7 DEF CatalogueStep, Abstract!Next

\* Building the index withdraws the packages whose file is missing.
LEMMA StageWithdraws == ASSUME TypeOK, Stage PROVE CatalogueStep
<1>1. ASSUME NEW p \in Package, Active(p)' PROVE Active(p) /\ rows'[p] = rows[p]
  <2>1. CASE p \in RowsIn("active") \ Present
    <3>1. rows'[p] = [rows[p] EXCEPT !.state = "missing"] /\ rows[p] \in Row
      BY <2>1 DEF Stage, TypeOK, RowsIn, InState, Registered
    <3> QED
      BY <1>1, <3>1 DEF Active, InState, Row
  <2>2. CASE p \notin RowsIn("active") \ Present
    BY <1>1, <2>2 DEF Stage, Active, InState, Registered
  <2> QED
    BY <2>1, <2>2
<1> QED
  BY <1>1, Withdrawn DEF Stage, disk, history

\* The exchange publishes what is offered, for the architectures of the index.
LEMMA SwapPublishes == ASSUME TypeOK, StagedInv, Swap PROVE CatalogueStep
<1>1. /\ live' = next /\ Carries(next) /\ rows' = rows /\ pool' = pool /\ lost' = lost
      /\ forgotten' = {} /\ moved' = {}
  BY DEF Swap, Step, StagedInv, db
<1> DEFINE carried == {p \in Package : next[p] # Skipped}
<1>2. next = [p \in Package |-> IF p \in carried THEN Offered[p] ELSE Skipped]
  <2>1. next \in Tree
    BY <1>1 DEF TypeOK, Carries
  <2>2. \A p \in Package : next[p] = IF p \in carried THEN Offered[p] ELSE Skipped
    BY <1>1 DEF Carries
  <2> QED
    BY <2>1, <2>2 DEF Tree
<1>3. Abstract!Publish(carried) /\ carried \in SUBSET Package
  BY <1>1, <1>2, SameOffer DEF Abstract!Publish
<1> QED
  BY <1>3 DEF CatalogueStep, Abstract!Next

\* A look for missing files withdraws what it marks.
LEMMA ScanWithdraws ==
    ASSUME TypeOK, WorklistInv, NEW at \in {"scan", "boot_scan"}, ScanRow(at)
    PROVE  CatalogueStep
<1>1. PICK p \in loc.todo :
        rows' = IF Stored(FileOf(p)) THEN rows ELSE [rows EXCEPT ![p].state = "missing"]
  BY DEF ScanRow
<1>2. /\ p \in Package /\ Registered(p) /\ moved' = moved
      /\ pool' = pool /\ live' = live /\ lost' = lost /\ forgotten' = forgotten
  BY <1>1 DEF ScanRow, Step, WorklistInv, RowsIn, InState, disk, history
<1>3. CASE Stored(FileOf(p))
  BY <1>1, <1>2, <1>3, Stutter
<1>4. CASE ~Stored(FileOf(p))
  BY <1>1, <1>2, <1>4, Relabelled DEF State
<1> QED
  BY <1>3, <1>4

\* A crash forgets the delete it leaves unannounced, if there is one.
LEMMA CrashForgets ==
    ASSUME TypeOK, HolderInv, TargetInv, Crash
    PROVE  CatalogueStep
<1>1. /\ rows' = rows /\ pool' = pool /\ live' = live /\ lost' = lost /\ moved' = moved
      /\ forgotten' = forgotten \cup Unannounced
  BY DEF Crash, db, disk
<1>2. CASE Unannounced = {}
  BY <1>1, <1>2, Stutter
<1>3. CASE Unannounced # {}
  <2>1. PICK p \in Package : /\ pc = "flag_delete" /\ p = loc.target /\ Listed(p)
                             /\ Unannounced = {p}
    BY <1>3 DEF Unannounced
  <2>2. ~Active(p)
    BY <2>1 DEF TargetInv, RowsIn, InState, Active, HolderInv
  <2>3. Abstract!Abandon(p, FALSE)
    BY <1>1, <2>1, <2>2, SameOffer
    DEF Abstract!Abandon, Abstract!Listed, Abstract!OffersAt, Listed, Offered
  <2> QED
    BY <2>3 DEF CatalogueStep, Abstract!Next
<1> QED
  BY <1>2, <1>3

\* The quarantine of a file that is listed, but under a path that no row names any
\* more, abandons its package; of any other file it is a removal.
LEMMA OrphanAbandons ==
    ASSUME TypeOK, WorklistInv, MoveOrphan
    PROVE  CatalogueStep
<1>1. /\ loc.blob \in Path /\ ~Named(loc.blob) /\ pool' = [pool EXCEPT ![loc.blob] = None]
      /\ moved' = moved \cup {p \in Package : Listed(p) /\ ListedFile(p) = loc.blob}
      /\ rows' = rows /\ live' = live /\ lost' = lost /\ forgotten' = forgotten
  BY DEF MoveOrphan, Step, WorklistInv, db
<1>2. PICK p \in Package, d \in Component : loc.blob = <<p, d>>
  BY <1>1 DEF Path
<1>3. Active(p) => FileOf(p) # loc.blob
  BY <1>1, <1>2 DEF Named, Active, InState
<1>4. \A q \in Package : Listed(q) /\ ListedFile(q) = loc.blob => q = p
  BY <1>2 DEF ListedFile
<1>5. CASE Listed(p) /\ ListedFile(p) = loc.blob
  <2>1. live[p].dir = d
    BY <1>2, <1>5 DEF ListedFile
  <2>2. {q \in Package : Listed(q) /\ ListedFile(q) = loc.blob} = {p}
    BY <1>4, <1>5
  <2>3. ~Abstract!OffersAt(p, d)
    BY <1>2, <1>3 DEF Abstract!OffersAt, Offered, Offer, FileOf
  <2>4. Abstract!Abandon(p, TRUE)
    BY <1>1, <1>2, <1>5, <2>1, <2>2, <2>3, SameOffer
    DEF Abstract!Abandon, Abstract!Listed, Listed
  <2> QED
    BY <2>4 DEF CatalogueStep, Abstract!Next
<1>6. CASE ~(Listed(p) /\ ListedFile(p) = loc.blob)
  <2>1. moved' = moved
    BY <1>1, <1>4, <1>6
  <2> QED
    BY <1>1, <1>2, <1>3, <1>6, <2>1, Removed
<1> QED
  BY <1>5, <1>6

\* Every step of the repository is a step of the catalogue or none.
LEMMA StepImplements ==
    ASSUME Inv, [Next]_vars
    PROVE  CatalogueStep
<1> USE Stutter DEF Inv, Step, Release, AfterFinish, db, disk, history
<1>a. ASSUME NEW p \in RowsIn("pending_delete"), ~dirty, lastRun = "success",
             pc # "flag_delete", rows' = rows, live' = live, lost' = lost,
             forgotten' = forgotten, moved' = moved, pool' = [pool EXCEPT ![FileOf(p)] = None]
      PROVE  CatalogueStep
  <2>1. /\ p \in Package /\ ~Active(p) /\ FileOf(p) \in Path /\ FileOf(p)[1] = p
        /\ Listed(p) => p \in forgotten
    BY <1>a, FileType, PendingUnlisted DEF RowsIn, InState, Active
  <2> QED
    BY <1>a, <2>1, Removed
<1>1. ASSUME UploadStep PROVE CatalogueStep
  BY <1>1, LinkStores, CommitOffers
  DEF UploadStep, RefuseItem, PublishPlaced, NothingPlaced
<1>2. ASSUME MarkDelete PROVE CatalogueStep
  BY <1>2, Relabelled DEF MarkDelete, State
<1>3. ASSUME Unlink PROVE CatalogueStep
  <2>1. /\ loc.target \in RowsIn("pending_delete") /\ ~dirty /\ lastRun = "success"
        /\ pc # "flag_delete"
    BY <1>3 DEF Unlink, TargetInv, RunInv
  <2> QED
    BY <1>3, <1>a, <2>1 DEF Unlink
<1>4. ASSUME DropRow PROVE CatalogueStep
  BY <1>4, Dropped DEF DropRow, TargetInv
<1>5. ASSUME DeleteStep PROVE CatalogueStep
  BY <1>2, <1>3, <1>4, <1>5 DEF DeleteStep, NotFound, FlagDelete, DeleteDone
<1>6. ASSUME RetryStep PROVE CatalogueStep
  BY <1>6 DEF RetryStep, RetryPublish, NothingToRetry
<1>7. ASSUME ScanStep PROVE CatalogueStep
  BY <1>7, ScanWithdraws DEF ScanStep, ScanDone, FlagMissing
<1>8. ASSUME PublishStep PROVE CatalogueStep
  <2>1. ASSUME ClearDirty PROVE CatalogueStep
    BY <2>1, ClearDirtyStep
  <2> QED
    BY <1>8, <2>1, StageWithdraws, SwapPublishes DEF PublishStep, StartRun, Install,
       Cleanup, Succeed, RecordFailure, FlagFailure
<1>9. ASSUME PurgeBlob PROVE CatalogueStep
  <2>1. PICK p \in loc.todo : pool' = [pool EXCEPT ![FileOf(p)] = None]
    BY <1>9 DEF PurgeBlob
  <2>2. p \in RowsIn("pending_delete") /\ ~dirty /\ lastRun = "success" /\ pc # "flag_delete"
    BY <1>9, <2>1 DEF PurgeBlob, WorklistInv, RunInv
  <2> QED
    BY <1>9, <1>a, <2>1, <2>2 DEF PurgeBlob
<1>10. ASSUME PurgeRow PROVE CatalogueStep
  BY <1>10, Dropped DEF PurgeRow, WorklistInv
<1>11. ASSUME FinishStep PROVE CatalogueStep
  BY <1>9, <1>10, <1>11 DEF FinishStep, StartPurge, SkipPurge, PurgeDone
<1>12. ASSUME StartupStep PROVE CatalogueStep
  BY <1>12, OrphanAbandons DEF StartupStep, FlagOrphan, DiscardNext, DecidePublish, ServeAsIs
<1>13. ASSUME PlaceFails PROVE CatalogueStep
  <2>1. /\ rows' = rows /\ live' = live /\ lost' = lost /\ forgotten' = forgotten
        /\ moved' = moved
    BY <1>13 DEF PlaceFails
  <2>2. CASE ~loc.created
    BY <1>13, <2>1, <2>2 DEF PlaceFails
  <2>3. CASE loc.created
    <3>1. pc = "commit" /\ dest \in Path /\ dest[1] = item.pkg
      BY <1>13, <2>3, DestType DEF PlaceFails, Placing, PlaceInv, HolderInv
    <3>2. \/ /\ Active(dest[1]) => FileOf(dest[1]) # dest
             /\ Listed(dest[1]) /\ ListedFile(dest[1]) = dest
                  => dest[1] \in forgotten \cup moved
          \/ dest \in lost
      BY <2>3, <3>1 DEF PlaceInv
    <3> QED
      BY <1>13, <2>1, <2>3, <3>1, <3>2, Removed DEF PlaceFails
  <2> QED
    BY <2>2, <2>3
<1>14. ASSUME NEW x \in Path, LoseBlob(x) PROVE CatalogueStep
  <2>1. PICK p \in Package, d \in Component : x = <<p, d>>
    BY DEF Path
  <2>2. Abstract!Lose(p, d)
    BY <1>14, <2>1, SameOffer DEF LoseBlob, Abstract!Lose
  <2> QED
    BY <2>2 DEF CatalogueStep, Abstract!Next
<1>15. ASSUME Fault PROVE CatalogueStep
  BY <1>13, <1>14, <1>15, CrashForgets DEF Fault, PublishFails, UndoFails, UnlinkFails
<1>16. ASSUME ClientRequest PROVE CatalogueStep
  BY <1>16 DEF ClientRequest, RequestUpload, RequestDelete, RequestPublish, RequestRetry,
     Request
<1>17. ASSUME Restart \/ (\E t \in Client : Acquire(t)) PROVE CatalogueStep
  BY <1>17 DEF Restart, Acquire
<1>18. ASSUME UNCHANGED vars PROVE CatalogueStep
  BY <1>18 DEF vars
<1> QED
  BY <1>1, <1>5, <1>6, <1>7, <1>8, <1>11, <1>12, <1>15, <1>16, <1>17, <1>18 DEF Next, Section

\* The repository implements the catalogue, for any packages, contents, threads and
\* bounds, wherever a crash falls.
THEOREM CatalogueImplemented == Spec => ImplementsCatalogue
<1>1. Init => Abstract!Init
  BY DEF Init, Abstract!Init, Offered, Active, InState, Registered, Path
<1>2. Inv /\ [Next]_vars => [Abstract!Next]_(Abstract!vars)
  BY StepImplements DEF CatalogueStep
<1> QED
  BY InvAlways, <1>1, <1>2, PTL DEF Spec, ImplementsCatalogue, Abstract!Spec

(***************************************************************************)
(* What the catalogue's promise is worth, from its own steps alone: none   *)
(* of the lemmas below uses a definition of the repository.                *)
(***************************************************************************)

\* Only stored bytes are offered; with it, Servable is inductive.
OfferStored ==
    \A p \in Package : Offered[p] # None =>
        \/ pool[<<p, Offered[p].dir>>] = Offered[p].hash
        \/ <<p, Offered[p].dir>> \in lost

\* What is offered, listed and stored has the shape it has in the repository.
CatalogueTypes ==
    /\ Offered \in [Package -> Stanza \cup {None}]
    /\ live \in Tree \cup {None}
    /\ pool \in Pool

PromiseInv == CatalogueTypes /\ OfferStored /\ Abstract!Servable

\* Every step of the catalogue keeps its promise.
LEMMA PromiseStep ==
    ASSUME PromiseInv, [Abstract!Next]_(Abstract!vars)
    PROVE  PromiseInv'
<1> DEFINE At(q, s) == pool[<<q, s.dir>>] = s.hash \/ <<q, s.dir>> \in lost
           At1(q, s) == pool'[<<q, s.dir>>] = s.hash \/ <<q, s.dir>> \in lost'
<1>1. ASSUME \A q \in Package : Offered'[q] # None => At1(q, Offered'[q]),
             \A q \in Package : Abstract!Promised(q)' => At1(q, live'[q]),
             CatalogueTypes'
      PROVE  PromiseInv'
  BY <1>1 DEF PromiseInv, OfferStored, Abstract!Servable
<1>2. /\ CatalogueTypes
      /\ \A q \in Package : Offered[q] # None => At(q, Offered[q])
      /\ \A q \in Package : Abstract!Promised(q) => At(q, live[q])
  BY DEF PromiseInv, OfferStored, Abstract!Servable
<1>3. \A q \in Package : /\ Offered[q] # None => Offered[q] \in Stanza
                         /\ Abstract!Promised(q) => live[q] \in Stanza
                         /\ \A s \in Stanza : <<q, s.dir>> \in Path /\ s.hash # None
  BY <1>2, NoneAssumption
  DEF CatalogueTypes, Tree, Abstract!Promised, Abstract!Listed, Stanza, Path
<1>4. ASSUME NEW p \in Package, NEW d \in Component, NEW c \in Content, Abstract!Store(p, d, c)
      PROVE  PromiseInv'
  <2>1. pool' \in Pool /\ pool'[<<p, d>>] = c
        /\ \A y \in Path : y # <<p, d>> => pool'[y] = pool[y]
    BY <1>2, <1>4 DEF Abstract!Store, CatalogueTypes, Pool, Path
  <2>2. /\ Offered' = Offered /\ live' = live /\ lost' = lost
        /\ \A q \in Package : Abstract!Promised(q)' = Abstract!Promised(q)
    BY <1>4 DEF Abstract!Store, Abstract!Promised, Abstract!Listed
  <2>3. ASSUME NEW q \in Package, Offered[q] # None PROVE At1(q, Offered[q])
    <3>1. CASE <<q, Offered[q].dir>> = <<p, d>>
      BY <1>2, <1>3, <1>4, <2>2, <2>3, <3>1 DEF Abstract!Store
    <3>2. CASE <<q, Offered[q].dir>> # <<p, d>>
      BY <1>2, <1>3, <2>1, <2>2, <2>3, <3>2
    <3> QED
      BY <3>1, <3>2
  <2>4. ASSUME NEW q \in Package, Abstract!Promised(q) PROVE At1(q, live[q])
    <3>1. CASE <<q, live[q].dir>> = <<p, d>>
      BY <1>4, <2>1, <2>4, <3>1 DEF Abstract!Store, Abstract!PromisesAt
    <3>2. CASE <<q, live[q].dir>> # <<p, d>>
      BY <1>2, <1>3, <2>1, <2>2, <2>4, <3>2
    <3> QED
      BY <3>1, <3>2
  <2>5. CatalogueTypes'
    BY <1>2, <2>1, <2>2 DEF CatalogueTypes
  <2> QED
    BY <1>1, <2>2, <2>3, <2>4, <2>5
<1>5. ASSUME NEW p \in Package, NEW d \in Component, NEW c \in Content, Abstract!Offer(p, d, c)
      PROVE  PromiseInv'
  <2>1. /\ Offered' = [Offered EXCEPT ![p] = [hash |-> c, dir |-> d]]
        /\ pool' = pool /\ live' = live
        /\ lost' = IF pool[<<p, d>>] = c THEN lost \ {<<p, d>>} ELSE lost
        /\ \A q \in Package : Abstract!Promised(q)' = Abstract!Promised(q)
    BY <1>5 DEF Abstract!Offer, Abstract!Promised, Abstract!Listed
  <2>2. Offered' \in [Package -> Stanza \cup {None}] /\ Offered'[p] = [hash |-> c, dir |-> d]
        /\ \A q \in Package : q # p => Offered'[q] = Offered[q]
    BY <1>2, <2>1 DEF CatalogueTypes, Stanza
  <2>3. At1(p, Offered'[p])
    BY <1>5, <2>1, <2>2 DEF Abstract!Offer
  <2>4. \A q \in Package : q # p /\ Offered'[q] # None => At1(q, Offered'[q])
    BY <1>2, <2>1, <2>2
  <2>5. ASSUME NEW q \in Package, Abstract!Promised(q) PROVE At1(q, live[q])
    BY <1>2, <1>5, <2>1, <2>5 DEF Abstract!Offer
  <2>6. CatalogueTypes'
    BY <1>2, <2>1, <2>2 DEF CatalogueTypes
  <2> QED
    BY <1>1, <2>1, <2>3, <2>4, <2>5, <2>6
<1>6. ASSUME NEW ps \in SUBSET Package, Abstract!Withdraw(ps) PROVE PromiseInv'
  <2>1. /\ Offered' = [p \in Package |-> IF p \in ps THEN None ELSE Offered[p]]
        /\ pool' = pool /\ live' = live /\ lost' = lost
        /\ \A q \in Package : Abstract!Promised(q)' = Abstract!Promised(q)
    BY <1>6 DEF Abstract!Withdraw, Abstract!Promised, Abstract!Listed
  <2>2. CatalogueTypes'
    BY <1>2, <2>1 DEF CatalogueTypes
  <2> QED
    BY <1>1, <1>2, <2>1, <2>2
<1>7. ASSUME NEW ps \in SUBSET Package, Abstract!Publish(ps) PROVE PromiseInv'
  <2>1. /\ live' = [p \in Package |-> IF p \in ps THEN Offered[p] ELSE Skipped]
        /\ pool' = pool /\ Offered' = Offered /\ lost' = lost
    BY <1>7 DEF Abstract!Publish
  <2>2. \A q \in Package : Abstract!Promised(q)' => Offered[q] # None /\ live'[q] = Offered[q]
    BY <2>1 DEF Abstract!Promised, Abstract!Listed
  <2>3. CatalogueTypes'
    BY <1>2, <2>1 DEF CatalogueTypes, Tree
  <2> QED
    BY <1>1, <1>2, <2>1, <2>2, <2>3
<1>8. ASSUME NEW p \in Package, NEW d \in Component, Abstract!Remove(p, d) PROVE PromiseInv'
  <2>1. pool' \in Pool /\ \A y \in Path : y # <<p, d>> => pool'[y] = pool[y]
    BY <1>2, <1>8 DEF Abstract!Remove, CatalogueTypes, Pool, Path
  <2>2. /\ Offered' = Offered /\ live' = live /\ lost' = lost
        /\ \A q \in Package : Abstract!Promised(q)' = Abstract!Promised(q)
    BY <1>8 DEF Abstract!Remove, Abstract!Promised, Abstract!Listed
  <2>3. ASSUME NEW q \in Package, Offered[q] # None PROVE At1(q, Offered[q])
    BY <1>2, <1>3, <1>8, <2>1, <2>2, <2>3 DEF Abstract!Remove, Abstract!OffersAt
  <2>4. ASSUME NEW q \in Package, Abstract!Promised(q) PROVE At1(q, live[q])
    BY <1>2, <1>3, <1>8, <2>1, <2>2, <2>4 DEF Abstract!Remove, Abstract!PromisesAt
  <2>5. CatalogueTypes'
    BY <1>2, <2>1, <2>2 DEF CatalogueTypes
  <2> QED
    BY <1>1, <2>2, <2>3, <2>4, <2>5
<1>9. ASSUME NEW p \in Package, NEW gone \in BOOLEAN, Abstract!Abandon(p, gone)
      PROVE  PromiseInv'
  <2>1. pool' \in Pool /\ \A y \in Path : y # <<p, live[p].dir>> => pool'[y] = pool[y]
    BY <1>2, <1>9 DEF Abstract!Abandon, CatalogueTypes, Pool, Path
  <2>2. /\ Offered' = Offered /\ live' = live /\ lost' = lost
        /\ \A q \in Package : Abstract!Promised(q)' => Abstract!Promised(q) /\ q # p
    BY <1>9 DEF Abstract!Abandon, Abstract!Promised, Abstract!Listed
  <2>3. ASSUME NEW q \in Package, Offered[q] # None PROVE At1(q, Offered[q])
    <3>1. <<q, Offered[q].dir>> # <<p, live[p].dir>>
      BY <1>9, <2>3 DEF Abstract!Abandon, Abstract!OffersAt
    <3> QED
      BY <1>2, <1>3, <2>1, <2>2, <2>3, <3>1
  <2>4. ASSUME NEW q \in Package, Abstract!Promised(q)' PROVE At1(q, live'[q])
    BY <1>2, <1>3, <2>1, <2>2, <2>4
  <2>5. CatalogueTypes'
    BY <1>2, <2>1, <2>2 DEF CatalogueTypes
  <2> QED
    BY <1>1, <2>2, <2>3, <2>4, <2>5
<1>10. ASSUME NEW p \in Package, NEW d \in Component, Abstract!Lose(p, d) PROVE PromiseInv'
  <2>1. pool' \in Pool /\ \A y \in Path : y # <<p, d>> => pool'[y] = pool[y]
    BY <1>2, <1>10 DEF Abstract!Lose, CatalogueTypes, Pool, Path
  <2>2. /\ Offered' = Offered /\ live' = live /\ lost' = lost \cup {<<p, d>>}
        /\ \A q \in Package : Abstract!Promised(q)' = Abstract!Promised(q)
    BY <1>10 DEF Abstract!Lose, Abstract!Promised, Abstract!Listed
  <2>3. CatalogueTypes'
    BY <1>2, <2>1, <2>2 DEF CatalogueTypes
  <2> QED
    BY <1>1, <1>2, <1>3, <2>1, <2>2, <2>3
<1>11. ASSUME UNCHANGED Abstract!vars PROVE PromiseInv'
  <2>1. /\ Offered' = Offered /\ live' = live /\ lost' = lost /\ pool' = pool
        /\ \A q \in Package : Abstract!Promised(q)' = Abstract!Promised(q)
    BY <1>11 DEF Abstract!vars, Abstract!Promised, Abstract!Listed
  <2> QED
    BY <1>1, <1>2, <2>1 DEF CatalogueTypes
<1> QED
  BY <1>4, <1>5, <1>6, <1>7, <1>8, <1>9, <1>10, <1>11 DEF Abstract!Next

\* Whatever implements the catalogue serves its clients whole files: the refinement
\* loses nothing of what a client relies on.
THEOREM CatalogueServes == Abstract!Spec => []Abstract!Servable
<1>1. Abstract!Init => PromiseInv
  BY DEF Abstract!Init, PromiseInv, CatalogueTypes, Pool, Path, OfferStored,
     Abstract!Servable, Abstract!Promised, Abstract!Listed
<1>2. PromiseInv /\ [Abstract!Next]_(Abstract!vars) => PromiseInv'
  BY PromiseStep
<1>3. PromiseInv => Abstract!Servable
  BY DEF PromiseInv
<1> QED
  BY <1>1, <1>2, <1>3, PTL DEF Abstract!Spec

\* So the repository's clients are served, by the refinement alone: storage.py and
\* publish.py keep the promise through every handler, crash and restart.
THEOREM ClientsServed == Spec => []Abstract!Servable
  BY CatalogueImplemented, CatalogueServes, PTL DEF ImplementsCatalogue
=============================================================================
