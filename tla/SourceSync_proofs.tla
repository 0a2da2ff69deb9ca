-------------------------- MODULE SourceSync_proofs --------------------------
(* Proofs about SourceSync: no source is left running, nothing is recorded for *)
(* a source that is gone, and a run that ends well has settled what it listed. *)
EXTENDS SourceSync, TLAPS

\* What is being downloaded is an asset.
AssetInv == ~Idle /\ run.pc = "download" => run.asset # None

Downloading(a) == run.pc = "download" /\ a = run.asset

\* Whatever becomes of its source, what a run still has to record an outcome for
\* is pending, or went with the source.
OpenInv ==
    ~Idle =>
        /\ run.pc \in {"publish", "fetch"} => run.seen = {}
        /\ run.todo \subseteq run.seen
        /\ run.batch \subseteq run.seen
        /\ run.pc = "download" => run.asset \in run.seen
        /\ \A a, b \in run.seen : Key(a) = Key(b) => a = b
        /\ run.todo \cap run.batch = {}
        /\ run.pc = "download" => run.asset \notin run.todo \cup run.batch
        /\ \A a \in run.seen : a \in run.batch \/ Downloading(a)
              => artifact[run.id][Key(a)] \in {"pending", None}

\* The assets of a listing have names of their own, and each is still to be
\* begun, in the batch as pending, or final for this run, unless the run is
\* going to end with an error.
WorkInv ==
    ~Idle /\ ~run.cut /\ ~Fixed =>
        /\ Exists(run.id)
        /\ run.pc \in {"publish", "fetch"} => run.seen = {}
        /\ run.todo \subseteq run.seen
        /\ run.batch \subseteq run.seen
        /\ run.pc = "download" => run.asset \in run.seen
        /\ \A a, b \in run.seen : Key(a) = Key(b) => a = b
        /\ run.todo \cap run.batch = {}
        /\ run.pc = "download" => run.asset \notin run.todo \cup run.batch
        /\ \A a \in run.seen : a \in run.batch \/ Downloading(a)
              => artifact[run.id][Key(a)] = "pending"
        /\ run.pc = "record" => run.todo = {}
        /\ run.pc # "validator"
        /\ run.pc = "finish" /\ ~run.error => run.todo = {} /\ run.batch = {}
        /\ ~run.error => \A a \in run.seen :
              a \in run.todo \/ a \in run.batch \/ Downloading(a) \/ Final(a)

Inv == TypeOK /\ AssetInv /\ RunningHasRunner /\ NoStrayArtifact /\ OpenInv /\ WorkInv

-----------------------------------------------------------------------------

\* An asset has an external id.
LEMMA KeyOfAsset == \A a \in Asset : Key(a) \in ExternalId
  BY DEF ExternalId

\* A read or recorded outcome keeps the table's type.
LEMMA RecordedType ==
  ASSUME TypeOK, ~Idle, NEW a \in Asset, NEW outcome \in Outcome
  PROVE  Recorded(a, outcome) \in [Source -> [ExternalId -> Outcome \cup {None}]]
  BY KeyOfAsset DEF TypeOK, Recorded, Run, Idle

\* What upload_commit leaves is a repository.
LEMMA WithPlacedType ==
  ASSUME TypeOK, NEW placed \in SUBSET Asset
  PROVE  WithPlaced(placed) \in [Package -> Content \cup {None}]
  <1> SUFFICES ASSUME NEW p \in Package
               PROVE  WithPlaced(placed)[p] \in Content \cup {None}
    BY DEF WithPlaced
  <1>1. CASE \E a \in placed : a.pkg = p
    <2>1. (CHOOSE a \in placed : a.pkg = p) \in placed
      BY <1>1
    <2> QED  BY <1>1, <2>1 DEF WithPlaced, Asset
  <1>2. CASE ~ \E a \in placed : a.pkg = p
    BY <1>2 DEF WithPlaced, TypeOK
  <1> QED  BY <1>1, <1>2

\* A step by an administrator, or of the clock, keeps the types.
LEMMA TypeAdmin ==
  ASSUME TypeOK, Admin \/ \E s \in Source : TimePasses(s)
  PROVE  TypeOK'
  <1>1. ASSUME NEW s \in Source, create_source(s)  PROVE TypeOK'
    <2>1. PICK l \in Location, on \in BOOLEAN :
            source' = [source EXCEPT ![s] = [loc |-> l, enabled |-> on, status |-> "never",
                                             due |-> TRUE, etag |-> None]]
      BY <1>1 DEF create_source
    <2>2. [loc |-> l, enabled |-> on, status |-> "never", due |-> TRUE, etag |-> None] \in Row
      BY DEF Row, Status
    <2> QED  BY <1>1, <2>1, <2>2 DEF create_source, TypeOK
  <1>2. ASSUME NEW s \in Source, update_source(s)  PROVE TypeOK'
    <2>1. PICK l \in Location, on \in BOOLEAN :
            source' = [source EXCEPT ![s].loc = l, ![s].enabled = on, ![s].due = TRUE]
      BY <1>2 DEF update_source
    <2>2. source[s] \in Row
      BY <1>2 DEF update_source, Exists, TypeOK
    <2>3. source'[s] \in Row
      BY <2>1, <2>2 DEF Row, TypeOK
    <2>4. source' \in [Source -> Row \cup {None}]
      BY <2>1, <2>3 DEF TypeOK
    <2> QED  BY <1>2, <2>4 DEF update_source, TypeOK
  <1>3. ASSUME NEW s \in Source, queue_source(s)  PROVE TypeOK'
    <2>1. source[s] \in Row
      BY <1>3 DEF queue_source, Exists, TypeOK
    <2>2. source' \in [Source -> Row \cup {None}]
      BY <1>3, <2>1 DEF queue_source, TypeOK, Row, Status
    <2> QED  BY <1>3, <2>2 DEF queue_source, TypeOK
  <1>4. ASSUME NEW s \in Source, CheckDelete(s)  PROVE TypeOK'
    BY <1>4 DEF CheckDelete, TypeOK
  <1>5. ASSUME NEW s \in Source, delete_source(s)  PROVE TypeOK'
    <2>1. run' \in Run \cup {None}
      BY <1>5 DEF delete_source, TypeOK, Run, Idle
    <2>2. artifact' \in [Source -> [ExternalId -> Outcome \cup {None}]]
      BY <1>5 DEF delete_source, TypeOK, NoArtifacts
    <2> QED  BY <1>5, <2>1, <2>2 DEF delete_source, TypeOK
  <1>6. ASSUME NEW a \in Asset, UploadPackage(a)  PROVE TypeOK'
    BY <1>6 DEF UploadPackage, TypeOK, Asset
  <1>7. ASSUME NEW p \in Package, DeletePackage(p)  PROVE TypeOK'
    BY <1>7 DEF DeletePackage, TypeOK
  <1>8. ASSUME NEW s \in Source, TimePasses(s)  PROVE TypeOK'
    <2>1. source[s] \in Row
      BY <1>8 DEF TimePasses, Exists, TypeOK
    <2>2. source' \in [Source -> Row \cup {None}]
      BY <1>8, <2>1 DEF TimePasses, TypeOK, Row
    <2> QED  BY <1>8, <2>2 DEF TimePasses, TypeOK
  <1> QED
    BY <1>1, <1>2, <1>3, <1>4, <1>5, <1>6, <1>7, <1>8 DEF Admin

\* A step of a run leaves it a run, the same one, of the same source.
LEMMA SameRun ==
  ASSUME TypeOK, AssetInv,
         \/ Published \/ RunFails \/ ListAssets \/ NotModified \/ FetchFile
         \/ SourceGone \/ _download \/ NothingToImport \/ RecordDone
         \/ DownloadFails \/ upload_commit \/ UploadFails \/ SaveValidator
         \/ \E a \in Asset : SkipFinal(a) \/ _begin_artifact(a) \/ RecordResult(a)
  PROVE  /\ run # None /\ run \in Run /\ up
         /\ run' # None /\ run' \in Run
         /\ run'.id = run.id /\ run'.loc = run.loc
         /\ run'.manual = run.manual /\ run'.cut = run.cut
  <1>1. run # None /\ run \in Run /\ up
    BY DEF Published, RunFails, ListAssets, NotModified, FetchFile, SourceGone, _download,
           NothingToImport, RecordDone, DownloadFails, upload_commit, UploadFails,
           SaveValidator, SkipFinal, _begin_artifact, RecordResult, At, Idle, TypeOK
  <1> DEFINE Same == /\ run'.id = run.id /\ run'.loc = run.loc
                     /\ run'.manual = run.manual /\ run'.cut = run.cut
                     /\ run' \in Run
  <1>2. ASSUME \/ Published \/ RunFails \/ SourceGone \/ NothingToImport \/ RecordDone
               \/ DownloadFails \/ UploadFails \/ SaveValidator
        PROVE  Same
    <2>1. CASE Published \/ NothingToImport \/ RecordDone
      BY <1>1, <2>1 DEF Published, NothingToImport, RecordDone, Goto, Run
    <2>2. CASE RunFails \/ UploadFails
      BY <1>1, <2>2 DEF RunFails, UploadFails, Fail, Run
    <2>3. CASE SourceGone \/ DownloadFails
      BY <1>1, <2>3 DEF SourceGone, DownloadFails, Goto, Fail, Run
    <2>4. CASE SaveValidator
      BY <1>1, <2>4 DEF SaveValidator, Goto, Run
    <2> QED  BY <1>2, <2>1, <2>2, <2>3, <2>4
  <1>3. ASSUME ListAssets  PROVE Same
    <2>1. PICK offered \in Offers(run.loc) :
            run' = [run EXCEPT !.pc = "begin", !.seen = offered, !.todo = offered]
      BY <1>3 DEF ListAssets
    <2>2. offered \in SUBSET Asset
      BY DEF Offers
    <2> QED  BY <1>1, <2>1, <2>2 DEF Run
  <1>4. ASSUME NotModified  PROVE Same
    <2>1. PICK a \in Asset : run' = [run EXCEPT !.pc = "finish", !.seen = {a}]
      BY <1>4 DEF NotModified
    <2> QED  BY <1>1, <2>1 DEF Run
  <1>5. ASSUME FetchFile  PROVE Same
    <2>1. PICK a \in Asset : run' = [run EXCEPT !.pc = "begin", !.seen = {a}, !.todo = {a}]
      BY <1>5 DEF FetchFile
    <2> QED  BY <1>1, <2>1 DEF Run
  <1>6. ASSUME _download  PROVE Same
    <2>1. run.asset \in Asset
      BY <1>1, <1>6 DEF AssetInv, _download, At, Idle, Run
    <2> QED  BY <1>1, <1>6, <2>1 DEF _download, Run
  <1>7. ASSUME upload_commit  PROVE Same
    <2>1. PICK placed \in SUBSET run.batch, published \in BOOLEAN :
            run' = [run EXCEPT !.pc = "record", !.placed = placed, !.error = @ \/ ~published]
      BY <1>7 DEF upload_commit
    <2>2. placed \in SUBSET Asset /\ (run.error \/ ~published) \in BOOLEAN
      BY <1>1 DEF Run
    <2> QED  BY <1>1, <2>1, <2>2 DEF Run
  <1>8. ASSUME NEW a \in Asset, SkipFinal(a)  PROVE Same
    BY <1>1, <1>8 DEF SkipFinal, Run
  <1>11. ASSUME NEW a \in Asset, _begin_artifact(a)  PROVE Same
    <2>1. (IF Fixed THEN {a} ELSE run.batch) \in SUBSET Asset
      BY <1>1 DEF Run
    <2> QED  BY <1>1, <1>11, <2>1 DEF _begin_artifact, Run
  <1>9. ASSUME NEW a \in Asset, RecordResult(a)  PROVE Same
    <2>1. (run.error \/ Result(a) = "conflict") \in BOOLEAN
      OBVIOUS
    <2> QED  BY <1>1, <1>9, <2>1 DEF RecordResult, Run
  <1>10. Same
    BY <1>2, <1>3, <1>4, <1>5, <1>6, <1>7, <1>8, <1>9, <1>11
  <1> QED  BY <1>1, <1>10, NoneAssumption

\* One that only moves the run keeps the types.
LEMMA TypeRunOnly ==
  ASSUME TypeOK, AssetInv,
         \/ Published \/ RunFails \/ ListAssets \/ NotModified \/ FetchFile
         \/ SourceGone \/ _download \/ NothingToImport \/ RecordDone
         \/ \E a \in Asset : SkipFinal(a)
  PROVE  TypeOK'
  <1>1. UNCHANGED <<source, artifact, repo, deleting, lost, up>>
    BY DEF Published, RunFails, ListAssets, NotModified, FetchFile, SourceGone,
           _download, NothingToImport, RecordDone, SkipFinal
  <1>2. run' \in Run
    BY SameRun
  <1> QED  BY <1>1, <1>2 DEF TypeOK

\* So does one that writes to the database or to the repository.
LEMMA TypeWrites ==
  ASSUME TypeOK, AssetInv,
         \/ \E a \in Asset : _begin_artifact(a) \/ RecordResult(a)
         \/ DownloadFails \/ upload_commit \/ UploadFails \/ SaveValidator
         \/ _finish_source \/ FinishFails \/ \E s \in Source : _claim_source(s)
  PROVE  TypeOK'
  <1>1. ASSUME NEW a \in Asset, _begin_artifact(a)  PROVE TypeOK'
    <2>1. run \in Run
      BY <1>1 DEF TypeOK, _begin_artifact, At
    <2>2. run' \in Run
      BY <1>1, SameRun
    <2>3. artifact' \in [Source -> [ExternalId -> Outcome \cup {None}]]
      BY <1>1, <2>1, KeyOfAsset DEF _begin_artifact, TypeOK, Run, Outcome
    <2> QED  BY <1>1, <2>2, <2>3 DEF _begin_artifact, TypeOK
  <1>2. ASSUME NEW a \in Asset, RecordResult(a)  PROVE TypeOK'
    <2>1. run \in Run /\ ~Idle
      BY <1>2 DEF TypeOK, RecordResult, At, Idle
    <2>3. run' \in Run
      BY <1>2, SameRun
    <2>4. Result(a) \in Outcome
      BY DEF Result, Outcome
    <2>5. artifact' \in [Source -> [ExternalId -> Outcome \cup {None}]]
      BY <1>2, <2>1, <2>4, RecordedType DEF RecordResult
    <2> QED  BY <1>2, <2>3, <2>5 DEF RecordResult, TypeOK
  <1>3. ASSUME DownloadFails  PROVE TypeOK'
    <2>1. run \in Run /\ ~Idle
      BY <1>3 DEF TypeOK, DownloadFails, At, Idle
    <2>2. run.asset \in Asset
      BY <1>3, <2>1 DEF AssetInv, DownloadFails, At, Run
    <2>3. PICK outcome \in {"rejected", "failed"} : artifact' = Recorded(run.asset, outcome)
      BY <1>3 DEF DownloadFails
    <2>4. artifact' \in [Source -> [ExternalId -> Outcome \cup {None}]]
      BY <2>1, <2>2, <2>3, RecordedType DEF Outcome
    <2>5. run' \in Run
      BY <1>3, SameRun
    <2> QED  BY <1>3, <2>4, <2>5 DEF DownloadFails, TypeOK
  <1>4. ASSUME upload_commit  PROVE TypeOK'
    <2>1. run \in Run
      BY <1>4 DEF TypeOK, upload_commit, At
    <2>2. PICK placed \in SUBSET run.batch : repo' = WithPlaced(placed)
      BY <1>4 DEF upload_commit
    <2>4. run' \in Run
      BY <1>4, SameRun
    <2>5. repo' \in [Package -> Content \cup {None}]
      BY <2>1, <2>2, WithPlacedType DEF Run
    <2> QED  BY <1>4, <2>4, <2>5 DEF upload_commit, TypeOK
  <1>5. ASSUME UploadFails  PROVE TypeOK'
    <2>1. run \in Run
      BY <1>5 DEF TypeOK, UploadFails, At
    <2>2. PICK placed \in SUBSET run.batch : repo' = WithPlaced(placed)
      BY <1>5 DEF UploadFails
    <2>3. repo' \in [Package -> Content \cup {None}]
      BY <2>1, <2>2, WithPlacedType DEF Run
    <2>4. run' \in Run
      BY <1>5, SameRun
    <2> QED  BY <1>5, <2>3, <2>4 DEF UploadFails, TypeOK
  <1>6. ASSUME SaveValidator  PROVE TypeOK'
    <2>1. run \in Run
      BY <1>6 DEF TypeOK, SaveValidator, At
    <2>2. run' \in Run
      BY <1>6, SameRun
    <2>3. PICK tag \in {None, run.asset} :
            source' = IF Exists(run.id) THEN [source EXCEPT ![run.id].etag = tag] ELSE source
      BY <1>6 DEF SaveValidator
    <2>4. tag \in Asset \cup {None}
      BY <2>1 DEF Run
    <2>5. CASE Exists(run.id)
      <3>1. source[run.id] \in Row
        BY <2>1, <2>5 DEF Exists, TypeOK, Run
      <3> QED  BY <1>6, <2>2, <2>3, <2>4, <2>5, <3>1 DEF SaveValidator, TypeOK, Row
    <2> QED  BY <1>6, <2>2, <2>3, <2>5 DEF SaveValidator, TypeOK
  <1>7. ASSUME _finish_source  PROVE TypeOK'
    <2>1. run \in Run
      BY <1>7 DEF TypeOK, _finish_source, At
    <2>2. CASE Exists(run.id)
      <3>1. source[run.id] \in Row
        BY <2>1, <2>2 DEF Exists, TypeOK, Run
      <3>2. source' = [source EXCEPT
                         ![run.id].status = IF run.error THEN "error" ELSE "success",
                         ![run.id].due = FALSE]
        BY <1>7, <2>2 DEF _finish_source
      <3>3. (IF run.error THEN "error" ELSE "success") \in Status
        BY DEF Status
      <3>4. source' \in [Source -> Row \cup {None}]
        BY <2>1, <3>1, <3>2, <3>3 DEF TypeOK, Row
      <3> QED  BY <1>7, <3>4 DEF _finish_source, TypeOK
    <2> QED  BY <1>7, <2>2 DEF _finish_source, TypeOK
  <1>8. ASSUME FinishFails  PROVE TypeOK'
    BY <1>8 DEF FinishFails, TypeOK, At, Run
  <1>9. ASSUME NEW s \in Source, _claim_source(s)  PROVE TypeOK'
    <2>1. source[s] \in Row
      BY <1>9 DEF _claim_source, Claimable, Exists, TypeOK
    <2>2. source' \in [Source -> Row \cup {None}]
      BY <1>9, <2>1 DEF _claim_source, TypeOK, Row, Status
    <2>3. run' \in Run
      BY <1>9, <2>1 DEF _claim_source, Row, Run
    <2> QED  BY <1>9, <2>2, <2>3 DEF _claim_source, TypeOK
  <1> QED
    BY <1>1, <1>2, <1>3, <1>4, <1>5, <1>6, <1>7, <1>8, <1>9

\* Types hold in every state.
LEMMA TypeStep == TypeOK /\ AssetInv /\ [Next]_vars => TypeOK'
  <1> SUFFICES ASSUME TypeOK, AssetInv, [Next]_vars  PROVE TypeOK'
    OBVIOUS
  <1>1. CASE Admin \/ \E s \in Source : TimePasses(s)
    BY <1>1, TypeAdmin
  <1>2. CASE \/ Published \/ RunFails \/ ListAssets \/ NotModified \/ FetchFile
             \/ SourceGone \/ _download \/ NothingToImport \/ RecordDone
             \/ \E a \in Asset : SkipFinal(a)
    BY <1>2, TypeRunOnly
  <1>3. CASE \/ \E a \in Asset : _begin_artifact(a) \/ RecordResult(a)
             \/ DownloadFails \/ upload_commit \/ UploadFails \/ SaveValidator
             \/ _finish_source \/ FinishFails \/ \E s \in Source : _claim_source(s)
    BY <1>3, TypeWrites
  <1>4. CASE Crash
    BY <1>4 DEF Crash, TypeOK
  <1>5. CASE recover_interrupted_source_runs
    <2>1. ASSUME NEW s \in Source  PROVE source'[s] \in Row \cup {None}
      <3>1. CASE Exists(s) /\ source[s].status = "running"
        <4>1. source[s] \in Row /\ source'[s] = [source[s] EXCEPT !.status = "error", !.due = TRUE]
          BY <1>5, <3>1 DEF recover_interrupted_source_runs, TypeOK, Exists
        <4> QED  BY <4>1 DEF Row, Status
      <3> QED  BY <1>5, <3>1 DEF recover_interrupted_source_runs, TypeOK
    <2>2. source' \in [Source -> Row \cup {None}]
      BY <1>5, <2>1 DEF recover_interrupted_source_runs
    <2> QED  BY <1>5, <2>2 DEF recover_interrupted_source_runs, TypeOK
  <1>6. CASE UNCHANGED vars
    BY <1>6 DEF vars, TypeOK
  <1> QED  BY <1>1, <1>2, <1>3, <1>4, <1>5, <1>6 DEF Next, Sync, Fault

\* What is being downloaded has just been begun.
LEMMA AssetStep == TypeOK /\ AssetInv /\ [Next]_vars => AssetInv'
  <1> SUFFICES ASSUME TypeOK, AssetInv, [Next]_vars  PROVE AssetInv'
    OBVIOUS
  <1>1. CASE run' = run \/ run' = None
    BY <1>1 DEF AssetInv, Idle
  <1>2. ASSUME NEW s \in Source, delete_source(s)  PROVE AssetInv'
    BY <1>2 DEF delete_source, TypeOK, Run, AssetInv, Idle
  <1>3. ASSUME NEW a \in Asset, _begin_artifact(a)  PROVE AssetInv'
    BY <1>3, NoneAssumption DEF _begin_artifact, TypeOK, Run, AssetInv, Idle, At
  <1>4. ASSUME \/ Published \/ RunFails \/ ListAssets \/ NotModified \/ FetchFile
               \/ SourceGone \/ _download \/ NothingToImport \/ RecordDone
               \/ DownloadFails \/ UploadFails \/ SaveValidator
        PROVE  run'.pc # "download"
    BY <1>4 DEF Published, RunFails, ListAssets, NotModified, FetchFile, SourceGone,
                _download, NothingToImport, RecordDone, DownloadFails, UploadFails,
                SaveValidator, Goto, Fail, TypeOK, Run, At, Idle
  <1>5. ASSUME NEW a \in Asset, SkipFinal(a) \/ RecordResult(a)  PROVE run'.pc # "download"
    BY <1>5 DEF SkipFinal, RecordResult, TypeOK, Run, At
  <1>6. ASSUME upload_commit  PROVE run'.pc # "download"
    BY <1>6 DEF upload_commit, TypeOK, Run, At
  <1>7. ASSUME NEW s \in Source, _claim_source(s)  PROVE run'.pc # "download"
    BY <1>7 DEF _claim_source
  <1>8. CASE run'.pc # "download"
    BY <1>8 DEF AssetInv
  <1> QED
    BY <1>1, <1>2, <1>3, <1>4, <1>5, <1>6, <1>7, <1>8
    DEF Next, Admin, Sync, Fault, vars, create_source, update_source, queue_source,
        CheckDelete, UploadPackage, DeletePackage, TimePasses, _finish_source,
        FinishFails, Crash, recover_interrupted_source_runs

-----------------------------------------------------------------------------

\* The status of a source and the run that works on it agree.
LEMMA RunnerStep ==
  TypeOK /\ AssetInv /\ RunningHasRunner /\ [Next]_vars => RunningHasRunner'
  <1> SUFFICES ASSUME TypeOK, AssetInv, RunningHasRunner, [Next]_vars, up',
                      NEW t \in Source, t \notin lost', Exists(t)', source'[t].status = "running"
               PROVE  ~Idle' /\ run'.id = t
    BY DEF RunningHasRunner
  <1> USE NoneAssumption
  <1>1. ASSUME run' \in Run, run'.id = run.id, ~Idle, up, t \notin lost,
               Exists(t), source[t].status = "running"
        PROVE  ~Idle' /\ run'.id = t
    BY <1>1 DEF RunningHasRunner, Idle
  <1>2. ASSUME run' = run, up, t \notin lost, Exists(t), source[t].status = "running"
        PROVE  ~Idle' /\ run'.id = t
    BY <1>2 DEF RunningHasRunner, Idle
  <1>3. ASSUME NEW s \in Source, create_source(s)  PROVE ~Idle' /\ run'.id = t
    <2>1. PICK l \in Location, on \in BOOLEAN :
            source' = [source EXCEPT ![s] = [loc |-> l, enabled |-> on, status |-> "never",
                                             due |-> TRUE, etag |-> None]]
      BY <1>3 DEF create_source
    <2>2. t # s
      BY <2>1 DEF TypeOK
    <2> QED  BY <1>2, <1>3, <2>1, <2>2 DEF create_source, TypeOK, Exists
  <1>4. ASSUME NEW s \in Source, update_source(s)  PROVE ~Idle' /\ run'.id = t
    <2>1. PICK l \in Location, on \in BOOLEAN :
            source' = [source EXCEPT ![s].loc = l, ![s].enabled = on, ![s].due = TRUE]
      BY <1>4 DEF update_source
    <2>2. source[s] \in Row
      BY <1>4 DEF update_source, Exists, TypeOK
    <2>3. Exists(t) /\ source[t].status = "running"
      BY <1>4, <2>1, <2>2 DEF update_source, TypeOK, Exists, Row
    <2> QED  BY <1>2, <1>4, <2>3 DEF update_source
  <1>5. ASSUME NEW s \in Source, queue_source(s)  PROVE ~Idle' /\ run'.id = t
    <2>1. source[s] \in Row
      BY <1>5 DEF queue_source, Exists, TypeOK
    <2>2. t # s
      BY <1>5, <2>1 DEF queue_source, TypeOK, Row
    <2> QED  BY <1>2, <1>5, <2>2 DEF queue_source, TypeOK, Exists
  <1>6. ASSUME NEW s \in Source, delete_source(s)  PROVE ~Idle' /\ run'.id = t
    <2>1. t # s /\ Exists(t) /\ source[t].status = "running" /\ t \notin lost /\ up
      BY <1>6 DEF delete_source, TypeOK, Exists
    <2>2. ~Idle /\ run.id = t /\ run \in Run
      BY <2>1 DEF RunningHasRunner, TypeOK, Idle
    <2> QED  BY <1>6, <2>1, <2>2 DEF delete_source, Run, Idle
  <1>7. ASSUME NEW s \in Source, TimePasses(s)  PROVE ~Idle' /\ run'.id = t
    <2>1. source[s] \in Row
      BY <1>7 DEF TimePasses, Exists, TypeOK
    <2>2. Exists(t) /\ source[t].status = "running"
      BY <1>7, <2>1 DEF TimePasses, TypeOK, Exists, Row
    <2> QED  BY <1>2, <1>7, <2>2 DEF TimePasses
  <1>8. ASSUME NEW s \in Source, _claim_source(s)  PROVE ~Idle' /\ run'.id = t
    <2>1. t = s
      BY <1>8 DEF _claim_source, RunningHasRunner, TypeOK, Exists
    <2>2. run' \in Run
      BY <1>8 DEF _claim_source, Claimable, Exists, Row, Run, TypeOK
    <2> QED  BY <1>8, <2>1, <2>2 DEF _claim_source, Idle
  <1>9. ASSUME SaveValidator  PROVE ~Idle' /\ run'.id = t
    <2>1. run \in Run /\ ~Idle /\ up
      BY <1>9 DEF SaveValidator, At, TypeOK, Idle
    <2>2. PICK tag \in {None, run.asset} :
            source' = IF Exists(run.id) THEN [source EXCEPT ![run.id].etag = tag] ELSE source
      BY <1>9 DEF SaveValidator
    <2>3. Exists(run.id) => source[run.id] \in Row
      BY <2>1 DEF Exists, TypeOK, Run
    <2>4. Exists(t) /\ source[t].status = "running"
      BY <2>1, <2>2, <2>3 DEF TypeOK, Exists, Row, Run
    <2>5. run' \in Run /\ run'.id = run.id /\ lost' = lost
      BY <1>9, <2>1 DEF SaveValidator, Goto, Run
    <2> QED  BY <1>1, <2>1, <2>4, <2>5
  <1>10. ASSUME _finish_source  PROVE FALSE
    <2>1. run \in Run /\ ~Idle /\ up
      BY <1>10 DEF _finish_source, At, TypeOK, Idle
    <2>2. Exists(run.id) => source[run.id] \in Row
      BY <2>1 DEF Exists, TypeOK, Run
    <2>3. t # run.id
      <3>1. CASE Exists(run.id)
        <4>1. source' = [source EXCEPT
                           ![run.id].status = IF run.error THEN "error" ELSE "success",
                           ![run.id].due = FALSE]
          BY <1>10, <3>1 DEF _finish_source
        <4> QED  BY <2>1, <2>2, <3>1, <4>1 DEF TypeOK, Row, Run
      <3> QED  BY <1>10, <3>1 DEF _finish_source, Exists
    <2>4. Exists(t) /\ source[t].status = "running" /\ t \notin lost
      BY <1>10, <2>1, <2>3 DEF _finish_source, Exists, TypeOK, Run
    <2> QED  BY <2>1, <2>3, <2>4 DEF RunningHasRunner
  <1>11. ASSUME FinishFails  PROVE FALSE
    BY <1>11 DEF FinishFails, RunningHasRunner, Exists, At, Idle
  <1>12. ASSUME recover_interrupted_source_runs  PROVE FALSE
    <2>1. CASE Exists(t) /\ source[t].status = "running"
      <3>1. source[t] \in Row /\ source'[t] = [source[t] EXCEPT !.status = "error", !.due = TRUE]
        BY <1>12, <2>1 DEF recover_interrupted_source_runs, TypeOK, Exists
      <3> QED  BY <3>1 DEF Row
    <2> QED  BY <1>12, <2>1 DEF recover_interrupted_source_runs, Exists
  <1>13. ASSUME \/ \E s \in Source : CheckDelete(s)
                \/ \E a \in Asset : UploadPackage(a)
                \/ \E p \in Package : DeletePackage(p)
                \/ UNCHANGED vars
         PROVE  ~Idle' /\ run'.id = t
    <2>1. UNCHANGED <<source, run, lost, up>>
      BY <1>13 DEF CheckDelete, UploadPackage, DeletePackage, vars
    <2> QED  BY <1>2, <2>1 DEF Exists
  <1>14. ASSUME \/ Published \/ RunFails \/ ListAssets \/ NotModified \/ FetchFile
                \/ SourceGone \/ _download \/ NothingToImport \/ RecordDone
                \/ DownloadFails \/ upload_commit \/ UploadFails
                \/ \E a \in Asset : SkipFinal(a) \/ _begin_artifact(a) \/ RecordResult(a)
         PROVE  ~Idle' /\ run'.id = t
    <2>1. UNCHANGED <<source, lost, up>>
      BY <1>14 DEF Published, RunFails, ListAssets, NotModified, FetchFile, SourceGone,
                   _download, NothingToImport, RecordDone, DownloadFails, upload_commit,
                   UploadFails, SkipFinal, _begin_artifact, RecordResult
    <2>2. run \in Run /\ ~Idle
      BY <1>14 DEF Published, RunFails, ListAssets, NotModified, FetchFile, SourceGone,
                   _download, NothingToImport, RecordDone, DownloadFails, upload_commit,
                   UploadFails, SkipFinal, _begin_artifact, RecordResult, At, Idle, TypeOK
    <2>3. run' # None /\ run'.id = run.id
      BY <1>14, SameRun
    <2> QED  BY <2>1, <2>2, <2>3 DEF RunningHasRunner, Exists, Idle
  <1> QED
    BY <1>3, <1>4, <1>5, <1>6, <1>7, <1>8, <1>9, <1>10, <1>11, <1>12, <1>13, <1>14
    DEF Next, Admin, Sync, Fault, Crash

\* Rows come and go only by these two requests.
LEMMA RowStep ==
  ASSUME TypeOK, [Next]_vars, NEW t \in Source
  PROVE  /\ ~Exists(t) /\ Exists(t)' => create_source(t)
         /\ Exists(t) /\ ~Exists(t)' => delete_source(t)
  <1> USE NoneAssumption
  <1> DEFINE Goal == /\ ~Exists(t) /\ Exists(t)' => create_source(t)
                     /\ Exists(t) /\ ~Exists(t)' => delete_source(t)
  <1>1. ASSUME source'[t] = source[t]  PROVE Goal
    BY <1>1 DEF Exists
  <1>2. ASSUME source[t] \in Row, source'[t] \in Row  PROVE Goal
    BY <1>2 DEF Exists
  <1>3. ASSUME NEW s \in Source, create_source(s)  PROVE Goal
    <2>1. s = t \/ source'[t] = source[t]
      BY <1>3 DEF create_source, TypeOK
    <2>2. ASSUME s = t  PROVE Goal
      <3>1. PICK l \in Location, on \in BOOLEAN :
              source' = [source EXCEPT ![s] = [loc |-> l, enabled |-> on, status |-> "never",
                                               due |-> TRUE, etag |-> None]]
        BY <1>3 DEF create_source
      <3>2. source'[t] \in Row
        BY <2>2, <3>1 DEF Row, Status, TypeOK
      <3> QED  BY <1>3, <2>2, <3>2 DEF Exists
    <2> QED  BY <1>1, <2>1, <2>2
  <1>4. ASSUME NEW s \in Source, update_source(s)  PROVE Goal
    <2>1. PICK l \in Location, on \in BOOLEAN :
            source' = [source EXCEPT ![s].loc = l, ![s].enabled = on, ![s].due = TRUE]
      BY <1>4 DEF update_source
    <2>2. source[s] \in Row
      BY <1>4 DEF update_source, Exists, TypeOK
    <2>3. source'[s] \in Row /\ (s = t \/ source'[t] = source[t])
      BY <2>1, <2>2 DEF Row, TypeOK
    <2> QED  BY <1>1, <1>2, <2>2, <2>3
  <1>5. ASSUME NEW s \in Source, queue_source(s)  PROVE Goal
    <2>1. source[s] \in Row
      BY <1>5 DEF queue_source, Exists, TypeOK
    <2>2. source'[s] \in Row /\ (s = t \/ source'[t] = source[t])
      BY <1>5, <2>1 DEF queue_source, Row, Status, TypeOK
    <2> QED  BY <1>1, <1>2, <2>1, <2>2
  <1>6. ASSUME NEW s \in Source, delete_source(s)  PROVE Goal
    BY <1>6 DEF delete_source, TypeOK, Exists
  <1>7. ASSUME NEW s \in Source, TimePasses(s)  PROVE Goal
    <2>1. source[s] \in Row
      BY <1>7 DEF TimePasses, Exists, TypeOK
    <2>2. source'[s] \in Row /\ (s = t \/ source'[t] = source[t])
      BY <1>7, <2>1 DEF TimePasses, Row, TypeOK
    <2> QED  BY <1>1, <1>2, <2>1, <2>2
  <1>8. ASSUME NEW s \in Source, _claim_source(s)  PROVE Goal
    <2>1. source[s] \in Row
      BY <1>8 DEF _claim_source, Claimable, Exists, TypeOK
    <2>2. source'[s] \in Row /\ (s = t \/ source'[t] = source[t])
      BY <1>8, <2>1 DEF _claim_source, Row, Status, TypeOK
    <2> QED  BY <1>1, <1>2, <2>1, <2>2
  <1>9. ASSUME SaveValidator  PROVE Goal
    <2>1. run \in Run
      BY <1>9 DEF SaveValidator, At, TypeOK
    <2>2. PICK tag \in {None, run.asset} :
            source' = IF Exists(run.id) THEN [source EXCEPT ![run.id].etag = tag] ELSE source
      BY <1>9 DEF SaveValidator
    <2>3. CASE Exists(run.id)
      <3>1. source[run.id] \in Row
        BY <2>1, <2>3 DEF Exists, TypeOK, Run
      <3>2. source'[run.id] \in Row /\ (run.id = t \/ source'[t] = source[t])
        BY <2>1, <2>2, <2>3, <3>1 DEF Row, TypeOK, Run
      <3> QED  BY <1>1, <1>2, <3>1, <3>2
    <2> QED  BY <1>1, <2>2, <2>3
  <1>10. ASSUME _finish_source  PROVE Goal
    <2>1. run \in Run
      BY <1>10 DEF _finish_source, At, TypeOK
    <2>2. CASE Exists(run.id)
      <3>1. source[run.id] \in Row
        BY <2>1, <2>2 DEF Exists, TypeOK, Run
      <3>2. source' = [source EXCEPT
                         ![run.id].status = IF run.error THEN "error" ELSE "success",
                         ![run.id].due = FALSE]
        BY <1>10, <2>2 DEF _finish_source
      <3>3. (IF run.error THEN "error" ELSE "success") \in Status
        BY DEF Status
      <3>4. source'[run.id] \in Row /\ (run.id = t \/ source'[t] = source[t])
        BY <2>1, <3>1, <3>2, <3>3 DEF Row, TypeOK, Run
      <3> QED  BY <1>1, <1>2, <3>1, <3>4
    <2> QED  BY <1>1, <1>10, <2>2 DEF _finish_source
  <1>11. ASSUME recover_interrupted_source_runs  PROVE Goal
    <2>1. CASE Exists(t) /\ source[t].status = "running"
      <3>1. source[t] \in Row /\ source'[t] = [source[t] EXCEPT !.status = "error", !.due = TRUE]
        BY <1>11, <2>1 DEF recover_interrupted_source_runs, TypeOK, Exists
      <3>2. source'[t] \in Row
        BY <3>1 DEF Row, Status
      <3> QED  BY <1>2, <3>1, <3>2
    <2> QED  BY <1>1, <1>11, <2>1 DEF recover_interrupted_source_runs
  <1>12. ASSUME source' = source  PROVE Goal
    BY <1>1, <1>12
  <1> QED
    BY <1>3, <1>4, <1>5, <1>6, <1>7, <1>8, <1>9, <1>10, <1>11, <1>12
    DEF Next, Admin, Sync, Fault, vars, CheckDelete, UploadPackage, DeletePackage,
        Published, RunFails, ListAssets, NotModified, FetchFile, SourceGone, _download,
        NothingToImport, RecordDone, DownloadFails, upload_commit, UploadFails,
        SkipFinal, _begin_artifact, RecordResult, FinishFails, Crash

\* Which asset's outcome a step writes, and to what.
LEMMA ArtifactStep ==
  ASSUME TypeOK, AssetInv, [Next]_vars,
         ~ \E s \in Source : delete_source(s)
  PROVE  \/ artifact' = artifact
         \/ \E a \in Asset : _begin_artifact(a)
         \/ /\ DownloadFails \/ \E a \in Asset : RecordResult(a)
            /\ run \in Run /\ ~Idle
            /\ \E a \in Asset, outcome \in Outcome :
                  (a \in run.batch \/ Downloading(a)) /\ artifact' = Recorded(a, outcome)
  <1> DEFINE Written == /\ run \in Run /\ ~Idle
                        /\ \E a \in Asset, outcome \in Outcome :
                              /\ a \in run.batch \/ Downloading(a)
                              /\ artifact' = Recorded(a, outcome)
  <1>1. CASE artifact' = artifact
    BY <1>1
  <1>2. ASSUME DownloadFails  PROVE Written
    <2>1. run \in Run /\ ~Idle
      BY <1>2 DEF DownloadFails, At, TypeOK, Idle
    <2>2. run.asset \in Asset /\ Downloading(run.asset)
      BY <1>2, <2>1 DEF AssetInv, DownloadFails, At, Run, Downloading
    <2>3. PICK outcome \in {"rejected", "failed"} : artifact' = Recorded(run.asset, outcome)
      BY <1>2 DEF DownloadFails
    <2> QED  BY <2>1, <2>2, <2>3 DEF Outcome
  <1>3. ASSUME NEW a \in Asset, RecordResult(a)  PROVE Written
    <2>1. Result(a) \in Outcome
      BY DEF Result, Outcome
    <2> QED  BY <1>3, <2>1 DEF RecordResult, At, Idle, TypeOK
  <1> QED
    BY <1>1, <1>2, <1>3
    DEF Next, Admin, Sync, Fault, vars, create_source, update_source, queue_source,
        CheckDelete, UploadPackage, DeletePackage, TimePasses, _claim_source,
        Published, RunFails, ListAssets, NotModified, FetchFile, SourceGone, _download,
        NothingToImport, RecordDone, upload_commit, UploadFails, SkipFinal,
        SaveValidator, _finish_source, FinishFails, Crash, recover_interrupted_source_runs

\* A record of a download or an upload reaches only sources that are there.
LEMMA StrayStep == TypeOK /\ AssetInv /\ NoStrayArtifact /\ [Next]_vars => NoStrayArtifact'
  <1> SUFFICES ASSUME TypeOK, AssetInv, NoStrayArtifact, [Next]_vars,
                      NEW t \in Source, ~Exists(t)'
               PROVE  artifact'[t] = NoArtifacts
    BY DEF NoStrayArtifact
  <1> USE NoneAssumption
  <1>1. CASE \E s \in Source : delete_source(s)
    BY <1>1 DEF delete_source, NoStrayArtifact, Exists, TypeOK
  <1>2. CASE ~ \E s \in Source : delete_source(s)
    <2>1. ~Exists(t) /\ artifact[t] = NoArtifacts
      BY <1>2, RowStep DEF NoStrayArtifact
    <2>2. ASSUME NEW a \in Asset, _begin_artifact(a)  PROVE artifact'[t] = NoArtifacts
      BY <2>1, <2>2 DEF _begin_artifact, At, TypeOK, Run
    <2>3. ASSUME run \in Run, NEW a \in Asset, NEW outcome \in Outcome,
                 artifact' = Recorded(a, outcome)
          PROVE  artifact'[t] = NoArtifacts
      <3>1. CASE run.id = t
        <4>1. artifact[t][Key(a)] = None
          BY <2>1, KeyOfAsset DEF NoArtifacts
        <4> QED  BY <2>1, <2>3, <3>1, <4>1 DEF Recorded
      <3>2. CASE run.id # t
        BY <2>1, <2>3, <3>2 DEF Recorded, TypeOK
      <3> QED  BY <3>1, <3>2
    <2> QED  BY <1>2, <2>1, <2>2, <2>3, ArtifactStep
  <1> QED  BY <1>1, <1>2

-----------------------------------------------------------------------------

\* The assets of one listing differ in their external ids.
LEMMA OffersKeys ==
  ASSUME NEW l \in Location, l \notin File, NEW offered \in Offers(l),
         NEW a \in offered, NEW b \in offered, Key(a) = Key(b)
  PROVE  a = b
  <1>1. a \in Asset /\ b \in Asset /\ a.at = l /\ b.at = l
    BY DEF Offers
  <1>2. a.pkg = b.pkg /\ (l \notin Directory => a.hash = b.hash)
    BY <1>1 DEF Key
  <1>3. CASE l \in Directory
    BY <1>2, <1>3 DEF Offers
  <1>4. CASE l \notin Directory
    BY <1>1, <1>2, <1>4 DEF Asset
  <1> QED  BY <1>3, <1>4

\* A step of the run that writes nothing to the artifacts keeps what is open.
LEMMA OpenRunOnly ==
  ASSUME TypeOK, AssetInv, OpenInv,
         \/ Published \/ RunFails \/ ListAssets \/ NotModified \/ FetchFile
         \/ SourceGone \/ _download \/ NothingToImport \/ RecordDone
         \/ upload_commit \/ UploadFails \/ SaveValidator
         \/ \E a \in Asset : SkipFinal(a)
  PROVE  OpenInv'
  <1> USE NoneAssumption
  <1>1. /\ run # None /\ run \in Run /\ up /\ run' # None /\ run' \in Run
        /\ run'.id = run.id /\ run'.loc = run.loc
    BY SameRun
  <1>2. artifact' = artifact
    BY DEF Published, RunFails, ListAssets, NotModified, FetchFile, SourceGone, _download,
           NothingToImport, RecordDone, upload_commit, UploadFails, SaveValidator, SkipFinal
  <1>3. /\ run.pc \in {"publish", "fetch"} => run.seen = {}
        /\ run.todo \subseteq run.seen /\ run.batch \subseteq run.seen
        /\ run.pc = "download" => run.asset \in run.seen
        /\ \A a, b \in run.seen : Key(a) = Key(b) => a = b
        /\ run.todo \cap run.batch = {}
        /\ run.pc = "download" => run.asset \notin run.todo \cup run.batch
        /\ \A a \in run.seen : a \in run.batch \/ Downloading(a)
              => artifact[run.id][Key(a)] \in {"pending", None}
    BY <1>1 DEF OpenInv, Idle
  <1>4. CASE \/ Published \/ RunFails \/ UploadFails \/ upload_commit \/ SourceGone
             \/ NothingToImport \/ RecordDone \/ SaveValidator
    <2>1. /\ run'.seen = run.seen /\ run'.todo = run.todo /\ run'.batch = run.batch
          /\ run'.pc # "download"
          /\ run'.pc \in {"publish", "fetch"} => run.pc \in {"publish", "fetch"}
      <3>1. CASE Published \/ NothingToImport \/ RecordDone \/ SaveValidator
        BY <1>1, <3>1 DEF Published, NothingToImport, RecordDone, SaveValidator, Goto, At, Run
      <3>2. CASE RunFails \/ UploadFails \/ SourceGone
        BY <1>1, <3>2 DEF RunFails, UploadFails, SourceGone, Fail, Run
      <3>3. CASE upload_commit
        <4>1. PICK placed \in SUBSET run.batch, published \in BOOLEAN :
                run' = [run EXCEPT !.pc = "record", !.placed = placed,
                                   !.error = @ \/ ~published]
          BY <3>3 DEF upload_commit
        <4> QED  BY <1>1, <4>1 DEF Run
      <3> QED  BY <1>4, <3>1, <3>2, <3>3
    <2> QED  BY <1>1, <1>2, <1>3, <2>1 DEF OpenInv, Downloading
  <1>5. ASSUME run.pc = "fetch", run'.pc = "begin", run'.todo = run'.seen, run'.batch = run.batch,
               \A a, b \in run'.seen : Key(a) = Key(b) => a = b
        PROVE  OpenInv'
    <2>1. run'.batch = {}
      BY <1>3, <1>5
    <2> QED  BY <1>5, <2>1 DEF OpenInv, Downloading
  <1>6. CASE ListAssets
    <2>1. PICK offered \in Offers(run.loc) :
            run' = [run EXCEPT !.pc = "begin", !.seen = offered, !.todo = offered]
      BY <1>6 DEF ListAssets
    <2>2. \A a, b \in offered : Key(a) = Key(b) => a = b
      BY <1>1, <1>6, OffersKeys DEF ListAssets, Fixed, Run
    <2>3. run.pc = "fetch"
      BY <1>6 DEF ListAssets, At
    <2>4. /\ run'.pc = "begin" /\ run'.seen = offered /\ run'.todo = offered
          /\ run'.batch = run.batch
      BY <1>1, <2>1 DEF Run
    <2> QED  BY <1>5, <2>2, <2>3, <2>4
  <1>7. CASE FetchFile
    <2>1. PICK a \in Asset : run' = [run EXCEPT !.pc = "begin", !.seen = {a}, !.todo = {a}]
      BY <1>7 DEF FetchFile
    <2>2. run.pc = "fetch"
      BY <1>7 DEF FetchFile, At
    <2>3. /\ run'.pc = "begin" /\ run'.seen = {a} /\ run'.todo = {a}
          /\ run'.batch = run.batch
      BY <1>1, <2>1 DEF Run
    <2> QED  BY <1>5, <2>2, <2>3
  <1>8. CASE NotModified
    <2>1. PICK a \in Asset : run' = [run EXCEPT !.pc = "finish", !.seen = {a}]
      BY <1>8 DEF NotModified
    <2>2. run.pc = "fetch"
      BY <1>8 DEF NotModified, At
    <2>3. /\ run'.pc = "finish" /\ run'.seen = {a} /\ run'.todo = {} /\ run'.batch = {}
      BY <1>1, <1>3, <2>1, <2>2 DEF Run
    <2> QED  BY <2>3 DEF OpenInv, Downloading
  <1>9. CASE _download
    <2>1. /\ run'.pc = "begin" /\ run'.seen = run.seen /\ run'.todo = run.todo
          /\ run'.batch = run.batch \cup {run.asset}
          /\ run.pc = "download"
      BY <1>1, <1>9 DEF _download, Run, At
    <2> QED  BY <1>1, <1>2, <1>3, <2>1 DEF OpenInv, Downloading
  <1>10. ASSUME NEW a \in Asset, SkipFinal(a)  PROVE OpenInv'
    <2>1. /\ run'.pc \notin {"download", "publish", "fetch"}
          /\ run'.seen = run.seen /\ run'.todo = run.todo \ {a} /\ run'.batch = run.batch
      BY <1>1, <1>10 DEF SkipFinal, Run, At
    <2> QED  BY <1>1, <1>2, <1>3, <2>1 DEF OpenInv, Downloading
  <1> QED
    BY <1>4, <1>6, <1>7, <1>8, <1>9, <1>10

\* One that writes an outcome closes what it is about and touches nothing else.
LEMMA OpenWrites ==
  ASSUME TypeOK, AssetInv, OpenInv,
         \/ DownloadFails
         \/ \E a \in Asset : _begin_artifact(a) \/ RecordResult(a)
  PROVE  OpenInv'
  <1> USE NoneAssumption
  <1>1. /\ run # None /\ run \in Run /\ up /\ run' # None /\ run' \in Run
        /\ run'.id = run.id /\ run'.loc = run.loc
    BY SameRun
  <1>2. /\ run.todo \subseteq run.seen /\ run.batch \subseteq run.seen
        /\ run.pc = "download" => run.asset \in run.seen
        /\ \A a, b \in run.seen : Key(a) = Key(b) => a = b
        /\ run.todo \cap run.batch = {}
        /\ run.pc = "download" => run.asset \notin run.todo \cup run.batch
        /\ \A a \in run.seen : a \in run.batch \/ Downloading(a)
              => artifact[run.id][Key(a)] \in {"pending", None}
    BY <1>1 DEF OpenInv, Idle
  <1>3. run.seen \in SUBSET Asset /\ run.id \in Source
    BY <1>1 DEF Run
  <1>4. ASSUME NEW a \in run.seen, NEW b \in run.seen, a # b, NEW outcome,
               \/ artifact' = [artifact EXCEPT ![run.id][Key(a)] = outcome]
               \/ artifact' = artifact
        PROVE  artifact'[run.id][Key(b)] = artifact[run.id][Key(b)]
    <2>1. Key(b) # Key(a)
      BY <1>2, <1>4
    <2> QED  BY <1>3, <1>4, <2>1, KeyOfAsset DEF TypeOK
  <1>5. CASE DownloadFails
    <2>1. PICK outcome \in {"rejected", "failed"} : artifact' = Recorded(run.asset, outcome)
      BY <1>5 DEF DownloadFails
    <2>2. /\ run'.pc = "begin" /\ run'.seen = run.seen /\ run'.todo = run.todo
          /\ run'.batch = run.batch /\ run.pc = "download"
      BY <1>1, <1>5 DEF DownloadFails, Fail, Run, At
    <2>3. \A b \in run.seen \ {run.asset} :
             artifact'[run.id][Key(b)] = artifact[run.id][Key(b)]
      BY <1>2, <1>4, <2>1, <2>2 DEF Recorded
    <2> QED  BY <1>1, <1>2, <2>2, <2>3 DEF OpenInv, Downloading
  <1>6. ASSUME NEW a \in Asset, RecordResult(a)  PROVE OpenInv'
    <2>1. /\ run'.pc = "record" /\ run'.seen = run.seen /\ run'.todo = run.todo
          /\ run'.batch = run.batch \ {a} /\ a \in run.batch
      BY <1>1, <1>6 DEF RecordResult, Run, At
    <2>2. \A b \in run.seen \ {a} : artifact'[run.id][Key(b)] = artifact[run.id][Key(b)]
      BY <1>2, <1>4, <1>6, <2>1 DEF RecordResult, Recorded
    <2> QED  BY <1>1, <1>2, <2>1, <2>2 DEF OpenInv, Downloading
  <1>7. ASSUME NEW a \in Asset, _begin_artifact(a)  PROVE OpenInv'
    <2>1. /\ run'.seen = run.seen /\ run'.todo = run.todo \ {a} /\ run'.asset = a
          /\ run'.pc = IF Fixed THEN "begin" ELSE "download"
          /\ run'.batch = IF Fixed THEN {a} ELSE run.batch
          /\ run.pc = "begin" /\ a \in run.todo
      BY <1>1, <1>7 DEF _begin_artifact, Run, At
    <2>2. artifact' = [artifact EXCEPT ![run.id][Key(a)] = "pending"]
      BY <1>7 DEF _begin_artifact
    <2>3. artifact'[run.id][Key(a)] = "pending"
      BY <1>3, <2>2, KeyOfAsset DEF TypeOK
    <2>4. \A b \in run.seen \ {a} : artifact'[run.id][Key(b)] = artifact[run.id][Key(b)]
      BY <1>2, <1>4, <2>1, <2>2
    <2> QED  BY <1>1, <1>2, <2>1, <2>3, <2>4 DEF OpenInv, Downloading
  <1> QED  BY <1>5, <1>6, <1>7

\* What is open stays open until its outcome is recorded, or goes with its source.
LEMMA OpenStep == TypeOK /\ AssetInv /\ OpenInv /\ [Next]_vars => OpenInv'
  <1> SUFFICES ASSUME TypeOK, AssetInv, OpenInv, [Next]_vars, run' # None  PROVE OpenInv'
    BY DEF OpenInv, Idle
  <1>1. ASSUME NEW s \in Source, delete_source(s)  PROVE OpenInv'
    <2>1. /\ run # None /\ run \in Run
          /\ run'.id = run.id /\ run'.pc = run.pc /\ run'.seen = run.seen
          /\ run'.todo = run.todo /\ run'.batch = run.batch /\ run'.asset = run.asset
      BY <1>1 DEF delete_source, Idle, TypeOK, Run
    <2>2. \A a \in run.seen : \/ artifact'[run.id][Key(a)] = artifact[run.id][Key(a)]
                              \/ artifact'[run.id][Key(a)] = None
      <3> SUFFICES ASSUME NEW a \in run.seen
                   PROVE  \/ artifact'[run.id][Key(a)] = artifact[run.id][Key(a)]
                          \/ artifact'[run.id][Key(a)] = None
        OBVIOUS
      <3>1. a \in Asset /\ run.id \in Source
        BY <2>1 DEF Run
      <3>2. NoArtifacts[Key(a)] = None
        BY <3>1, KeyOfAsset DEF NoArtifacts
      <3> QED  BY <1>1, <3>1, <3>2 DEF delete_source, TypeOK
    <2> QED  BY <2>1, <2>2 DEF OpenInv, Idle, Downloading
  <1>2. ASSUME NEW s \in Source, _claim_source(s)  PROVE OpenInv'
    BY <1>2 DEF _claim_source, OpenInv, Downloading
  <1>3. CASE \/ Published \/ RunFails \/ ListAssets \/ NotModified \/ FetchFile
             \/ SourceGone \/ _download \/ NothingToImport \/ RecordDone
             \/ upload_commit \/ UploadFails \/ SaveValidator
             \/ \E a \in Asset : SkipFinal(a)
    BY <1>3, OpenRunOnly
  <1>4. CASE DownloadFails \/ \E a \in Asset : _begin_artifact(a) \/ RecordResult(a)
    BY <1>4, OpenWrites
  <1>5. CASE run' = run /\ artifact' = artifact
    BY <1>5 DEF OpenInv, Idle, Downloading
  <1> QED
    BY <1>1, <1>2, <1>3, <1>4, <1>5
    DEF Next, Admin, Sync, Fault, vars, create_source, update_source, queue_source,
        CheckDelete, UploadPackage, DeletePackage, TimePasses, _finish_source,
        FinishFails, Crash, recover_interrupted_source_runs

\* A step outside the run leaves its bookkeeping alone, or deletes its source.
LEMMA WorkOutside ==
  ASSUME TypeOK, WorkInv, [Next]_vars, run \in Run, run' \in Run,
         \/ run' = run /\ artifact' = artifact
            /\ ~ \E s \in Source : delete_source(s)
         \/ \E s \in Source : delete_source(s)
  PROVE  WorkInv'
  <1> SUFFICES ASSUME ~run'.cut, ~Fixed'  PROVE WorkInv'
    BY DEF WorkInv
  <1> USE NoneAssumption
  <1>1. run' = run /\ Exists(run.id) /\ Exists(run.id)' /\ artifact'[run.id] = artifact[run.id]
    <2>1. CASE run' = run /\ artifact' = artifact /\ ~ \E s \in Source : delete_source(s)
      <3>1. Exists(run.id)
        BY <2>1 DEF WorkInv, Idle, Fixed
      <3> QED  BY <2>1, <3>1, RowStep DEF Run
    <2>2. ASSUME NEW s \in Source, delete_source(s)
          PROVE  run' = run /\ Exists(run.id) /\ Exists(run.id)'
                 /\ artifact'[run.id] = artifact[run.id]
      <3>1. run.id # s /\ run' = run
        BY <2>2 DEF delete_source, Run, Idle
      <3>2. Exists(run.id)
        BY <3>1 DEF WorkInv, Idle, Fixed
      <3> QED  BY <2>2, <3>1, <3>2 DEF delete_source, Exists, TypeOK
    <2> QED  BY <2>1, <2>2
  <1>2. \A a : Final(a)' <=> Final(a)
    BY <1>1 DEF Final
  <1> QED  BY <1>1, <1>2 DEF WorkInv, Idle, Fixed, Downloading

\* So does a step of the run that writes nothing to the artifacts.
LEMMA WorkRunOnly ==
  ASSUME TypeOK, AssetInv, WorkInv, [Next]_vars,
         \/ Published \/ RunFails \/ ListAssets \/ NotModified \/ FetchFile
         \/ SourceGone \/ _download \/ NothingToImport \/ RecordDone
         \/ upload_commit \/ UploadFails \/ SaveValidator
         \/ \E a \in Asset : SkipFinal(a)
  PROVE  WorkInv'
  <1> USE NoneAssumption
  <1>1. /\ run # None /\ run \in Run /\ up /\ run' # None /\ run' \in Run
        /\ run'.id = run.id /\ run'.loc = run.loc
        /\ run'.manual = run.manual /\ run'.cut = run.cut
    BY SameRun
  <1> SUFFICES ASSUME ~run.cut, ~Fixed  PROVE WorkInv'
    BY <1>1 DEF WorkInv, Fixed
  <1>2. /\ source' = source \/ SaveValidator
        /\ artifact' = artifact
    BY DEF Published, RunFails, ListAssets, NotModified, FetchFile, SourceGone, _download,
           NothingToImport, RecordDone, upload_commit, UploadFails, SaveValidator, SkipFinal
  <1>3. \A a : Final(a)' <=> Final(a)
    BY <1>1, <1>2 DEF Final
  <1>4. /\ Exists(run.id)
        /\ run.todo \subseteq run.seen /\ run.batch \subseteq run.seen
        /\ run.pc = "download" => run.asset \in run.seen
        /\ \A a, b \in run.seen : Key(a) = Key(b) => a = b
        /\ run.todo \cap run.batch = {}
        /\ run.pc = "download" => run.asset \notin run.todo \cup run.batch
        /\ \A a \in run.seen : a \in run.batch \/ Downloading(a)
              => artifact[run.id][Key(a)] = "pending"
        /\ ~run.error => \A a \in run.seen :
              a \in run.todo \/ a \in run.batch \/ Downloading(a) \/ Final(a)
    BY <1>1 DEF WorkInv, Idle
  <1>5. ~NotModified /\ ~FetchFile /\ ~SaveValidator
    BY <1>1 DEF NotModified, FetchFile, SaveValidator, At, WorkInv, Idle
  <1>6. Exists(run.id)'
    BY <1>1, <1>2, <1>4, <1>5 DEF Exists
  <1>7. CASE Published
    BY <1>1, <1>2, <1>3, <1>4, <1>6, <1>7
    DEF Published, Goto, At, WorkInv, Idle, Downloading, Run
  <1>8. CASE RunFails \/ UploadFails
    <2>1. run' = [run EXCEPT !.pc = "finish", !.error = TRUE]
      BY <1>8 DEF RunFails, UploadFails, Fail
    <2>2. /\ run'.pc = "finish" /\ run'.error /\ run'.seen = run.seen
          /\ run'.todo = run.todo /\ run'.batch = run.batch
      BY <1>1, <2>1 DEF Run
    <2> QED  BY <1>1, <1>2, <1>4, <1>6, <2>2 DEF WorkInv, Downloading
  <1>9. CASE ListAssets
    <2>1. PICK offered \in Offers(run.loc) :
            run' = [run EXCEPT !.pc = "begin", !.seen = offered, !.todo = offered]
      BY <1>9 DEF ListAssets
    <2>2. /\ run'.pc = "begin" /\ run'.seen = offered /\ run'.todo = offered
          /\ run'.batch = {}
      <3>1. run.batch = {}
        BY <1>1, <1>9 DEF ListAssets, At, WorkInv, Idle
      <3> QED  BY <1>1, <2>1, <3>1 DEF Run
    <2>3. \A a, b \in offered : Key(a) = Key(b) => a = b
      BY <1>1, OffersKeys DEF Fixed, Run
    <2> QED  BY <1>6, <2>2, <2>3 DEF WorkInv, Downloading
  <1>10. CASE SourceGone
    BY <1>4, <1>10 DEF SourceGone
  <1>11. CASE _download
    <2>1. /\ run'.pc = "begin" /\ run'.seen = run.seen /\ run'.todo = run.todo
          /\ run'.batch = run.batch \cup {run.asset} /\ run'.error = run.error
          /\ run.pc = "download"
      BY <1>1, <1>11 DEF _download, Run, At
    <2> QED  BY <1>1, <1>2, <1>3, <1>4, <1>6, <2>1 DEF WorkInv, Downloading
  <1>12. CASE NothingToImport \/ RecordDone
    <2>1. /\ run'.pc = "finish" /\ run'.seen = run.seen /\ run'.todo = run.todo
          /\ run'.batch = run.batch /\ run'.error = run.error
          /\ run.todo = {} /\ run.batch = {} /\ run.pc # "download"
      BY <1>1, <1>12 DEF NothingToImport, RecordDone, Goto, Run, At, WorkInv, Idle
    <2> QED  BY <1>1, <1>2, <1>3, <1>4, <1>6, <2>1 DEF WorkInv, Downloading
  <1>13. CASE upload_commit
    <2>1. PICK placed \in SUBSET run.batch, published \in BOOLEAN :
            run' = [run EXCEPT !.pc = "record", !.placed = placed, !.error = @ \/ ~published]
      BY <1>13 DEF upload_commit
    <2>2. /\ run'.pc = "record" /\ run'.seen = run.seen /\ run'.todo = run.todo
          /\ run'.batch = run.batch /\ (~run'.error => ~run.error)
          /\ run.todo = {} /\ run.pc = "begin"
      BY <1>1, <1>13, <2>1 DEF upload_commit, Run, At
    <2> QED  BY <1>1, <1>2, <1>3, <1>4, <1>6, <2>2 DEF WorkInv, Downloading
  <1>14. ASSUME NEW a \in Asset, SkipFinal(a)  PROVE WorkInv'
    <2>1. /\ run'.pc = "begin" /\ run'.seen = run.seen /\ run'.todo = run.todo \ {a}
          /\ run'.batch = run.batch /\ run'.error = run.error
          /\ run.pc = "begin" /\ Final(a)
      BY <1>1, <1>14 DEF SkipFinal, Run, At
    <2> QED  BY <1>1, <1>2, <1>3, <1>4, <1>6, <2>1 DEF WorkInv, Downloading
  <1> QED
    BY <1>5, <1>7, <1>8, <1>9, <1>10, <1>11, <1>12, <1>13, <1>14

\* And so does one that writes an outcome: it is that of one asset alone.
LEMMA WorkWrites ==
  ASSUME TypeOK, AssetInv, WorkInv,
         \/ DownloadFails
         \/ \E a \in Asset : _begin_artifact(a) \/ RecordResult(a)
  PROVE  WorkInv'
  <1> USE NoneAssumption
  <1>1. /\ run # None /\ run \in Run /\ up /\ run' # None /\ run' \in Run
        /\ run'.id = run.id /\ run'.loc = run.loc
        /\ run'.manual = run.manual /\ run'.cut = run.cut
    BY SameRun
  <1> SUFFICES ASSUME ~run.cut, ~Fixed  PROVE WorkInv'
    BY <1>1 DEF WorkInv, Fixed
  <1>2. source' = source
    BY DEF DownloadFails, _begin_artifact, RecordResult
  <1>4. /\ Exists(run.id)
        /\ run.todo \subseteq run.seen /\ run.batch \subseteq run.seen
        /\ run.pc = "download" => run.asset \in run.seen
        /\ \A a, b \in run.seen : Key(a) = Key(b) => a = b
        /\ run.todo \cap run.batch = {}
        /\ run.pc = "download" => run.asset \notin run.todo \cup run.batch
        /\ \A a \in run.seen : a \in run.batch \/ Downloading(a)
              => artifact[run.id][Key(a)] = "pending"
        /\ run.pc = "record" => run.todo = {}
        /\ ~run.error => \A a \in run.seen :
              a \in run.todo \/ a \in run.batch \/ Downloading(a) \/ Final(a)
    BY <1>1 DEF WorkInv, Idle
  <1>5. Exists(run.id)'
    BY <1>1, <1>2, <1>4 DEF Exists
  <1>6. run.seen \in SUBSET Asset /\ run.id \in Source
    BY <1>1 DEF Run
  <1>7. ASSUME NEW a \in run.seen, NEW outcome \in Outcome,
               artifact' = [artifact EXCEPT ![run.id][Key(a)] = outcome]
        PROVE  /\ artifact'[run.id][Key(a)] = outcome
               /\ \A b \in run.seen \ {a} : artifact'[run.id][Key(b)] = artifact[run.id][Key(b)]
               /\ \A b \in run.seen \ {a} : Final(b)' <=> Final(b)
    <2>1. artifact'[run.id][Key(a)] = outcome
      BY <1>6, <1>7, KeyOfAsset DEF TypeOK
    <2>2. ASSUME NEW b \in run.seen \ {a}
          PROVE  artifact'[run.id][Key(b)] = artifact[run.id][Key(b)]
      <3>1. Key(b) # Key(a)
        BY <1>4
      <3> QED  BY <1>6, <1>7, <3>1, KeyOfAsset DEF TypeOK
    <2> QED  BY <1>1, <2>1, <2>2 DEF Final
  <1>8. CASE DownloadFails
    <2>1. PICK outcome \in {"rejected", "failed"} : artifact' = Recorded(run.asset, outcome)
      BY <1>8 DEF DownloadFails
    <2>2. /\ run'.pc = "begin" /\ run'.seen = run.seen /\ run'.todo = run.todo
          /\ run'.batch = run.batch /\ run'.error
          /\ run.pc = "download"
      BY <1>1, <1>8 DEF DownloadFails, Fail, Run, At
    <2>3. artifact' = [artifact EXCEPT ![run.id][Key(run.asset)] = outcome]
      BY <1>4, <2>1, <2>2 DEF Recorded, Downloading, Outcome
    <2>4. \A b \in run.seen \ {run.asset} : artifact'[run.id][Key(b)] = artifact[run.id][Key(b)]
      BY <1>4, <1>7, <2>2, <2>3 DEF Outcome
    <2> QED  BY <1>1, <1>4, <1>5, <2>2, <2>4 DEF WorkInv, Downloading
  <1>9. ASSUME NEW a \in Asset, _begin_artifact(a)  PROVE WorkInv'
    <2>1. /\ run'.pc = "download" /\ run'.seen = run.seen /\ run'.todo = run.todo \ {a}
          /\ run'.batch = run.batch /\ run'.error = run.error /\ run'.asset = a
          /\ run.pc = "begin" /\ a \in run.todo
      BY <1>1, <1>9 DEF _begin_artifact, Run, At
    <2>2. a \in run.seen /\ a \notin run.batch
      BY <1>4, <2>1
    <2>3. artifact' = [artifact EXCEPT ![run.id][Key(a)] = "pending"]
      BY <1>9 DEF _begin_artifact
    <2>4. /\ artifact'[run.id][Key(a)] = "pending"
          /\ \A b \in run.seen \ {a} : artifact'[run.id][Key(b)] = artifact[run.id][Key(b)]
          /\ \A b \in run.seen \ {a} : Final(b)' <=> Final(b)
      BY <1>7, <2>2, <2>3 DEF Outcome
    <2>5. \A b \in run'.seen : b \in run'.batch \/ Downloading(b)'
             => artifact'[run'.id][Key(b)] = "pending"
      <3> SUFFICES ASSUME NEW b \in run.seen, b \in run.batch \/ b = a
                   PROVE  artifact'[run.id][Key(b)] = "pending"
        BY <1>1, <2>1 DEF Downloading
      <3>1. CASE b = a
        BY <2>4, <3>1
      <3>2. CASE b # a
        <4>1. artifact[run.id][Key(b)] = "pending"
          BY <1>4, <3>2
        <4> QED  BY <2>4, <3>2, <4>1
      <3> QED  BY <3>1, <3>2
    <2>6. ~run'.error => \A b \in run'.seen :
             b \in run'.todo \/ b \in run'.batch \/ Downloading(b)' \/ Final(b)'
      BY <1>4, <2>1, <2>4 DEF Downloading
    <2> QED  BY <1>4, <1>5, <2>1, <2>2, <2>5, <2>6 DEF WorkInv
  <1>10. ASSUME NEW a \in Asset, RecordResult(a)  PROVE WorkInv'
    <2>1. /\ run'.pc = "record" /\ run'.seen = run.seen /\ run'.todo = run.todo
          /\ run'.batch = run.batch \ {a}
          /\ run.pc = "record" /\ a \in run.batch
      BY <1>1, <1>10 DEF RecordResult, Run, At
    <2>2. ~run'.error => ~run.error /\ Result(a) # "conflict"
      BY <1>1, <1>10 DEF RecordResult, Run
    <2>3. a \in run.seen /\ artifact[run.id][Key(a)] = "pending"
      BY <1>4, <2>1
    <2>4. artifact' = [artifact EXCEPT ![run.id][Key(a)] = Result(a)]
      BY <1>10, <2>3 DEF RecordResult, Recorded, Outcome
    <2>5. Result(a) \in Outcome /\ Result(a) \in {"imported", "skipped", "conflict"}
      BY DEF Result, Outcome
    <2>6. /\ artifact'[run.id][Key(a)] = Result(a)
          /\ \A b \in run.seen \ {a} : artifact'[run.id][Key(b)] = artifact[run.id][Key(b)]
          /\ \A b \in run.seen \ {a} : Final(b)' <=> Final(b)
      BY <1>7, <2>3, <2>4, <2>5
    <2>7. ~run'.error => Final(a)'
      BY <1>1, <2>2, <2>5, <2>6 DEF Final, FINAL_ARTIFACT_STATUSES, Retryable
    <2>8. \A b \in run'.seen : b \in run'.batch \/ Downloading(b)'
             => artifact'[run'.id][Key(b)] = "pending"
      <3> SUFFICES ASSUME NEW b \in run.seen, b \in run.batch, b # a
                   PROVE  artifact'[run.id][Key(b)] = "pending"
        BY <1>1, <2>1 DEF Downloading
      <3>1. artifact[run.id][Key(b)] = "pending"
        BY <1>4
      <3> QED  BY <2>6, <3>1
    <2>9. ~run'.error => \A b \in run'.seen :
             b \in run'.todo \/ b \in run'.batch \/ Downloading(b)' \/ Final(b)'
      BY <1>4, <2>1, <2>2, <2>6, <2>7 DEF Downloading
    <2> QED  BY <1>4, <1>5, <2>1, <2>8, <2>9 DEF WorkInv
  <1> QED  BY <1>8, <1>9, <1>10

\* The bookkeeping of a run is kept by every step.
LEMMA WorkStep == TypeOK /\ AssetInv /\ WorkInv /\ [Next]_vars => WorkInv'
  <1> SUFFICES ASSUME TypeOK, AssetInv, WorkInv, [Next]_vars, run' # None  PROVE WorkInv'
    BY DEF WorkInv, Idle
  <1>1. run' \in Run
    BY TypeStep DEF TypeOK
  <1>2. CASE \E s \in Source : delete_source(s)
    <2>1. run # None
      BY <1>2 DEF delete_source, Idle
    <2> QED  BY <1>1, <1>2, <2>1, WorkOutside DEF TypeOK
  <1>3. ASSUME NEW s \in Source, _claim_source(s)  PROVE WorkInv'
    <2>1. source[s] \in Row /\ source'[s] = [source[s] EXCEPT !.status = "running"]
      BY <1>3 DEF _claim_source, Claimable, Exists, TypeOK
    <2>2. Exists(s)'
      BY <2>1, NoneAssumption DEF Row, Status, Exists
    <2> QED  BY <1>3, <2>2 DEF _claim_source, WorkInv, Downloading
  <1>4. CASE \/ Published \/ RunFails \/ ListAssets \/ NotModified \/ FetchFile
             \/ SourceGone \/ _download \/ NothingToImport \/ RecordDone
             \/ upload_commit \/ UploadFails \/ SaveValidator
             \/ \E a \in Asset : SkipFinal(a)
    BY <1>4, WorkRunOnly
  <1>5. CASE DownloadFails \/ \E a \in Asset : _begin_artifact(a) \/ RecordResult(a)
    BY <1>5, WorkWrites
  <1>6. CASE run' = run /\ artifact' = artifact /\ ~ \E s \in Source : delete_source(s)
    BY <1>1, <1>6, WorkOutside
  <1> QED
    BY <1>2, <1>3, <1>4, <1>5, <1>6
    DEF Next, Admin, Sync, Fault, vars, create_source, update_source, queue_source,
        CheckDelete, UploadPackage, DeletePackage, TimePasses, _finish_source,
        FinishFails, Crash, recover_interrupted_source_runs

-----------------------------------------------------------------------------

\* The inductive invariant holds in every state.
THEOREM InvAlways == Spec => []Inv
  <1>1. Init => Inv
    <2> SUFFICES ASSUME Init  PROVE Inv
      OBVIOUS
    <2>1. TypeOK
      BY DEF Init, TypeOK, NoArtifacts
    <2> QED
      BY <2>1 DEF Init, Inv, AssetInv, RunningHasRunner, NoStrayArtifact, OpenInv, WorkInv,
                  Idle, Exists
  <1>2. Inv /\ [Next]_vars => Inv'
    BY TypeStep, AssetStep, RunnerStep, StrayStep, OpenStep, WorkStep DEF Inv
  <1> QED  BY <1>1, <1>2, PTL DEF Spec

\* The types, and so the vocabulary of the statuses, hold in every state.
THEOREM TypeCorrect == Spec => []TypeOK
  BY InvAlways, PTL DEF Inv

\* _finish_source and the start leave no source running without a run: edits,
\* deletions and failures in between do not matter.
THEOREM RunningAlwaysHasRunner == Spec => []RunningHasRunner
  BY InvAlways, PTL DEF Inv

\* The foreign key and the deletion leave nothing behind for a source that is
\* gone, even when it was deleted under its run.
THEOREM NeverStrayArtifact == Spec => []NoStrayArtifact
  BY InvAlways, PTL DEF Inv

\* At a good end of a listing's run each of its assets is final for that run.
LEMMA EndStep ==
  ASSUME Inv, [Next]_vars, ~Idle, ~Fixed, Finished("success"), ~run.cut,
         NEW a \in run.seen
  PROVE  Final(a)
  <1>1. run \in Run /\ run.error = FALSE
    BY DEF Inv, TypeOK, Idle, Finished, Run
  <1>2. run.pc = "finish"
    <2>1. CASE _finish_source \/ FinishFails
      BY <2>1 DEF _finish_source, FinishFails, At
    <2>2. CASE Crash
      BY <2>2 DEF Crash, Finished
    <2>3. CASE \/ Published \/ RunFails \/ ListAssets \/ NotModified \/ FetchFile
               \/ SourceGone \/ _download \/ NothingToImport \/ RecordDone
               \/ DownloadFails \/ upload_commit \/ UploadFails \/ SaveValidator
               \/ \E b \in Asset : SkipFinal(b) \/ _begin_artifact(b) \/ RecordResult(b)
      BY <2>3, SameRun DEF Inv, Finished, Idle
    <2>4. ASSUME NEW s \in Source, delete_source(s)  PROVE FALSE
      <3>1. run' \in Run
        BY <1>1, <2>4 DEF delete_source, Run
      <3> QED  BY <3>1, NoneAssumption DEF Finished, Idle
    <2>5. CASE run' = run
      BY <2>5 DEF Finished, Idle
    <2> QED
      BY <2>1, <2>2, <2>3, <2>4, <2>5
      DEF Next, Admin, Sync, Fault, vars, create_source, update_source, queue_source,
          CheckDelete, UploadPackage, DeletePackage, TimePasses, _claim_source,
          recover_interrupted_source_runs
  <1> QED  BY <1>1, <1>2 DEF Inv, WorkInv, Downloading

\* A listing's run that ends well has settled what the listing selected.
THEOREM ListingAlwaysComplete == Spec => ListingComplete
  <1>1. Inv /\ [Next]_vars => [~Idle /\ ~Fixed => Settled]_vars
    BY EndStep DEF Settled, Final
  <1> QED  BY <1>1, InvAlways, PTL DEF Spec, ListingComplete

\* One that was queued by hand leaves nothing of it rejected or in conflict.
THEOREM ManualListingAlwaysRetries == Spec => ManualListingRetries
  <1>1. Inv /\ [Next]_vars => [~Idle /\ ~Fixed => Retried]_vars
    BY EndStep DEF Retried, Final
  <1> QED  BY <1>1, InvAlways, PTL DEF Spec, ManualListingRetries

\* What was settled stays so, except for what a run queued by hand retries.
THEOREM LedgerAlwaysSettled == Spec => LedgerSettled
  <1>1. Inv /\ [Next]_vars =>
          [\A s \in Source, k \in ExternalId :
              Exists(s)' /\ artifact[s][k] \in FINAL_ARTIFACT_STATUSES
                 /\ artifact'[s][k] # artifact[s][k]
              => artifact[s][k] \in Retryable /\ run.manual]_vars
    <2> SUFFICES ASSUME Inv, [Next]_vars, NEW s \in Source, NEW k \in ExternalId,
                        Exists(s)', artifact[s][k] \in FINAL_ARTIFACT_STATUSES,
                        artifact'[s][k] # artifact[s][k]
                 PROVE  artifact[s][k] \in Retryable /\ run.manual
      OBVIOUS
    <2> USE DEF Inv
    <2>1. ASSUME NEW t \in Source, delete_source(t)  PROVE FALSE
      <3>1. t # s
        BY <2>1 DEF delete_source, Exists, TypeOK
      <3> QED  BY <2>1, <3>1 DEF delete_source, TypeOK
    <2>2. ASSUME NEW a \in Asset, _begin_artifact(a)
          PROVE  artifact[s][k] \in Retryable /\ run.manual
      <3>1. run \in Run /\ ~Final(a)
             /\ artifact' = [artifact EXCEPT ![run.id][Key(a)] = "pending"]
        BY <2>2 DEF _begin_artifact, At, TypeOK
      <3>2. s = run.id /\ k = Key(a)
        BY <3>1 DEF TypeOK, Run
      <3> QED  BY <3>1, <3>2 DEF Final
    <2>3. ASSUME run \in Run, ~Idle, NEW a \in Asset, NEW outcome \in Outcome,
                 a \in run.batch \/ Downloading(a), artifact' = Recorded(a, outcome)
          PROVE  FALSE
      <3>1. artifact[run.id][Key(a)] \in {"pending", None}
        BY <2>3 DEF OpenInv, Downloading
      <3>2. artifact' = [artifact EXCEPT ![run.id][Key(a)] = outcome]
        BY <2>3 DEF Recorded
      <3>3. s = run.id /\ k = Key(a)
        BY <2>3, <3>2 DEF TypeOK, Run
      <3> QED  BY <3>1, <3>3, NoneAssumption DEF FINAL_ARTIFACT_STATUSES, Outcome
    <2> QED  BY <2>1, <2>2, <2>3, ArtifactStep
  <1> QED  BY <1>1, InvAlways, PTL DEF Spec, LedgerSettled
-----------------------------------------------------------------------------
(* The contract on the rows, module SourceTable.                               *)

\* The contract's step that a step of a source is seen as.
TableStep == [Table!Next]_(Table!vars)

\* A row that is there has a status, and the columns show it.
LEMMA ColumnFacts ==
  ASSUME TypeOK, NEW s \in Source, Exists(s)
  PROVE  /\ source[s] \in Row
         /\ StatusOf[s] = source[s].status
         /\ StatusOf[s] # "none"
         /\ s \in EnabledOnes <=> source[s].enabled
         /\ s \in DueOnes <=> source[s].due
  BY DEF TypeOK, Exists, StatusOf, EnabledOnes, DueOnes, Row, Status

\* A row that is written changes one entry of each column.
LEMMA RowColumns ==
  ASSUME TypeOK, NEW s \in Source, NEW row \in Row, source' = [source EXCEPT ![s] = row]
  PROVE  /\ StatusOf' = [StatusOf EXCEPT ![s] = row.status]
         /\ EnabledOnes' = IF row.enabled THEN EnabledOnes \cup {s} ELSE EnabledOnes \ {s}
         /\ DueOnes' = IF row.due THEN DueOnes \cup {s} ELSE DueOnes \ {s}
  <1>1. /\ source'[s] = row /\ Exists(s)'
        /\ \A t \in Source \ {s} : source'[t] = source[t] /\ (Exists(t)' <=> Exists(t))
    BY NoneAssumption DEF TypeOK, Exists
  <1>2. StatusOf' = [StatusOf EXCEPT ![s] = row.status]
    <2>1. \A t \in Source : StatusOf'[t] = IF t = s THEN row.status ELSE StatusOf[t]
      BY <1>1 DEF StatusOf
    <2> QED  BY <2>1 DEF StatusOf
  <1>3. EnabledOnes' = IF row.enabled THEN EnabledOnes \cup {s} ELSE EnabledOnes \ {s}
    BY <1>1 DEF EnabledOnes
  <1>4. DueOnes' = IF row.due THEN DueOnes \cup {s} ELSE DueOnes \ {s}
    BY <1>1 DEF DueOnes
  <1> QED  BY <1>2, <1>3, <1>4

\* Where the rows stay, so do their columns.
LEMMA SameColumns ==
  ASSUME source' = source
  PROVE  StatusOf' = StatusOf /\ EnabledOnes' = EnabledOnes /\ DueOnes' = DueOnes
  BY DEF StatusOf, EnabledOnes, DueOnes, Exists

\* A step that leaves rows, claims and the service alone is none of the contract's.
LEMMA TableStutter ==
  ASSUME UNCHANGED <<source, lost, up>>, Claimed' = Claimed
  PROVE  TableStep
  BY SameColumns DEF TableStep, Table!vars, Mode

\* The handlers of a request create, edit, queue or delete a source.
LEMMA AdminEnters ==
  ASSUME TypeOK, NEW s \in Source,
         create_source(s) \/ update_source(s) \/ queue_source(s) \/ delete_source(s)
  PROVE  TableStep
  <1> USE DEF Table!Source, Source
  <1>1. Mode = "up" /\ Mode' = "up" /\ Claimed' = Claimed
    <2>1. up /\ up' = up
      BY Zenon DEF create_source, update_source, queue_source, delete_source
    <2>2. run' = run \/ (run \in Run /\ run' = [run EXCEPT !.cut = TRUE])
      BY DEF create_source, update_source, queue_source, delete_source, TypeOK, Idle
    <2>3. run' = run \/ (run' \in Run /\ run \in Run /\ run'.id = run.id)
      BY <2>2 DEF Run
    <2> QED  BY <2>1, <2>3, NoneAssumption DEF Mode, Claimed, Idle
  <1>2. ASSUME NEW row \in Row, row.due, source' = [source EXCEPT ![s] = row], lost' = lost
        PROVE  Table!Enter(s, row.enabled, row.status)
    BY <1>1, <1>2, RowColumns DEF Table!Enter
  <1>3. CASE create_source(s)
    <2>1. PICK l \in Location, on \in BOOLEAN :
            source' = [source EXCEPT ![s] = [loc |-> l, enabled |-> on, status |-> "never",
                                             due |-> TRUE, etag |-> None]]
      BY <1>3 DEF create_source
    <2> DEFINE row == [loc |-> l, enabled |-> on, status |-> "never", due |-> TRUE,
                       etag |-> None]
    <2>2. row \in Row /\ row.due /\ row.enabled = on /\ row.status = "never"
      BY DEF Row, Status
    <2>3. StatusOf[s] = "none"
      BY <1>3 DEF create_source, StatusOf
    <2>4. lost' = lost
      BY <1>3 DEF create_source
    <2>5. Table!Enter(s, on, "never")
      BY <1>2, <2>1, <2>2, <2>4
    <2>6. Table!Create(s, on)
      BY <2>3, <2>5 DEF Table!Create
    <2> QED  BY <2>6 DEF TableStep, Table!Next
  <1>4. CASE update_source(s)
    <2>1. PICK l \in Location, on \in BOOLEAN :
            source' = [source EXCEPT ![s].loc = l, ![s].enabled = on, ![s].due = TRUE]
      BY <1>4 DEF update_source
    <2>2. /\ source[s] \in Row /\ StatusOf[s] = source[s].status /\ StatusOf[s] # "none"
          /\ lost' = lost
      BY <1>4, ColumnFacts DEF update_source
    <2> DEFINE row == [source[s] EXCEPT !.loc = l, !.enabled = on, !.due = TRUE]
    <2>3. row \in Row /\ row.due /\ row.enabled = on /\ row.status = source[s].status
      BY <2>2 DEF Row
    <2>4. source' = [source EXCEPT ![s] = row]
      BY <2>1, <2>2 DEF TypeOK
    <2>5. Table!Edit(s, on)
      BY <1>2, <2>2, <2>3, <2>4 DEF Table!Edit
    <2> QED  BY <2>5 DEF TableStep, Table!Next
  <1>5. CASE queue_source(s)
    <2>1. /\ source[s] \in Row /\ StatusOf[s] = source[s].status /\ s \in EnabledOnes
          /\ source[s].status # "running" /\ source[s].enabled /\ lost' = lost
      BY <1>5, ColumnFacts DEF queue_source
    <2> DEFINE row == [source[s] EXCEPT !.status = "queued", !.due = TRUE]
    <2>2. row \in Row /\ row.due /\ row.enabled = TRUE /\ row.status = "queued"
      BY <2>1 DEF Row, Status
    <2>3. source' = [source EXCEPT ![s] = row]
      BY <1>5, <2>1 DEF queue_source, TypeOK
    <2>4. Table!Queue(s)
      BY <1>2, <2>1, <2>2, <2>3 DEF Table!Queue
    <2> QED  BY <2>4 DEF TableStep, Table!Next
  <1>6. CASE delete_source(s)
    <2>1. /\ source'[s] = None
          /\ \A t \in Source \ {s} : source'[t] = source[t]
      BY <1>6 DEF delete_source, TypeOK
    <2>2. /\ StatusOf' = [StatusOf EXCEPT ![s] = "none"]
          /\ EnabledOnes' = EnabledOnes \ {s}
          /\ DueOnes' = DueOnes \ {s}
      <3>1. ~Exists(s)' /\ \A t \in Source \ {s} : Exists(t)' <=> Exists(t)
        BY <2>1 DEF Exists
      <3>2. \A t \in Source : StatusOf'[t] = IF t = s THEN "none" ELSE StatusOf[t]
        BY <2>1, <3>1 DEF StatusOf
      <3>3. StatusOf' = [StatusOf EXCEPT ![s] = "none"]
        BY <3>2 DEF StatusOf
      <3>4. EnabledOnes' = EnabledOnes \ {s} /\ DueOnes' = DueOnes \ {s}
        BY <2>1, <3>1 DEF EnabledOnes, DueOnes
      <3> QED  BY <3>3, <3>4
    <2>3. Table!Delete(s)
      BY <1>1, <1>6, <2>2 DEF delete_source, Table!Delete
    <2> QED  BY <2>3 DEF TableStep, Table!Next
  <1> QED  BY <1>3, <1>4, <1>5, <1>6

\* The clock makes a source due.
LEMMA TimeComes ==
  ASSUME TypeOK, NEW s \in Source, TimePasses(s)
  PROVE  TableStep
  <1>1. source[s] \in Row /\ StatusOf[s] = source[s].status /\ StatusOf[s] # "none"
    BY ColumnFacts DEF TimePasses
  <1> DEFINE row == [source[s] EXCEPT !.due = TRUE]
  <1>2. row \in Row /\ row.due /\ row.enabled = source[s].enabled /\ row.status = source[s].status
    BY <1>1 DEF Row
  <1>3. source' = [source EXCEPT ![s] = row]
    BY <1>1 DEF TimePasses, TypeOK
  <1>4. StatusOf' = StatusOf /\ EnabledOnes' = EnabledOnes /\ DueOnes' = DueOnes \cup {s}
    <2>1. StatusOf' = [StatusOf EXCEPT ![s] = row.status] /\ DueOnes' = DueOnes \cup {s}
      BY <1>2, <1>3, RowColumns
    <2>2. StatusOf' = StatusOf
      BY <1>1, <1>2, <2>1 DEF StatusOf
    <2>3. EnabledOnes' = EnabledOnes
      BY <1>1, <1>2, <1>3, NoneAssumption DEF EnabledOnes, Exists, TypeOK, TimePasses
    <2> QED  BY <2>1, <2>2, <2>3
  <1>5. Table!ComeDue(s)
    BY <1>1, <1>4 DEF TimePasses, Table!ComeDue, Claimed, Idle, Mode
  <1> QED  BY <1>5 DEF TableStep, Table!Next, Table!Source, Source

\* A claim takes a source that the contract lets it take.
LEMMA ClaimClaims ==
  ASSUME TypeOK, NEW s \in Source, _claim_source(s)
  PROVE  TableStep
  <1>1. /\ source[s] \in Row /\ StatusOf[s] = source[s].status /\ Exists(s)
        /\ s \in EnabledOnes \cap DueOnes /\ StatusOf[s] # "running"
    BY ColumnFacts DEF _claim_source, Claimable
  <1> DEFINE row == [source[s] EXCEPT !.status = "running"]
  <1>2. /\ row \in Row /\ row.status = "running"
        /\ row.due = source[s].due /\ row.enabled = source[s].enabled
    BY <1>1 DEF Row, Status
  <1>3. source' = [source EXCEPT ![s] = row]
    BY <1>1 DEF _claim_source, TypeOK
  <1>4. StatusOf' = [StatusOf EXCEPT ![s] = "running"]
    BY <1>2, <1>3, RowColumns
  <1>5. EnabledOnes' = EnabledOnes /\ DueOnes' = DueOnes
    BY <1>1, <1>2, <1>3, NoneAssumption DEF EnabledOnes, DueOnes, Exists, TypeOK
  <1>6. Claimed = {} /\ Claimed' = {s}
    <2>1. run' \in Run /\ run'.id = s
      BY DEF _claim_source, Claimable, Exists, Row, Run, TypeOK
    <2> QED  BY <2>1, NoneAssumption DEF _claim_source, Claimed, Idle
  <1>7. Table!Claim(s)
    BY <1>1, <1>4, <1>5, <1>6 DEF _claim_source, Table!Claim, Mode
  <1> QED  BY <1>7 DEF TableStep, Table!Next, Table!Source, Source

\* The end of a run, or its refusal, releases the source.
LEMMA FinishFinishes ==
  ASSUME TypeOK, _finish_source \/ FinishFails
  PROVE  TableStep
  <1> USE DEF Table!Source, Source
  <1>1. run \in Run /\ run # None /\ up /\ up'
    BY DEF _finish_source, FinishFails, At, TypeOK
  <1>2. PICK s \in Source : s = run.id
    BY <1>1 DEF Run
  <1>3. Claimed = {s} /\ Claimed' = {} /\ Mode = "up" /\ Mode' = "up"
    BY <1>1, <1>2 DEF _finish_source, FinishFails, Claimed, Idle, Mode
  <1>4. CASE FinishFails
    <2>1. (StatusOf[s] = "running") <=> (Exists(s) /\ source[s].status = "running")
      BY DEF StatusOf
    <2>2. lost' = IF StatusOf[s] = "running" THEN lost \cup {s} ELSE lost
      BY <1>2, <1>4, <2>1 DEF FinishFails
    <2>3. Table!Refuse(s)
      BY <1>3, <1>4, <2>2, SameColumns DEF FinishFails, Table!Refuse
    <2> QED  BY <2>3 DEF TableStep, Table!Next
  <1>5. CASE _finish_source /\ ~Exists(s)
    <2>1. StatusOf[s] = "none" /\ s \notin DueOnes /\ source' = source /\ lost' = lost
      BY <1>2, <1>5 DEF _finish_source, StatusOf, DueOnes
    <2>2. Table!Finish(s, "error")
      BY <1>3, <2>1, SameColumns DEF Table!Finish
    <2> QED  BY <2>2 DEF TableStep, Table!Next
  <1>6. CASE _finish_source /\ Exists(s)
    <2> DEFINE st == IF run.error THEN "error" ELSE "success"
    <2>1. /\ source[s] \in Row /\ StatusOf[s] = source[s].status /\ StatusOf[s] # "none"
          /\ s \in EnabledOnes <=> source[s].enabled
      BY <1>6, ColumnFacts
    <2> DEFINE row == [source[s] EXCEPT !.status = st, !.due = FALSE]
    <2>2. /\ row \in Row /\ row.status = st /\ row.due = FALSE
          /\ row.enabled = source[s].enabled
      BY <2>1 DEF Row, Status
    <2>3. source' = [source EXCEPT ![s] = row] /\ lost' = lost
      BY <1>2, <1>6, <2>1 DEF _finish_source, TypeOK
    <2>4. StatusOf' = [StatusOf EXCEPT ![s] = st] /\ DueOnes' = DueOnes \ {s}
      <3> HIDE DEF row, st
      <3> QED  BY <2>2, <2>3, RowColumns
    <2>5. EnabledOnes' = EnabledOnes
      BY <1>6, <2>1, <2>2, <2>3, NoneAssumption DEF EnabledOnes, Exists, TypeOK
    <2>6. Table!Finish(s, st)
      BY <1>3, <2>1, <2>3, <2>4, <2>5 DEF Table!Finish
    <2>7. st \in {"success", "error"}
      OBVIOUS
    <2> QED  BY <2>6, <2>7 DEF TableStep, Table!Next
  <1> QED  BY <1>4, <1>5, <1>6

\* The validator is no column of the contract.
LEMMA ValidatorStutters ==
  ASSUME TypeOK, AssetInv, SaveValidator
  PROVE  TableStep
  <1>1. run \in Run /\ run # None /\ run' # None /\ run'.id = run.id /\ lost' = lost /\ up' = up
    BY SameRun DEF SaveValidator
  <1>2. \A s \in Source : /\ Exists(s)' <=> Exists(s)
                          /\ Exists(s) => /\ source'[s].status = source[s].status
                                          /\ source'[s].enabled = source[s].enabled
                                          /\ source'[s].due = source[s].due
    <2>1. PICK tag \in {None, run.asset} :
            source' = IF Exists(run.id) THEN [source EXCEPT ![run.id].etag = tag] ELSE source
      BY DEF SaveValidator
    <2>2. CASE Exists(run.id)
      <3>1. run.id \in Source /\ source[run.id] \in Row
        BY <1>1, <2>2, ColumnFacts DEF Run
      <3>2. /\ source'[run.id] = [source[run.id] EXCEPT !.etag = tag]
            /\ \A s \in Source \ {run.id} : source'[s] = source[s]
        BY <2>1, <2>2, <3>1 DEF TypeOK
      <3>3. source'[run.id] \in Row
        BY <1>1, <3>1, <3>2 DEF Row, Run
      <3> QED  BY <2>2, <3>1, <3>2, <3>3, NoneAssumption DEF Exists, Row
    <2>3. CASE ~Exists(run.id)
      BY <2>1, <2>3 DEF Exists
    <2> QED  BY <2>2, <2>3
  <1>3. StatusOf' = StatusOf
    BY <1>2 DEF StatusOf
  <1>4. EnabledOnes' = EnabledOnes
    BY <1>2 DEF EnabledOnes
  <1>5. DueOnes' = DueOnes
    BY <1>2 DEF DueOnes
  <1>6. Claimed' = Claimed /\ Mode' = Mode
    BY <1>1 DEF Claimed, Idle, Mode
  <1> QED  BY <1>1, <1>3, <1>4, <1>5, <1>6 DEF TableStep, Table!vars

\* A start recovers.
LEMMA StartRecovers ==
  ASSUME TypeOK, recover_interrupted_source_runs
  PROVE  TableStep
  <1> DEFINE R == Table!Running
  <1>1. \A s \in Source : s \in R <=> Exists(s) /\ source[s].status = "running"
    BY DEF StatusOf, Table!Running, Table!Source, Source
  <1>2. \A s \in Source :
          /\ Exists(s)' <=> Exists(s)
          /\ Exists(s) => /\ source'[s].status = IF s \in R THEN "error" ELSE source[s].status
                          /\ source'[s].enabled = source[s].enabled
                          /\ source'[s].due = (source[s].due \/ s \in R)
    <2> SUFFICES ASSUME NEW s \in Source
                 PROVE  /\ Exists(s)' <=> Exists(s)
                        /\ Exists(s) =>
                              /\ source'[s].status = IF s \in R THEN "error" ELSE source[s].status
                              /\ source'[s].enabled = source[s].enabled
                              /\ source'[s].due = (source[s].due \/ s \in R)
      OBVIOUS
    <2>1. CASE s \in R
      <3>1. source[s] \in Row /\ source'[s] = [source[s] EXCEPT !.status = "error", !.due = TRUE]
        BY <1>1, <2>1, ColumnFacts DEF recover_interrupted_source_runs
      <3>2. source'[s] \in Row
        BY <3>1 DEF Row, Status
      <3> QED  BY <1>1, <2>1, <3>1, <3>2, NoneAssumption DEF Exists, Row
    <2>2. CASE s \notin R
      <3>1. source'[s] = source[s]
        BY <1>1, <2>2 DEF recover_interrupted_source_runs
      <3>2. Exists(s) => source[s].due \in BOOLEAN
        BY ColumnFacts DEF Row
      <3> QED  BY <2>2, <3>1, <3>2 DEF Exists
    <2> QED  BY <2>1, <2>2
  <1>3. StatusOf' = [s \in Source |-> IF s \in R THEN "error" ELSE StatusOf[s]]
    BY <1>1, <1>2 DEF StatusOf
  <1>4. EnabledOnes' = EnabledOnes
    BY <1>2 DEF EnabledOnes
  <1>5. R \subseteq Source
    BY DEF Table!Running, Table!Source, Source
  <1>6. DueOnes' = DueOnes \cup R
    BY <1>1, <1>2, <1>5 DEF DueOnes
  <1>7. Mode # "up" /\ Mode' = "up" /\ Claimed' = Claimed /\ lost' = {}
    BY DEF recover_interrupted_source_runs, Mode, Claimed, Idle
  <1>8. Table!Recover
    BY <1>3, <1>4, <1>6, <1>7 DEF Table!Recover, Table!Source, Source
  <1> QED  BY <1>8 DEF TableStep, Table!Next

\* A crash takes the thread with it.
LEMMA CrashDies == ASSUME Crash PROVE TableStep
  <1>1. Table!Die
    BY SameColumns DEF Crash, Table!Die, Mode, Claimed, Idle
  <1> QED  BY <1>1 DEF TableStep, Table!Next

\* Every step of a source is one step of the contract or none.
LEMMA StepObeys ==
  ASSUME TypeOK, AssetInv, [Next]_vars
  PROVE  TableStep
  <1>1. ASSUME \/ \E s \in Source : CheckDelete(s)
               \/ \E a \in Asset : UploadPackage(a)
               \/ \E p \in Package : DeletePackage(p)
               \/ UNCHANGED vars
        PROVE  TableStep
    BY <1>1, TableStutter DEF CheckDelete, UploadPackage, DeletePackage, vars, Claimed, Idle
  <1>2. ASSUME Admin  PROVE TableStep
    BY <1>1, <1>2, AdminEnters DEF Admin
  <1>3. ASSUME \/ Published \/ RunFails \/ ListAssets \/ NotModified \/ FetchFile
               \/ SourceGone \/ _download \/ NothingToImport \/ RecordDone
               \/ DownloadFails \/ upload_commit \/ UploadFails
               \/ \E a \in Asset : SkipFinal(a) \/ _begin_artifact(a) \/ RecordResult(a)
        PROVE  TableStep
    <2>1. UNCHANGED <<source, lost, up>>
      BY <1>3 DEF Published, RunFails, ListAssets, NotModified, FetchFile, SourceGone,
                  _download, NothingToImport, RecordDone, DownloadFails, upload_commit,
                  UploadFails, SkipFinal, _begin_artifact, RecordResult
    <2>2. run # None /\ run' # None /\ run'.id = run.id
      BY <1>3, SameRun
    <2> QED  BY <2>1, <2>2, TableStutter DEF Claimed, Idle
  <1>4. ASSUME Sync  PROVE TableStep
    BY <1>3, <1>4, ValidatorStutters, FinishFinishes DEF Sync
  <1>5. ASSUME Fault  PROVE TableStep
    BY <1>3, <1>5, FinishFinishes, CrashDies DEF Fault
  <1> QED
    BY <1>1, <1>2, <1>4, <1>5, TimeComes, ClaimClaims, StartRecovers DEF Next

\* Runs keep to the contract on the rows that the scheduler counts on, whatever fails,
\* is edited or deleted under them (source_sync.py:165-262, sources.py:170-272).
THEOREM TableImplemented == Spec => ImplementsTable
  <1>1. Init => Table!Init
    BY DEF Init, Table!Init, Table!Source, Source, StatusOf, EnabledOnes, DueOnes, Claimed,
           Mode, Exists, Idle
  <1>2. Inv /\ [Next]_vars => [Table!Next]_(Table!vars)
    BY StepObeys DEF Inv, TableStep
  <1> QED  BY InvAlways, <1>1, <1>2, PTL DEF Spec, ImplementsTable, Table!Spec
=============================================================================
