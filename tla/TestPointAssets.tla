---------------------------- MODULE TestPointAssets ----------------------------
(* The test point assets of one project.  An asset is kept three times: as a   *)
(* row of test_point_assets, which the code calls the source of truth, and as  *)
(* an asset file and a plan file, which it calls a cache.  Requests run in      *)
(* threads of their own, each with a database session; nothing locks the files *)
(* and a row is locked only from the flush that changes it to the commit.      *)
(*                                                                             *)
(* A plan is reduced to the request that supplied its points, the points that  *)
(* the quality gate lets through, who approved each point, and the preview it  *)
(* was saved from.  There is one asset per page, as find_existing_page_asset   *)
(* makes the saves of a page share one.                                        *)
EXTENDS Integers, FiniteSets, Sequences

CONSTANTS
    Requests, Assets, Points, Previews,
    Jobs,                           \* what a request may ask, see JobShape
    Rank,                           \* the order of the names of the asset files
    MaxFaults,                      \* bound on the calls that fail and the crashes
    None, Gone

Operations == {"save", "edit", "review", "delete", "list", "generate", "case"}
JobShape == [op : Operations, assets : Seq(Assets), points : SUBSET Points, approve : BOOLEAN,
             sound : SUBSET Points, keep : BOOLEAN, preview : Previews \cup {None}]

Plan == [by : Requests \cup {None}, sound : SUBSET Points,
         approved : [Points -> Requests \cup {None}], preview : Previews \cup {None}]

ASSUME AssetsAssumption ==
    /\ Jobs \subseteq JobShape
    /\ \A j \in Jobs : j.assets # << >> \/ j.op \in {"list", "case"}
    /\ Rank \in [Assets -> Nat] /\ MaxFaults \in Nat
    /\ None \notin Plan /\ Gone \notin Plan /\ None # Gone
    /\ None \notin Requests

VARIABLES
    job, pc, answer,                \* the requests and their threads
    at,                             \* which of its assets a request is working on
    gotAsset, gotPlan,              \* what it read from the two files of that asset
    draft,                          \* the plan it writes
    todo, seen,                     \* the files a backfill, the rows a listing has yet to copy
    removed,                        \* a delete found a file
    tx, synced, broken,             \* its session: rows and points flushed, or failed
    rows, pointRows,                \* test_point_assets; test_points, by who saved them
    assetFile, planFile,            \* web-ui/state/test-points
    previews,                       \* the preview snapshots on file
    calm, faults                    \* no overlap, fault or late refusal yet; faults so far

scratch == <<gotAsset, gotPlan, draft, todo, seen, removed>>
session == <<tx, synced, broken>>
database == <<rows, pointRows>>
files == <<assetFile, planFile>>
history == <<calm, faults>>
vars == <<job, pc, answer, at, scratch, session, database, files, previews, history>>

Clean == [a \in Assets |-> None]
Unapproved == [p \in Points |-> None]
Earlier(sound) == [by |-> None, sound |-> sound, approved |-> Unapproved, preview |-> None]

Init ==
    /\ job \in [Requests -> Jobs]
    /\ pc = [r \in Requests |-> "idle"]
    /\ answer = [r \in Requests |-> None]
    /\ at = [r \in Requests |-> 1]
    /\ gotAsset = [r \in Requests |-> None]
    /\ gotPlan = [r \in Requests |-> None]
    /\ draft = [r \in Requests |-> None]
    /\ todo = [r \in Requests |-> {}]
    /\ seen = [r \in Requests |-> Clean]
    /\ removed = [r \in Requests |-> FALSE]
    /\ tx = [r \in Requests |-> Clean]
    /\ synced = [r \in Requests |-> {}]
    /\ broken = [r \in Requests |-> FALSE]
    /\ \E row \in {None} \cup {Earlier(j.sound) : j \in Jobs} : rows = [a \in Assets |-> row]
    /\ pointRows = [a \in Assets |-> None]
    /\ assetFile = rows
    /\ planFile = rows
    /\ previews = Previews
    /\ calm = TRUE
    /\ faults = 0

Op(r) == job[r].op
Here(r) == job[r].assets[at[r]]
InFlight(r) == pc[r] \notin {"idle", "done"}
Goto(r, label) == pc' = [pc EXCEPT ![r] = label]

(* load_test_point_asset_with_root: a plan file wins over the asset file.      *)
OnFile(a) == IF planFile[a] # None THEN planFile[a] ELSE assetFile[a]
Read(r) == IF gotPlan[r] # None THEN gotPlan[r] ELSE gotAsset[r]

(* get_db closes the session however the handler ends, and what was flushed    *)
(* and not committed is rolled back.                                           *)
Release(r) ==
    /\ tx' = [tx EXCEPT ![r] = Clean]
    /\ synced' = [synced EXCEPT ![r] = {}]
    /\ broken' = [broken EXCEPT ![r] = FALSE]

(* Mutant: a handler that ends leaves its session open, and its locks held.    *)
LeaveOpen(r) == UNCHANGED session

Close(r) == Release(r)

End(r, value) ==
    /\ Goto(r, "done")
    /\ answer' = [answer EXCEPT ![r] = value]
    /\ Close(r)

(* A flush waits for a row that another session has flushed and not committed. *)
FreeRow(r, a) == \A q \in Requests \ {r} : tx[q][a] = None
FreePoints(r, a) == \A q \in Requests \ {r} : a \notin synced[q]

(* The first statement of a request on the files, after the checks of its      *)
(* payload; a listing starts on the rows and a case call on the directory.     *)
FirstLabel(op) ==
    CASE op = "save"   -> "sync"
      [] op = "delete" -> "unlinkAsset"
      [] op = "list"   -> "query"
      [] op = "case"   -> "scan"
      [] OTHER         -> "readAsset"

(* Once it is done with an asset a request goes on to its next one.            *)
Advance(r, label, last) ==
    IF at[r] < Len(job[r].assets)
    THEN at' = [at EXCEPT ![r] = at[r] + 1] /\ Goto(r, label)
    ELSE UNCHANGED at /\ Goto(r, last)
-------------------------------------------------------------------------------
(* The arrival of a request.  A save loads its preview snapshot first, and     *)
(* answers 404 when the snapshot is gone.                                      *)

(* find_asset_id_by_preview_id looks for metadata.preview_id at the top of the *)
(* bundle; _build_asset_bundle and the asset file keep the metadata in the     *)
(* plan, so no saved asset is ever found.                                      *)
TopLevelPreview(bundle) == None
AlreadySaved(preview) == \E a \in Assets : rows[a] # None /\ TopLevelPreview(rows[a]) = preview

(* build_point and _build_asset_bundle: new points, which nobody has reviewed. *)
NewPlan(r) == [by |-> r, sound |-> job[r].sound, approved |-> Unapproved,
               preview |-> job[r].preview]

Begin(r) ==
    /\ pc[r] = "idle"
    /\ calm' = (calm /\ \A q \in Requests : ~InFlight(q))
    /\ IF Op(r) # "save"
       THEN /\ Goto(r, FirstLabel(Op(r)))
            /\ UNCHANGED <<answer, session, draft>>
       ELSE IF job[r].preview # None /\ (job[r].preview \notin previews \/ AlreadySaved(job[r].preview))
       THEN /\ End(r, IF job[r].preview \in previews THEN "already_saved" ELSE "preview_not_found")
            /\ UNCHANGED draft
       ELSE /\ draft' = [draft EXCEPT ![r] = NewPlan(r)]
            /\ Goto(r, FirstLabel("save"))
            /\ UNCHANGED <<answer, session>>
    /\ UNCHANGED <<job, at, gotAsset, gotPlan, todo, seen, removed, database, files, previews, faults>>
-------------------------------------------------------------------------------
(* The files.  Each is read and written in one go, with no lock.               *)

(* An edit reads the files to keep what its payload leaves out, and again      *)
(* after it wrote them, for the row.                                           *)
ReadAssetFile(r) ==
    /\ pc[r] \in {"readAsset", "rereadAsset"}
    /\ gotAsset' = [gotAsset EXCEPT ![r] = assetFile[Here(r)]]
    /\ Goto(r, IF pc[r] = "readAsset" THEN "readPlan" ELSE "rereadPlan")
    /\ UNCHANGED <<job, answer, at, gotPlan, draft, todo, seen, removed, session, database, files, previews, history>>

ReadPlanFile(r) ==
    /\ pc[r] \in {"readPlan", "rereadPlan"}
    /\ gotPlan' = [gotPlan EXCEPT ![r] = planFile[Here(r)]]
    /\ Goto(r, IF pc[r] = "readPlan" THEN "decide" ELSE "bundle")
    /\ UNCHANGED <<job, answer, at, gotAsset, draft, todo, seen, removed, session, database, files, previews, history>>

(* Mutant: normalize_test_point_plan_v1 carries review_status along.           *)
EditedPlanKeepingReviews(r) ==
    [by |-> r, sound |-> job[r].sound,
     approved |-> IF Read(r) = None THEN Unapproved ELSE Read(r).approved,
     preview |-> IF Read(r) = None THEN None ELSE Read(r).preview]

(* upsert_test_point_asset: the points of the payload, or those on file; the   *)
(* metadata of the plan on file is kept.  normalize_test_point_plan_v1 builds   *)
(* every point anew and has no review_status among its fields.                 *)
EditedPlan(r) ==
    IF Read(r) = None
    THEN [NewPlan(r) EXCEPT !.preview = None]
    ELSE IF job[r].keep
    THEN [Read(r) EXCEPT !.approved = Unapproved]
    ELSE [NewPlan(r) EXCEPT !.preview = Read(r).preview]

DecideEdit(r) ==
    /\ pc[r] = "decide" /\ Op(r) = "edit"
    /\ draft' = [draft EXCEPT ![r] = EditedPlan(r)]
    /\ Goto(r, "writePlan")
    /\ UNCHANGED <<job, answer, at, gotAsset, gotPlan, todo, seen, removed, session, database, files, previews, history>>

(* check_approve_point_gate, on the points that the request names.             *)
Refused(r) == job[r].approve /\ ~ job[r].points \subseteq Read(r).sound

Reviewed(r) ==
    [Read(r) EXCEPT !.approved = [p \in Points |->
        IF p \notin job[r].points THEN Read(r).approved[p]
        ELSE IF job[r].approve THEN r ELSE None]]

(* batch_review_test_points takes the assets one after the other; a point that *)
(* may not be approved ends the request with 422, after the files of the       *)
(* assets before it were written.                                              *)
DecideReview(r) ==
    /\ pc[r] = "decide" /\ Op(r) = "review"
    /\ \/ /\ Read(r) = None
          /\ Advance(r, "readAsset", "commit")
          /\ UNCHANGED <<answer, session, draft, calm>>
       \/ /\ Read(r) # None /\ Refused(r)
          /\ End(r, "refused")
          /\ calm' = (calm /\ at[r] = 1)
          /\ UNCHANGED <<at, draft>>
       \/ /\ Read(r) # None /\ ~Refused(r)
          /\ draft' = [draft EXCEPT ![r] = Reviewed(r)]
          /\ Goto(r, "writePlan")
          /\ UNCHANGED <<answer, session, at, calm>>
    /\ UNCHANGED <<job, gotAsset, gotPlan, todo, seen, removed, database, files, previews, faults>>

(* save_test_point_plan writes the plan file and then the asset file.  A       *)
(* review writes the files it found, and the row only if there was an asset    *)
(* file.                                                                       *)
WritePlanFile(r) ==
    /\ pc[r] = "writePlan"
    /\ planFile' = IF Op(r) = "review" /\ gotPlan[r] = None /\ planFile[Here(r)] = None
                   THEN planFile ELSE [planFile EXCEPT ![Here(r)] = draft[r]]
    /\ IF Op(r) = "review" /\ gotAsset[r] = None
       THEN Advance(r, "readAsset", "commit")
       ELSE UNCHANGED at /\ Goto(r, "writeAsset")
    /\ UNCHANGED <<job, answer, scratch, session, database, assetFile, previews, history>>

WriteAssetFile(r) ==
    /\ pc[r] = "writeAsset"
    /\ assetFile' = [assetFile EXCEPT ![Here(r)] = draft[r]]
    /\ Goto(r, CASE Op(r) = "save" -> "finish" [] Op(r) = "edit" -> "rereadAsset" [] OTHER -> "store")
    /\ UNCHANGED <<job, answer, at, scratch, session, database, planFile, previews, history>>

(* The bundle an edit stores is what it finds on file by then.                 *)
TakeBundle(r) ==
    /\ pc[r] = "bundle"
    /\ draft' = [draft EXCEPT ![r] = Read(r)]
    /\ Goto(r, IF Read(r) = None THEN "commit" ELSE "store")
    /\ UNCHANGED <<job, answer, at, gotAsset, gotPlan, todo, seen, removed, session, database, files, previews, history>>
-------------------------------------------------------------------------------
(* The database.                                                               *)

(* Mutant: sync_test_points commits its rows itself, as it did before DC-001.  *)
SyncPointsCommitted(r) ==
    /\ pc[r] = "sync" /\ FreePoints(r, Here(r))
    /\ pointRows' = [pointRows EXCEPT ![Here(r)] = r]
    /\ Goto(r, "store")
    /\ UNCHANGED <<job, answer, at, scratch, session, rows, files, previews, history>>

SyncPoints(r) ==
    /\ pc[r] = "sync" /\ FreePoints(r, Here(r))
    /\ synced' = [synced EXCEPT ![r] = synced[r] \cup {Here(r)}]
    /\ Goto(r, "store")
    /\ UNCHANGED <<job, answer, at, scratch, tx, broken, database, files, previews, history>>

(* save_asset.  After a flush that failed the session takes no statement more, *)
(* and the error is swallowed in an edit, in a review and in a delete.         *)
StoreRow(r) ==
    /\ pc[r] = "store"
    /\ \/ broken[r] /\ UNCHANGED tx
       \/ /\ ~broken[r] /\ FreeRow(r, Here(r))
          /\ tx' = [tx EXCEPT ![r][Here(r)] = draft[r]]
    /\ IF Op(r) = "review"
       THEN Advance(r, "readAsset", "commit")
       ELSE UNCHANGED at /\ Goto(r, "commit")
    /\ UNCHANGED <<job, answer, scratch, synced, broken, database, files, previews, history>>

DeleteRow(r) ==
    /\ pc[r] = "deleteRow"
    /\ \/ (broken[r] \/ rows[Here(r)] = None) /\ UNCHANGED tx
       \/ /\ ~broken[r] /\ rows[Here(r)] # None /\ FreeRow(r, Here(r))
          /\ tx' = [tx EXCEPT ![r][Here(r)] = Gone]
    /\ IF removed[r]
       THEN UNCHANGED at /\ Goto(r, "commit")
       ELSE Advance(r, "unlinkAsset", "reply")
    /\ UNCHANGED <<job, answer, scratch, synced, broken, database, files, previews, history>>

(* ensure_seed_data, which almost every call of the case center runs first and *)
(* the generation of a case with it: backfill_from_dir copies every asset file *)
(* there is into its row.                                                      *)
Scan(r) ==
    /\ pc[r] = "scan"
    /\ todo' = [todo EXCEPT ![r] = {a \in Assets : assetFile[a] # None}]
    /\ Goto(r, "import")
    /\ UNCHANGED <<job, answer, at, gotAsset, gotPlan, draft, seen, removed, session, database, files, previews, history>>

ImportFile(r) ==
    /\ pc[r] = "import"
    /\ IF todo[r] = {}
       THEN Goto(r, "commit") /\ UNCHANGED <<todo, seen>>
       ELSE \E a \in todo[r] :
              /\ \A b \in todo[r] : Rank[a] <= Rank[b]
              /\ todo' = [todo EXCEPT ![r] = todo[r] \ {a}]
              /\ seen' = [seen EXCEPT ![r] = [Clean EXCEPT ![a] = assetFile[a]]]
              /\ Goto(r, IF assetFile[a] = None THEN "import" ELSE "importRow")
    /\ UNCHANGED <<job, answer, at, gotAsset, gotPlan, draft, removed, session, database, files, previews, history>>

ImportRow(r) ==
    /\ pc[r] = "importRow"
    /\ \E a \in Assets :
         /\ seen[r][a] # None /\ FreeRow(r, a)
         /\ tx' = [tx EXCEPT ![r][a] = seen[r][a]]
    /\ Goto(r, "import")
    /\ UNCHANGED <<job, answer, at, scratch, synced, broken, database, files, previews, history>>

(* A flush fails because the database does, because the row it waited for was   *)
(* inserted or deleted by the other, or because the database ends a deadlock.  *)
Awaited(r) ==
    CASE pc[r] = "importRow" -> {a \in Assets : seen[r][a] # None}
      [] pc[r] \in {"store", "deleteRow"} -> {Here(r)}
      [] OTHER -> {}
Blockers(r) == {q \in Requests \ {r} : \E a \in Awaited(r) : tx[q][a] # None}
Deadlocked(r) ==
    \E C \in SUBSET Requests : r \in C /\ \A q \in C : Blockers(q) \cap C # {}
Overtaken(r) ==
    \E a \in Awaited(r), q \in Requests \ {r} :
        tx[q][a] # None /\ (rows[a] = None \/ tx[q][a] = Gone)

Fault == faults < MaxFaults /\ faults' = faults + 1 /\ calm' = FALSE

FlushFails(r) ==
    /\ pc[r] \in {"sync", "store", "deleteRow", "importRow"} /\ ~broken[r]
    /\ Fault \/ ((Deadlocked(r) \/ Overtaken(r)) /\ UNCHANGED history)
    /\ CASE Op(r) = "save" -> End(r, "error") /\ UNCHANGED <<at, scratch>>
         [] OTHER ->
              /\ tx' = [tx EXCEPT ![r] = Clean]
              /\ broken' = [broken EXCEPT ![r] = TRUE]
              /\ CASE Op(r) = "review" -> Advance(r, "readAsset", "commit")
                   [] Op(r) = "delete" /\ ~removed[r] -> Advance(r, "unlinkAsset", "reply")
                   [] OTHER -> UNCHANGED at /\ Goto(r, "commit")
              /\ UNCHANGED <<answer, synced, scratch>>
    /\ UNCHANGED <<job, database, files, previews>>

(* Mutant: the row of a deleted asset is kept and marked.                      *)
CommittedMarkers(r) ==
    /\ rows' = [a \in Assets |-> IF tx[r][a] = None THEN rows[a] ELSE tx[r][a]]
    /\ pointRows' = [a \in Assets |-> IF a \in synced[r] THEN r ELSE pointRows[a]]

Committed(r) ==
    /\ rows' = [a \in Assets |-> CASE tx[r][a] = None -> rows[a]
                                   [] tx[r][a] = Gone -> None
                                   [] OTHER -> tx[r][a]]
    /\ pointRows' = [a \in Assets |-> IF a \in synced[r] THEN r ELSE pointRows[a]]

(* The commit of a save is its own, that of the others is append_history's.  A  *)
(* call of the case center that only reads commits nothing.                    *)
Commit(r) ==
    /\ pc[r] = "commit" /\ ~broken[r]
    /\ \/ Committed(r)
       \/ Op(r) = "case" /\ UNCHANGED database
    /\ IF Op(r) \in {"review", "case"}
       THEN End(r, "ok") /\ UNCHANGED at
       ELSE /\ Release(r) /\ UNCHANGED answer
            /\ CASE Op(r) = "save" -> Goto(r, "writePlan") /\ UNCHANGED at
                 [] Op(r) = "edit" -> Goto(r, "detail") /\ UNCHANGED at
                 [] Op(r) = "delete" -> Advance(r, "unlinkAsset", "reply")
                 [] OTHER -> Advance(r, "readAsset", "reply")
    /\ UNCHANGED <<job, scratch, files, previews, history>>

CommitFails(r) ==
    /\ pc[r] = "commit"
    /\ Fault \/ (broken[r] /\ UNCHANGED history)
    /\ End(r, "error")
    /\ UNCHANGED <<job, at, scratch, database, files, previews>>
-------------------------------------------------------------------------------
(* The rest of the operations.                                                 *)

UnlinkAssetFile(r) ==
    /\ pc[r] = "unlinkAsset"
    /\ removed' = [removed EXCEPT ![r] = assetFile[Here(r)] # None]
    /\ assetFile' = [assetFile EXCEPT ![Here(r)] = None]
    /\ Goto(r, "unlinkPlan")
    /\ UNCHANGED <<job, answer, at, gotAsset, gotPlan, draft, todo, seen, session, database, planFile, previews, history>>

(* Mutant: delete_test_point_asset removes the asset file only.                *)
KeepPlanFile(r) ==
    /\ pc[r] = "unlinkPlan"
    /\ Goto(r, "deleteRow")
    /\ UNCHANGED <<job, answer, at, scratch, session, database, files, previews, history>>

UnlinkPlanFile(r) ==
    /\ pc[r] = "unlinkPlan"
    /\ removed' = [removed EXCEPT ![r] = removed[r] \/ planFile[Here(r)] # None]
    /\ planFile' = [planFile EXCEPT ![Here(r)] = None]
    /\ Goto(r, "deleteRow")
    /\ UNCHANGED <<job, answer, at, gotAsset, gotPlan, draft, todo, seen, session, database, assetFile, previews, history>>

(* sync_cache_from_db: the rows are read, and then the files that are missing  *)
(* are written.                                                                *)
QueryRows(r) ==
    /\ pc[r] = "query"
    /\ seen' = [seen EXCEPT ![r] = rows]
    /\ todo' = [todo EXCEPT ![r] = {a \in Assets : rows[a] # None}]
    /\ Goto(r, "resync")
    /\ UNCHANGED <<job, answer, at, gotAsset, gotPlan, draft, removed, session, database, files, previews, history>>

Resync(r) ==
    /\ pc[r] = "resync"
    /\ IF todo[r] = {}
       THEN End(r, "ok") /\ UNCHANGED <<todo, assetFile>>
       ELSE /\ \E a \in todo[r] :
                 /\ todo' = [todo EXCEPT ![r] = todo[r] \ {a}]
                 /\ assetFile' = IF assetFile[a] # None THEN assetFile
                                 ELSE [assetFile EXCEPT ![a] = seen[r][a]]
            /\ UNCHANGED <<pc, answer, session>>
    /\ UNCHANGED <<job, at, gotAsset, gotPlan, draft, seen, removed, database, planFile, previews, history>>

(* generate_cases_from_test_point_assets: check_generate_gate lets no asset    *)
(* with a weak point through, and only approved points become cases.           *)
DecideGenerate(r) ==
    /\ pc[r] = "decide" /\ Op(r) = "generate"
    /\ IF Read(r) # None /\ Read(r).sound # Points
       THEN End(r, "refused") /\ UNCHANGED at
       ELSE /\ UNCHANGED <<answer, session>>
            /\ IF Read(r) # None /\ \E p \in Points : Read(r).approved[p] # None
               THEN Goto(r, "scan") /\ UNCHANGED at
               ELSE Advance(r, "readAsset", "reply")
    /\ UNCHANGED <<job, scratch, database, files, previews, history>>

(* The edit answers with get_test_point_asset, which always has something to   *)
(* show; the save deletes its snapshot; a delete that found no file answers    *)
(* 404, and one of several assets lists those it did not find.                 *)
Finish(r) ==
    /\ pc[r] \in {"detail", "finish", "reply"}
    /\ End(r, IF pc[r] = "reply" /\ Op(r) = "delete" /\ Len(job[r].assets) = 1 /\ ~removed[r]
              THEN "not_found" ELSE "ok")
    /\ previews' = IF pc[r] = "finish" THEN previews \ {job[r].preview} ELSE previews
    /\ UNCHANGED <<job, at, scratch, database, files, history>>

(* A write fails: the save goes on, its data being in the database; the edit   *)
(* and the review answer 500.                                                  *)
WriteFails(r) ==
    /\ pc[r] \in {"writePlan", "writeAsset"} /\ Fault
    /\ IF Op(r) = "save"
       THEN Goto(r, "finish") /\ UNCHANGED <<answer, session>>
       ELSE End(r, "error")
    /\ UNCHANGED <<job, at, scratch, database, files, previews>>

(* The server restarts: what was not committed is rolled back.                 *)
Crash ==
    /\ Fault /\ \E r \in Requests : InFlight(r)
    /\ pc' = [r \in Requests |-> IF InFlight(r) THEN "done" ELSE pc[r]]
    /\ answer' = [r \in Requests |-> IF InFlight(r) THEN "lost" ELSE answer[r]]
    /\ tx' = [r \in Requests |-> Clean]
    /\ synced' = [r \in Requests |-> {}]
    /\ broken' = [r \in Requests |-> FALSE]
    /\ UNCHANGED <<job, at, scratch, database, files, previews>>
-------------------------------------------------------------------------------
Step(r) ==
    \/ ReadAssetFile(r) \/ ReadPlanFile(r) \/ DecideEdit(r) \/ DecideReview(r)
    \/ WritePlanFile(r) \/ WriteAssetFile(r) \/ WriteFails(r) \/ TakeBundle(r)
    \/ SyncPoints(r) \/ StoreRow(r) \/ DeleteRow(r) \/ FlushFails(r) \/ Commit(r) \/ CommitFails(r)
    \/ Scan(r) \/ ImportFile(r) \/ ImportRow(r) \/ UnlinkAssetFile(r) \/ UnlinkPlanFile(r)
    \/ QueryRows(r) \/ Resync(r) \/ DecideGenerate(r) \/ Finish(r)

Next == Crash \/ \E r \in Requests : Begin(r) \/ Step(r)

Spec == Init /\ [][Next]_vars

(* A request that arrived goes on; its thread is not stopped.                  *)
FairSpec == Spec /\ \A r \in Requests : WF_vars(Step(r))
-------------------------------------------------------------------------------
Labels == {"idle", "sync", "readAsset", "readPlan", "decide", "writePlan", "writeAsset",
           "rereadAsset", "rereadPlan", "bundle", "store", "commit", "detail", "finish",
           "unlinkAsset", "unlinkPlan", "deleteRow", "query", "resync", "scan", "import",
           "importRow", "reply", "done"}

Copies == {rows[a] : a \in Assets} \cup {assetFile[a] : a \in Assets} \cup {planFile[a] : a \in Assets}

TypeOK ==
    /\ job \in [Requests -> Jobs] /\ pc \in [Requests -> Labels]
    /\ answer \in [Requests -> {None, "ok", "refused", "error", "not_found", "lost",
                                "preview_not_found", "already_saved"}]
    /\ at \in [Requests -> Nat \ {0}]
    /\ gotAsset \in [Requests -> Plan \cup {None}] /\ gotPlan \in [Requests -> Plan \cup {None}]
    /\ draft \in [Requests -> Plan \cup {None}]
    /\ todo \in [Requests -> SUBSET Assets]
    /\ seen \in [Requests -> [Assets -> Plan \cup {None}]]
    /\ removed \in [Requests -> BOOLEAN] /\ broken \in [Requests -> BOOLEAN]
    /\ tx \in [Requests -> [Assets -> Plan \cup {None, Gone}]]
    /\ synced \in [Requests -> SUBSET Assets]
    /\ rows \in [Assets -> Plan \cup {None}]
    /\ pointRows \in [Assets -> Requests \cup {None}]
    /\ assetFile \in [Assets -> Plan \cup {None}] /\ planFile \in [Assets -> Plan \cup {None}]
    /\ previews \subseteq Previews
    /\ calm \in BOOLEAN /\ faults \in 0..MaxFaults

(* However requests interleave and whatever fails, a point that is approved in *)
(* a row or in a file has content that the quality gate lets through: an edit  *)
(* or a save that replaces the content never inherits an approval.             *)
ApprovalsPassedGate ==
    \A c \in Copies \ {None} : \A p \in Points : c.approved[p] # None => p \in c.sound

(* DC-001: the rows of test_points change only in the commit that also stores  *)
(* the asset row of the same save.                                             *)
PointsChangeWithAsset ==
    [][\A a \in Assets : pointRows'[a] # pointRows[a] =>
         rows'[a] # None /\ rows'[a].by = pointRows'[a]]_vars

(* As long as requests do not overlap and nothing fails, the files and the row *)
(* of an asset hold the same plan whenever no request is under way.            *)
CalmCopiesAgree ==
    calm /\ (\A r \in Requests : ~InFlight(r)) => \A a \in Assets : OnFile(a) = rows[a]

(* Every request that arrived is answered, whatever rows it waits for.         *)
EveryRequestEnds == \A r \in Requests : InFlight(r) ~> pc[r] = "done"

(* "The database is the source of truth, the files are a cache that can be     *)
(* rebuilt": a call of the case center, which names no asset, leaves the plan  *)
(* of a row as it is.                                                          *)
CacheNeverOverwritesRow ==
    [][\A r \in Requests, a \in Assets :
         Op(r) = "case" /\ pc[r] = "commit" /\ pc'[r] # "commit" /\ rows[a] # None =>
             rows'[a] = rows[a]]_vars

===============================================================================
