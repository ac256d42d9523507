------------------------- MODULE TestPointAssetsProofs -------------------------
(* Proofs about TestPointAssets, for every set of requests, assets, points and *)
(* jobs: types, approvals of sound points only, points that change with their  *)
(* asset, and copies that agree while requests do not overlap.                 *)
EXTENDS TestPointAssets, TLAPS

(* A plan in which only points that the quality gate lets through are          *)
(* approved.                                                                   *)
SoundPlan == {c \in Plan : \A p \in Points : c.approved[p] # None => p \in c.sound}
Held == SoundPlan \cup {None}

(* TypeOK, with a sound plan wherever there is a plan: in the tables and files *)
(* and in what requests have read, drafted and flushed.                        *)
Shape ==
    /\ job \in [Requests -> Jobs] /\ pc \in [Requests -> Labels]
    /\ answer \in [Requests -> {None, "ok", "refused", "error", "not_found", "lost",
                                "preview_not_found", "already_saved"}]
    /\ at \in [Requests -> Nat \ {0}]
    /\ gotAsset \in [Requests -> Held] /\ gotPlan \in [Requests -> Held]
    /\ draft \in [Requests -> Held]
    /\ todo \in [Requests -> SUBSET Assets]
    /\ seen \in [Requests -> [Assets -> Held]]
    /\ removed \in [Requests -> BOOLEAN] /\ broken \in [Requests -> BOOLEAN]
    /\ tx \in [Requests -> [Assets -> Held \cup {Gone}]]
    /\ synced \in [Requests -> SUBSET Assets]
    /\ rows \in [Assets -> Held]
    /\ pointRows \in [Assets -> Requests \cup {None}]
    /\ assetFile \in [Assets -> Held] /\ planFile \in [Assets -> Held]
    /\ previews \subseteq Previews
    /\ calm \in BOOLEAN /\ faults \in 0..MaxFaults

(* A request that works on assets points at one of its own.                    *)
Located ==
    \A r \in Requests :
        /\ Op(r) = "list" => pc[r] \in {"idle", "query", "resync", "done"}
        /\ Op(r) = "case" => pc[r] \in {"idle", "scan", "import", "importRow", "commit", "done"}
        /\ Op(r) \notin {"list", "case"} => at[r] \in 1..Len(job[r].assets)

Inv == Shape /\ Located
-------------------------------------------------------------------------------
(* The asset a request points at.                                              *)
LEMMA HereIsAnAsset ==
    ASSUME Inv, NEW r \in Requests, Op(r) \notin {"list", "case"}
    PROVE  Here(r) \in Assets
<1>1. job[r] \in JobShape
  BY AssetsAssumption DEF Inv, Shape
<1> QED BY <1>1 DEF Inv, Located, Here, JobShape

(* What a request gets from the files is sound.                                *)
LEMMA ReadIsHeld ==
    ASSUME Inv, NEW r \in Requests
    PROVE  Read(r) \in Held
BY DEF Inv, Shape, Read

(* The payload of a request.                                                   *)
LEMMA PayloadType ==
    ASSUME Inv, NEW r \in Requests
    PROVE  /\ job[r].sound \in SUBSET Points /\ job[r].points \in SUBSET Points
           /\ job[r].preview \in Previews \cup {None}
           /\ job[r].assets \in Seq(Assets)
           /\ Op(r) \in Operations
           /\ Op(r) \notin {"list", "case"} => job[r].assets # << >>
BY AssetsAssumption DEF Inv, Shape, JobShape, Op

(* A new plan approves nothing.                                                *)
LEMMA NewPlanIsSound ==
    ASSUME Inv, NEW r \in Requests
    PROVE  /\ NewPlan(r) \in SoundPlan
           /\ \A v \in Previews \cup {None} : [NewPlan(r) EXCEPT !.preview = v] \in SoundPlan
           /\ NewPlan(r).by = r
BY PayloadType DEF NewPlan, SoundPlan, Plan, Unapproved

(* An edit approves nothing.                                                   *)
LEMMA EditedPlanIsSound ==
    ASSUME Inv, NEW r \in Requests
    PROVE  EditedPlan(r) \in SoundPlan
<1>1. CASE Read(r) = None
  BY <1>1, NewPlanIsSound DEF EditedPlan
<1>2. CASE Read(r) # None
  <2>1. Read(r) \in Plan
    BY <1>2, ReadIsHeld DEF Held, SoundPlan
  <2>2. Read(r).preview \in Previews \cup {None}
    BY <2>1 DEF Plan
  <2>3. [Read(r) EXCEPT !.approved = Unapproved] \in SoundPlan
    BY <2>1 DEF Plan, SoundPlan, Unapproved
  <2> QED BY <1>2, <2>2, <2>3, NewPlanIsSound DEF EditedPlan
<1> QED BY <1>1, <1>2

(* A review that is not refused approves sound points only.                    *)
LEMMA ReviewedIsSound ==
    ASSUME Inv, NEW r \in Requests, Read(r) # None, ~Refused(r)
    PROVE  Reviewed(r) \in SoundPlan
<1>1. Read(r) \in SoundPlan
  BY ReadIsHeld DEF Held
<1>2. Read(r) \in Plan
  BY <1>1 DEF SoundPlan
<1> DEFINE marks == [p \in Points |-> IF p \notin job[r].points THEN Read(r).approved[p]
                                      ELSE IF job[r].approve THEN r ELSE None]
<1>3. marks \in [Points -> Requests \cup {None}]
  BY <1>2 DEF Plan
<1>4. Reviewed(r) \in Plan /\ Reviewed(r).approved = marks /\ Reviewed(r).sound = Read(r).sound
  BY <1>2, <1>3 DEF Reviewed, Plan
<1>5. ASSUME NEW p \in Points, marks[p] # None
      PROVE  p \in Read(r).sound
  BY <1>1, <1>5 DEF SoundPlan, Refused
<1> QED BY <1>4, <1>5 DEF SoundPlan

(* Going on to the next asset.                                                 *)
LEMMA AdvanceKeeps ==
    ASSUME Inv, NEW r \in Requests, NEW label \in Labels, NEW last \in Labels,
           Advance(r, label, last), UNCHANGED job, Op(r) \notin {"list", "case"}
    PROVE  /\ at' \in [Requests -> Nat \ {0}]
           /\ pc' \in [Requests -> Labels]
           /\ Located'
<1>1. Len(job[r].assets) \in Nat
  BY PayloadType
<1>a. at \in [Requests -> Nat \ {0}] /\ pc \in [Requests -> Labels]
  BY DEF Inv, Shape
<1>b. at[r] \in 1..Len(job[r].assets)
  BY DEF Inv, Located
<1>2. at' \in [Requests -> Nat \ {0}] /\ pc' \in [Requests -> Labels]
  BY <1>a DEF Advance, Goto
<1>3. at'[r] \in 1..Len(job[r].assets)
  BY <1>1, <1>a, <1>b DEF Advance
<1>4. \A q \in Requests \ {r} : at'[q] = at[q] /\ pc'[q] = pc[q]
  BY <1>a DEF Advance, Goto
<1> QED BY <1>2, <1>3, <1>4 DEF Inv, Located, Op

(* A request that only moves to another label.                                 *)
LEMMA GotoKeeps ==
    ASSUME Inv, NEW r \in Requests, NEW label \in Labels, Goto(r, label), UNCHANGED <<job, at>>,
           Op(r) = "list" => label \in {"idle", "query", "resync", "done"},
           Op(r) = "case" => label \in {"idle", "scan", "import", "importRow", "commit", "done"}
    PROVE  pc' \in [Requests -> Labels] /\ Located'
<1>1. pc \in [Requests -> Labels]
  BY DEF Inv, Shape
<1>2. pc' \in [Requests -> Labels] /\ pc'[r] = label /\ \A q \in Requests \ {r} : pc'[q] = pc[q]
  BY <1>1 DEF Goto
<1> QED BY <1>2 DEF Inv, Located, Op

(* The end of a request.                                                       *)
Answers == {None, "ok", "refused", "error", "not_found", "lost", "preview_not_found", "already_saved"}

LEMMA EndKeeps ==
    ASSUME Inv, NEW r \in Requests, NEW value \in Answers, End(r, value), UNCHANGED <<job, at>>
    PROVE  /\ pc' \in [Requests -> Labels] /\ Located'
           /\ answer' \in [Requests -> Answers]
           /\ tx' \in [Requests -> [Assets -> Held \cup {Gone}]]
           /\ synced' \in [Requests -> SUBSET Assets]
           /\ broken' \in [Requests -> BOOLEAN]
<1>1. pc' \in [Requests -> Labels] /\ Located'
  BY GotoKeeps DEF End, Labels
<1>2. answer' \in [Requests -> Answers]
  BY DEF End, Inv, Shape, Answers
<1>3. /\ tx' \in [Requests -> [Assets -> Held \cup {Gone}]]
      /\ synced' \in [Requests -> SUBSET Assets]
      /\ broken' \in [Requests -> BOOLEAN]
  BY DEF End, Close, Release, Clean, Inv, Shape, Held
<1> QED BY <1>1, <1>2, <1>3
-------------------------------------------------------------------------------
LEMMA InvInit == Init => Inv
<1> SUFFICES ASSUME Init PROVE Inv
  OBVIOUS
<1>1. \A r \in Requests : job[r] \in JobShape
  BY AssetsAssumption DEF Init
<1>2. \A j \in Jobs : Earlier(j.sound) \in SoundPlan
  BY AssetsAssumption DEF Earlier, SoundPlan, Plan, Unapproved, JobShape
<1>3. rows \in [Assets -> Held]
  BY <1>2 DEF Init, Held
<1>4. Shape
  BY <1>3, AssetsAssumption DEF Init, Shape, Held, Clean, Labels
<1>5. Located
  <2> SUFFICES ASSUME NEW r \in Requests, Op(r) \notin {"list", "case"}
               PROVE  at[r] \in 1..Len(job[r].assets)
    BY DEF Init, Located
  <2>1. job[r].assets \in Seq(Assets) /\ job[r].assets # << >>
    BY <1>1, AssetsAssumption DEF Init, JobShape, Op
  <2>2. Len(job[r].assets) \in Nat /\ Len(job[r].assets) > 0
    BY <2>1
  <2> QED BY <2>2 DEF Init
<1> QED BY <1>4, <1>5 DEF Inv

USE DEF scratch, session, database, files, history

(* One lemma per action: it preserves Inv.                                     *)
LEMMA BeginKeeps ==
    ASSUME Inv, NEW r \in Requests, Begin(r)
    PROVE  Inv'
<1>1. CASE Op(r) # "save"
  <2>1. /\ FirstLabel(Op(r)) \in Labels
        /\ Op(r) = "list" => FirstLabel(Op(r)) = "query"
        /\ Op(r) = "case" => FirstLabel(Op(r)) = "scan"
    BY <1>1 DEF FirstLabel, Labels
  <2>2. pc' \in [Requests -> Labels] /\ Located'
    BY <1>1, <2>1, GotoKeeps DEF Begin
  <2> QED BY <1>1, <2>2 DEF Begin, Inv, Shape
<1> DEFINE settled == job[r].preview # None /\ (job[r].preview \notin previews \/ AlreadySaved(job[r].preview))
<1>2. CASE Op(r) = "save" /\ settled
  <2>1. PICK value \in Answers : End(r, value) /\ UNCHANGED <<job, at>>
    BY <1>2 DEF Begin, Answers
  <2> HIDE DEF session
  <2> QED BY <1>2, <2>1, EndKeeps DEF Begin, Inv, Shape, Answers
<1>3. CASE Op(r) = "save" /\ ~settled
  <2>1. pc' \in [Requests -> Labels] /\ Located'
    BY <1>3, GotoKeeps DEF Begin, FirstLabel, Labels
  <2>2. NewPlan(r) \in Held
    BY NewPlanIsSound DEF Held
  <2> QED BY <1>3, <2>1, <2>2 DEF Begin, Inv, Shape
<1> QED BY <1>1, <1>2, <1>3

LEMMA ReadAssetFileKeeps ==
    ASSUME Inv, NEW r \in Requests, ReadAssetFile(r)
    PROVE  Inv'
<1>1. Op(r) \notin {"list", "case"}
  BY DEF ReadAssetFile, Inv, Located
<1>2. assetFile[Here(r)] \in Held
  BY <1>1, HereIsAnAsset DEF Inv, Shape
<1>3. pc' \in [Requests -> Labels] /\ Located'
  BY <1>1, GotoKeeps DEF ReadAssetFile, Labels
<1> QED BY <1>2, <1>3 DEF ReadAssetFile, Inv, Shape

LEMMA ReadPlanFileKeeps ==
    ASSUME Inv, NEW r \in Requests, ReadPlanFile(r)
    PROVE  Inv'
<1>1. Op(r) \notin {"list", "case"}
  BY DEF ReadPlanFile, Inv, Located
<1>2. planFile[Here(r)] \in Held
  BY <1>1, HereIsAnAsset DEF Inv, Shape
<1>3. pc' \in [Requests -> Labels] /\ Located'
  BY <1>1, GotoKeeps DEF ReadPlanFile, Labels
<1> QED BY <1>2, <1>3 DEF ReadPlanFile, Inv, Shape

LEMMA DecideEditKeeps ==
    ASSUME Inv, NEW r \in Requests, DecideEdit(r)
    PROVE  Inv'
<1>1. pc' \in [Requests -> Labels] /\ Located'
  BY GotoKeeps DEF DecideEdit, Labels
<1> QED BY <1>1, EditedPlanIsSound DEF DecideEdit, Inv, Shape, Held

LEMMA DecideReviewKeeps ==
    ASSUME Inv, NEW r \in Requests, DecideReview(r)
    PROVE  Inv'
<1>1. CASE Read(r) = None
  <2>1. Advance(r, "readAsset", "commit")
    BY <1>1 DEF DecideReview
  <2>2. /\ at' \in [Requests -> Nat \ {0}] /\ pc' \in [Requests -> Labels] /\ Located'
    BY <2>1, AdvanceKeeps DEF DecideReview, Labels
  <2> QED BY <1>1, <2>2 DEF DecideReview, Inv, Shape
<1>2. CASE Read(r) # None /\ Refused(r)
  <2>1. End(r, "refused") /\ UNCHANGED <<job, at>>
    BY <1>2 DEF DecideReview
  <2> HIDE DEF session
  <2> QED BY <1>2, <2>1, EndKeeps DEF DecideReview, Inv, Shape, Answers
<1>3. CASE Read(r) # None /\ ~Refused(r)
  <2>1. Reviewed(r) \in Held
    BY <1>3, ReviewedIsSound DEF Held
  <2>2. pc' \in [Requests -> Labels] /\ Located'
    BY <1>3, GotoKeeps DEF DecideReview, Labels
  <2> QED BY <1>3, <2>1, <2>2 DEF DecideReview, Inv, Shape
<1> QED BY <1>1, <1>2, <1>3

LEMMA WritePlanFileKeeps ==
    ASSUME Inv, NEW r \in Requests, WritePlanFile(r)
    PROVE  Inv'
<1>1. Op(r) \notin {"list", "case"}
  BY DEF WritePlanFile, Inv, Located
<1>2. at' \in [Requests -> Nat \ {0}] /\ pc' \in [Requests -> Labels] /\ Located'
  <2>1. CASE Op(r) = "review" /\ gotAsset[r] = None
    BY <1>1, <2>1, AdvanceKeeps DEF WritePlanFile, Labels
  <2>2. CASE ~(Op(r) = "review" /\ gotAsset[r] = None)
    BY <1>1, <2>2, GotoKeeps DEF WritePlanFile, Labels, Inv, Shape
  <2> QED BY <2>1, <2>2
<1> QED BY <1>2 DEF WritePlanFile, Inv, Shape

LEMMA WriteAssetFileKeeps ==
    ASSUME Inv, NEW r \in Requests, WriteAssetFile(r)
    PROVE  Inv'
<1>1. Op(r) \notin {"list", "case"}
  BY DEF WriteAssetFile, Inv, Located
<1>2. pc' \in [Requests -> Labels] /\ Located'
  BY <1>1, GotoKeeps DEF WriteAssetFile, Labels
<1> QED BY <1>2 DEF WriteAssetFile, Inv, Shape

LEMMA TakeBundleKeeps ==
    ASSUME Inv, NEW r \in Requests, TakeBundle(r)
    PROVE  Inv'
<1>1. Op(r) \notin {"list", "case"}
  BY DEF TakeBundle, Inv, Located
<1>2. pc' \in [Requests -> Labels] /\ Located'
  BY <1>1, GotoKeeps DEF TakeBundle, Labels
<1> QED BY <1>2, ReadIsHeld DEF TakeBundle, Inv, Shape

LEMMA SyncPointsKeeps ==
    ASSUME Inv, NEW r \in Requests, SyncPoints(r)
    PROVE  Inv'
<1>1. Op(r) \notin {"list", "case"}
  BY DEF SyncPoints, Inv, Located
<1>2. pc' \in [Requests -> Labels] /\ Located'
  BY <1>1, GotoKeeps DEF SyncPoints, Labels
<1> QED BY <1>1, <1>2, HereIsAnAsset DEF SyncPoints, Inv, Shape

(* A flush puts a plan, or the mark of a deletion, into the transaction.       *)
LEMMA FlushType ==
    ASSUME Inv, NEW r \in Requests, NEW a, NEW v \in Held \cup {Gone}, tx' = [tx EXCEPT ![r][a] = v]
    PROVE  tx' \in [Requests -> [Assets -> Held \cup {Gone}]]
<1>1. tx \in [Requests -> [Assets -> Held \cup {Gone}]]
  BY DEF Inv, Shape
<1>2. [tx[r] EXCEPT ![a] = v] \in [Assets -> Held \cup {Gone}]
  BY <1>1
<1> QED BY <1>1, <1>2

LEMMA StoreRowKeeps ==
    ASSUME Inv, NEW r \in Requests, StoreRow(r)
    PROVE  Inv'
<1>1. Op(r) \notin {"list", "case"}
  BY DEF StoreRow, Inv, Located
<1>2. at' \in [Requests -> Nat \ {0}] /\ pc' \in [Requests -> Labels] /\ Located'
  <2>1. CASE Op(r) = "review"
    BY <1>1, <2>1, AdvanceKeeps DEF StoreRow, Labels
  <2>2. CASE Op(r) # "review"
    BY <1>1, <2>2, GotoKeeps DEF StoreRow, Labels, Inv, Shape
  <2> QED BY <2>1, <2>2
<1>3. draft[r] \in Held \cup {Gone}
  BY DEF Inv, Shape
<1>4. tx' \in [Requests -> [Assets -> Held \cup {Gone}]]
  BY <1>3, FlushType DEF StoreRow, Inv, Shape
<1> QED BY <1>2, <1>4 DEF StoreRow, Inv, Shape

LEMMA DeleteRowKeeps ==
    ASSUME Inv, NEW r \in Requests, DeleteRow(r)
    PROVE  Inv'
<1>1. Op(r) \notin {"list", "case"}
  BY DEF DeleteRow, Inv, Located
<1>2. at' \in [Requests -> Nat \ {0}] /\ pc' \in [Requests -> Labels] /\ Located'
  <2>1. CASE ~removed[r]
    BY <1>1, <2>1, AdvanceKeeps DEF DeleteRow, Labels
  <2>2. CASE removed[r]
    BY <1>1, <2>2, GotoKeeps DEF DeleteRow, Labels, Inv, Shape
  <2> QED BY <2>1, <2>2
<1>3. tx' \in [Requests -> [Assets -> Held \cup {Gone}]]
  BY FlushType DEF DeleteRow, Inv, Shape
<1> QED BY <1>2, <1>3 DEF DeleteRow, Inv, Shape

LEMMA ScanKeeps ==
    ASSUME Inv, NEW r \in Requests, Scan(r)
    PROVE  Inv'
<1>1. Op(r) # "list"
  BY DEF Scan, Inv, Located
<1>2. pc' \in [Requests -> Labels] /\ Located'
  BY <1>1, GotoKeeps DEF Scan, Labels
<1> QED BY <1>2 DEF Scan, Inv, Shape

LEMMA ImportFileKeeps ==
    ASSUME Inv, NEW r \in Requests, ImportFile(r)
    PROVE  Inv'
<1>1. Op(r) # "list"
  BY DEF ImportFile, Inv, Located
<1>2. CASE todo[r] = {}
  <2>1. pc' \in [Requests -> Labels] /\ Located'
    BY <1>1, <1>2, GotoKeeps DEF ImportFile, Labels
  <2> QED BY <1>2, <2>1 DEF ImportFile, Inv, Shape
<1>3. CASE todo[r] # {}
  <2>1. PICK a \in todo[r] :
           /\ todo' = [todo EXCEPT ![r] = todo[r] \ {a}]
           /\ seen' = [seen EXCEPT ![r] = [Clean EXCEPT ![a] = assetFile[a]]]
           /\ Goto(r, IF assetFile[a] = None THEN "import" ELSE "importRow")
    BY <1>3 DEF ImportFile
  <2>2. pc' \in [Requests -> Labels] /\ Located'
    BY <1>1, <2>1, GotoKeeps DEF ImportFile, Labels
  <2>3. [Clean EXCEPT ![a] = assetFile[a]] \in [Assets -> Held]
    BY <2>1 DEF Inv, Shape, Clean, Held
  <2> QED BY <2>1, <2>2, <2>3 DEF ImportFile, Inv, Shape
<1> QED BY <1>2, <1>3

LEMMA ImportRowKeeps ==
    ASSUME Inv, NEW r \in Requests, ImportRow(r)
    PROVE  Inv'
<1>1. Op(r) # "list"
  BY DEF ImportRow, Inv, Located
<1>2. pc' \in [Requests -> Labels] /\ Located'
  BY <1>1, GotoKeeps DEF ImportRow, Labels
<1>3. PICK a \in Assets : tx' = [tx EXCEPT ![r][a] = seen[r][a]]
  BY DEF ImportRow
<1>4. seen[r][a] \in Held \cup {Gone}
  BY DEF Inv, Shape
<1>5. tx' \in [Requests -> [Assets -> Held \cup {Gone}]]
  BY <1>3, <1>4, FlushType
<1> QED BY <1>2, <1>5 DEF ImportRow, Inv, Shape

(* A call that fails counts as a fault or is one the database explains.        *)
LEMMA FaultKeeps ==
    ASSUME Inv, Fault \/ UNCHANGED history
    PROVE  calm' \in BOOLEAN /\ faults' \in 0..MaxFaults
<1>1. calm \in BOOLEAN /\ faults \in 0..MaxFaults
  BY DEF Inv, Shape
<1>2. CASE Fault
  <2>1. calm' \in BOOLEAN
    BY <1>2 DEF Fault
  <2>2. faults' \in 0..MaxFaults
    BY <1>1, <1>2, AssetsAssumption DEF Fault
  <2> QED BY <2>1, <2>2
<1>3. CASE UNCHANGED history
  BY <1>1, <1>3
<1> QED BY <1>2, <1>3

LEMMA FlushFailsKeeps ==
    ASSUME Inv, NEW r \in Requests, FlushFails(r)
    PROVE  Inv'
<1>1. calm' \in BOOLEAN /\ faults' \in 0..MaxFaults
  BY FaultKeeps DEF FlushFails
<1>2. CASE Op(r) = "save"
  <2>1. PICK value \in Answers : End(r, value) /\ UNCHANGED <<job, at>>
    BY <1>2 DEF FlushFails, Answers
  <2> HIDE DEF session, history
  <2> QED BY <1>1, <1>2, <2>1, EndKeeps DEF FlushFails, Inv, Shape, Answers
<1>3. CASE Op(r) # "save"
  <2>1. Op(r) # "list"
    BY DEF FlushFails, Inv, Located
  <2>2. at' \in [Requests -> Nat \ {0}] /\ pc' \in [Requests -> Labels] /\ Located'
    <3>1. CASE Op(r) = "review"
      BY <1>3, <3>1, AdvanceKeeps DEF FlushFails, Labels
    <3>2. CASE Op(r) = "delete" /\ ~removed[r]
      BY <1>3, <3>2, AdvanceKeeps DEF FlushFails, Labels
    <3>3. CASE Op(r) # "review" /\ ~(Op(r) = "delete" /\ ~removed[r])
      BY <1>3, <2>1, <3>3, GotoKeeps DEF FlushFails, Labels, Inv, Shape
    <3> QED BY <3>1, <3>2, <3>3
  <2>3. tx' = [tx EXCEPT ![r] = Clean] /\ broken' = [broken EXCEPT ![r] = TRUE]
    BY <1>3 DEF FlushFails
  <2>4. tx' \in [Requests -> [Assets -> Held \cup {Gone}]] /\ broken' \in [Requests -> BOOLEAN]
    BY <2>3 DEF Inv, Shape, Clean, Held
  <2>5. UNCHANGED <<answer, synced, scratch, job, database, files, previews>>
    BY <1>3 DEF FlushFails
  <2> HIDE DEF history
  <2> QED BY <1>1, <2>2, <2>4, <2>5 DEF Inv, Shape
<1> QED BY <1>2, <1>3

(* What a commit puts into the tables.                                         *)
LEMMA CommittedKeeps ==
    ASSUME Inv, NEW r \in Requests, Committed(r) \/ UNCHANGED database
    PROVE  rows' \in [Assets -> Held] /\ pointRows' \in [Assets -> Requests \cup {None}]
<1>1. CASE Committed(r)
  <2>1. \A a \in Assets : tx[r][a] \in Held \cup {Gone} /\ rows[a] \in Held
    BY DEF Inv, Shape
  <2>2. Gone \notin Held /\ None \in Held
    BY AssetsAssumption DEF Held, SoundPlan
  <2>3. rows' \in [Assets -> Held]
    BY <1>1, <2>1, <2>2 DEF Committed
  <2> QED BY <1>1, <2>3 DEF Committed, Inv, Shape
<1>2. CASE UNCHANGED database
  BY <1>2 DEF Inv, Shape
<1> QED BY <1>1, <1>2

LEMMA CommitKeeps ==
    ASSUME Inv, NEW r \in Requests, Commit(r)
    PROVE  Inv'
<1>1. rows' \in [Assets -> Held] /\ pointRows' \in [Assets -> Requests \cup {None}]
  BY CommittedKeeps DEF Commit
<1>2. CASE Op(r) \in {"review", "case"}
  <2>1. End(r, "ok") /\ UNCHANGED <<job, at>>
    BY <1>2 DEF Commit
  <2> HIDE DEF session, database
  <2> QED BY <1>1, <2>1, EndKeeps DEF Commit, Inv, Shape, Answers
<1>3. CASE Op(r) \notin {"review", "case"}
  <2>1. Op(r) # "list"
    BY DEF Commit, Inv, Located
  <2>2. at' \in [Requests -> Nat \ {0}] /\ pc' \in [Requests -> Labels] /\ Located'
    <3>1. CASE Op(r) \in {"save", "edit"}
      BY <1>3, <3>1, GotoKeeps DEF Commit, Labels, Inv, Shape
    <3>2. CASE Op(r) \notin {"save", "edit"}
      <4>1. PICK label \in {"unlinkAsset", "readAsset"} : Advance(r, label, "reply")
        BY <1>3, <3>2 DEF Commit
      <4> QED BY <1>3, <2>1, <4>1, AdvanceKeeps DEF Commit, Labels
    <3> QED BY <3>1, <3>2
  <2>3. Release(r) /\ UNCHANGED answer
    BY <1>3 DEF Commit
  <2>4. /\ tx' \in [Requests -> [Assets -> Held \cup {Gone}]]
        /\ synced' \in [Requests -> SUBSET Assets]
        /\ broken' \in [Requests -> BOOLEAN]
    BY <2>3 DEF Release, Clean, Inv, Shape, Held
  <2> QED BY <1>1, <2>2, <2>3, <2>4 DEF Commit, Inv, Shape
<1> QED BY <1>2, <1>3

LEMMA CommitFailsKeeps ==
    ASSUME Inv, NEW r \in Requests, CommitFails(r)
    PROVE  Inv'
<1>1. calm' \in BOOLEAN /\ faults' \in 0..MaxFaults
  BY FaultKeeps DEF CommitFails
<1>2. End(r, "error") /\ UNCHANGED <<job, at>>
  BY DEF CommitFails
<1> HIDE DEF session, history
<1> QED BY <1>1, <1>2, EndKeeps DEF CommitFails, Inv, Shape, Answers

LEMMA UnlinkAssetFileKeeps ==
    ASSUME Inv, NEW r \in Requests, UnlinkAssetFile(r)
    PROVE  Inv'
<1>1. Op(r) \notin {"list", "case"}
  BY DEF UnlinkAssetFile, Inv, Located
<1>2. pc' \in [Requests -> Labels] /\ Located'
  BY <1>1, GotoKeeps DEF UnlinkAssetFile, Labels
<1> QED BY <1>2 DEF UnlinkAssetFile, Inv, Shape, Held

LEMMA UnlinkPlanFileKeeps ==
    ASSUME Inv, NEW r \in Requests, UnlinkPlanFile(r)
    PROVE  Inv'
<1>1. Op(r) \notin {"list", "case"}
  BY DEF UnlinkPlanFile, Inv, Located
<1>2. pc' \in [Requests -> Labels] /\ Located'
  BY <1>1, GotoKeeps DEF UnlinkPlanFile, Labels
<1> QED BY <1>2 DEF UnlinkPlanFile, Inv, Shape, Held

LEMMA QueryRowsKeeps ==
    ASSUME Inv, NEW r \in Requests, QueryRows(r)
    PROVE  Inv'
<1>1. Op(r) # "case"
  BY DEF QueryRows, Inv, Located
<1>2. pc' \in [Requests -> Labels] /\ Located'
  BY <1>1, GotoKeeps DEF QueryRows, Labels
<1> QED BY <1>2 DEF QueryRows, Inv, Shape

LEMMA ResyncKeeps ==
    ASSUME Inv, NEW r \in Requests, Resync(r)
    PROVE  Inv'
<1>1. CASE todo[r] = {}
  <2>1. End(r, "ok") /\ UNCHANGED <<job, at>>
    BY <1>1 DEF Resync
  <2> HIDE DEF session
  <2> QED BY <1>1, <2>1, EndKeeps DEF Resync, Inv, Shape, Answers
<1>2. CASE todo[r] # {}
  <2>1. PICK a \in todo[r] :
           /\ todo' = [todo EXCEPT ![r] = todo[r] \ {a}]
           /\ assetFile' = IF assetFile[a] # None THEN assetFile
                           ELSE [assetFile EXCEPT ![a] = seen[r][a]]
    BY <1>2 DEF Resync
  <2>2. seen[r][a] \in Held
    BY DEF Inv, Shape
  <2>3. assetFile' \in [Assets -> Held] /\ todo' \in [Requests -> SUBSET Assets]
    BY <2>1, <2>2 DEF Inv, Shape
  <2>4. UNCHANGED <<pc, answer, session, job, at>>
    BY <1>2 DEF Resync
  <2> QED BY <2>3, <2>4 DEF Resync, Inv, Shape, Located, Op
<1> QED BY <1>1, <1>2

LEMMA DecideGenerateKeeps ==
    ASSUME Inv, NEW r \in Requests, DecideGenerate(r)
    PROVE  Inv'
<1>1. CASE End(r, "refused")
  <2>1. UNCHANGED <<job, at>>
    BY <1>1 DEF DecideGenerate, Advance, End, Goto, Labels, Inv, Shape
  <2> HIDE DEF session
  <2> QED BY <1>1, <2>1, EndKeeps DEF DecideGenerate, Inv, Shape, Answers
<1>2. CASE UNCHANGED <<answer, session>>
  <2>1. CASE Goto(r, "scan") /\ UNCHANGED at
    <3>1. pc' \in [Requests -> Labels] /\ Located'
      BY <2>1, GotoKeeps DEF DecideGenerate, Labels
    <3> QED BY <1>2, <2>1, <3>1 DEF DecideGenerate, Inv, Shape
  <2>2. CASE Advance(r, "readAsset", "reply")
    <3>1. at' \in [Requests -> Nat \ {0}] /\ pc' \in [Requests -> Labels] /\ Located'
      BY <2>2, AdvanceKeeps DEF DecideGenerate, Labels
    <3> QED BY <1>2, <3>1 DEF DecideGenerate, Inv, Shape
  <2>3. CASE End(r, "refused")
    BY <1>1, <2>3
  <2> QED BY <2>1, <2>2, <2>3 DEF DecideGenerate
<1> QED BY <1>1, <1>2 DEF DecideGenerate

LEMMA FinishKeeps ==
    ASSUME Inv, NEW r \in Requests, Finish(r)
    PROVE  Inv'
<1>1. PICK value \in Answers : End(r, value) /\ UNCHANGED <<job, at>>
  BY DEF Finish, Answers
<1> HIDE DEF session
<1> QED BY <1>1, EndKeeps DEF Finish, Inv, Shape, Answers

LEMMA WriteFailsKeeps ==
    ASSUME Inv, NEW r \in Requests, WriteFails(r)
    PROVE  Inv'
<1>1. calm' \in BOOLEAN /\ faults' \in 0..MaxFaults
  BY FaultKeeps DEF WriteFails
<1>2. CASE Op(r) = "save"
  <2>1. pc' \in [Requests -> Labels] /\ Located'
    BY <1>2, GotoKeeps DEF WriteFails, Labels
  <2> HIDE DEF history
  <2> QED BY <1>1, <1>2, <2>1 DEF WriteFails, Inv, Shape
<1>3. CASE Op(r) # "save"
  <2>1. End(r, "error") /\ UNCHANGED <<job, at>>
    BY <1>3 DEF WriteFails
  <2> HIDE DEF session, history
  <2> QED BY <1>1, <2>1, EndKeeps DEF WriteFails, Inv, Shape, Answers
<1> QED BY <1>2, <1>3

LEMMA CrashKeeps ==
    ASSUME Inv, Crash
    PROVE  Inv'
<1>1. calm' \in BOOLEAN /\ faults' \in 0..MaxFaults
  BY FaultKeeps DEF Crash
<1>2. pc' \in [Requests -> Labels] /\ \A r \in Requests : pc'[r] \in {pc[r], "done"}
  BY DEF Crash, Inv, Shape, Labels
<1>3. Located'
  BY <1>2 DEF Crash, Inv, Located, Op
<1>4. /\ answer' \in [Requests -> Answers]
      /\ tx' \in [Requests -> [Assets -> Held \cup {Gone}]]
      /\ synced' \in [Requests -> SUBSET Assets]
      /\ broken' \in [Requests -> BOOLEAN]
  BY DEF Crash, Inv, Shape, Clean, Held, Answers
<1> HIDE DEF session, history
<1> QED BY <1>1, <1>2, <1>3, <1>4 DEF Crash, Inv, Shape, Answers
-------------------------------------------------------------------------------
LEMMA InvNext == Inv /\ [Next]_vars => Inv'
<1> SUFFICES ASSUME Inv, [Next]_vars PROVE Inv'
  OBVIOUS
<1>1. CASE Crash
  BY <1>1, CrashKeeps
<1>2. ASSUME NEW r \in Requests, Begin(r) \/ Step(r)
      PROVE  Inv'
  BY <1>2, BeginKeeps, ReadAssetFileKeeps, ReadPlanFileKeeps, DecideEditKeeps, DecideReviewKeeps,
     WritePlanFileKeeps, WriteAssetFileKeeps, WriteFailsKeeps, TakeBundleKeeps, SyncPointsKeeps,
     StoreRowKeeps, DeleteRowKeeps, FlushFailsKeeps, CommitKeeps, CommitFailsKeeps, ScanKeeps,
     ImportFileKeeps, ImportRowKeeps, UnlinkAssetFileKeeps, UnlinkPlanFileKeeps, QueryRowsKeeps,
     ResyncKeeps, DecideGenerateKeeps, FinishKeeps DEF Step
<1>3. CASE UNCHANGED vars
  BY <1>3 DEF vars, Inv, Shape, Located, Op
<1> QED BY <1>1, <1>2, <1>3 DEF Next

LEMMA AlwaysInv == Spec => []Inv
<1> QED BY InvInit, InvNext, PTL DEF Spec

(* Every table, file, session and request keeps its type, whatever fails.      *)
THEOREM AssetsTypeCorrect == Spec => []TypeOK
<1>1. Inv => TypeOK
  <2>1. Held \subseteq Plan \cup {None}
    BY DEF Held, SoundPlan
  <2>2. Held \cup {Gone} \subseteq Plan \cup {None, Gone}
    BY <2>1
  <2> SUFFICES ASSUME Inv PROVE TypeOK
    OBVIOUS
  <2>3. tx \in [Requests -> [Assets -> Plan \cup {None, Gone}]]
    BY <2>2 DEF Inv, Shape
  <2>4. seen \in [Requests -> [Assets -> Plan \cup {None}]]
    BY <2>1 DEF Inv, Shape
  <2> QED BY <2>1, <2>3, <2>4 DEF Inv, Shape, TypeOK
<1> QED BY <1>1, AlwaysInv, PTL

(* Reviews, edits, saves, imports and listings may interleave and fail in any  *)
(* way: no row and no file ever holds an approved point that the gate would    *)
(* not let through.                                                            *)
THEOREM ApprovalsAreSound == Spec => []ApprovalsPassedGate
<1>1. Inv => ApprovalsPassedGate
  BY DEF Inv, Shape, Held, SoundPlan, ApprovalsPassedGate, Copies
<1> QED BY <1>1, AlwaysInv, PTL
-------------------------------------------------------------------------------
(* The points that a save has flushed are of the asset whose row it flushes    *)
(* with them, and the row holds its own plan.                                  *)
SaveLabels == {"idle", "sync", "store", "commit", "writePlan", "writeAsset", "finish", "done"}

Saving(r) ==
    /\ Op(r) # "save" => pc[r] # "sync" /\ synced[r] = {}
    /\ Op(r) = "save" =>
          /\ pc[r] \in SaveLabels /\ ~broken[r]
          /\ pc[r] \notin {"store", "commit"} => synced[r] = {}
          /\ synced[r] \subseteq {Here(r)}
          /\ pc[r] \in {"sync", "store", "commit"} => draft[r] # None /\ draft[r].by = r
          /\ pc[r] = "commit" => tx[r][Here(r)] = draft[r]

SaveInv == Inv /\ \A r \in Requests : Saving(r)

(* What a step leaves of a request.                                            *)
Same(q) ==
    /\ UNCHANGED job /\ pc'[q] = pc[q] /\ at'[q] = at[q] /\ draft'[q] = draft[q]
    /\ synced'[q] = synced[q] /\ broken'[q] = broken[q] /\ tx'[q] = tx[q]

(* A step of a request leaves the others what they are.                        *)
LEMMA OthersKeep ==
    ASSUME Inv, NEW r \in Requests, Begin(r) \/ Step(r), NEW q \in Requests \ {r}
    PROVE  Same(q)
<1>1. CASE Begin(r)
  BY <1>1 DEF Begin, Inv, Shape, Same, Goto, Advance, End, Close, Release
<1>2. CASE ReadAssetFile(r)
  BY <1>2 DEF ReadAssetFile, Inv, Shape, Same, Goto, Advance, End, Close, Release
<1>3. CASE ReadPlanFile(r)
  BY <1>3 DEF ReadPlanFile, Inv, Shape, Same, Goto, Advance, End, Close, Release
<1>4. CASE DecideEdit(r)
  BY <1>4 DEF DecideEdit, Inv, Shape, Same, Goto, Advance, End, Close, Release
<1>5. CASE DecideReview(r)
  BY <1>5 DEF DecideReview, Inv, Shape, Same, Goto, Advance, End, Close, Release
<1>6. CASE WritePlanFile(r)
  BY <1>6 DEF WritePlanFile, Inv, Shape, Same, Goto, Advance, End, Close, Release
<1>7. CASE WriteAssetFile(r)
  BY <1>7 DEF WriteAssetFile, Inv, Shape, Same, Goto, Advance, End, Close, Release
<1>8. CASE WriteFails(r)
  BY <1>8 DEF WriteFails, Inv, Shape, Same, Goto, Advance, End, Close, Release
<1>9. CASE TakeBundle(r)
  BY <1>9 DEF TakeBundle, Inv, Shape, Same, Goto, Advance, End, Close, Release
<1>10. CASE SyncPoints(r)
  BY <1>10 DEF SyncPoints, Inv, Shape, Same, Goto, Advance, End, Close, Release
<1>11. CASE StoreRow(r)
  BY <1>11 DEF StoreRow, Inv, Shape, Same, Goto, Advance, End, Close, Release
<1>12. CASE DeleteRow(r)
  BY <1>12 DEF DeleteRow, Inv, Shape, Same, Goto, Advance, End, Close, Release
<1>13. CASE FlushFails(r)
  BY <1>13 DEF FlushFails, Inv, Shape, Same, Goto, Advance, End, Close, Release
<1>14. CASE Commit(r)
  BY <1>14 DEF Commit, Inv, Shape, Same, Goto, Advance, End, Close, Release
<1>15. CASE CommitFails(r)
  BY <1>15 DEF CommitFails, Inv, Shape, Same, Goto, Advance, End, Close, Release
<1>16. CASE Scan(r)
  BY <1>16 DEF Scan, Inv, Shape, Same, Goto, Advance, End, Close, Release
<1>17. CASE ImportFile(r)
  BY <1>17 DEF ImportFile, Inv, Shape, Same, Goto, Advance, End, Close, Release
<1>18. CASE ImportRow(r)
  BY <1>18 DEF ImportRow, Inv, Shape, Same, Goto, Advance, End, Close, Release
<1>19. CASE UnlinkAssetFile(r)
  BY <1>19 DEF UnlinkAssetFile, Inv, Shape, Same, Goto, Advance, End, Close, Release
<1>20. CASE UnlinkPlanFile(r)
  BY <1>20 DEF UnlinkPlanFile, Inv, Shape, Same, Goto, Advance, End, Close, Release
<1>21. CASE QueryRows(r)
  BY <1>21 DEF QueryRows, Inv, Shape, Same, Goto, Advance, End, Close, Release
<1>22. CASE Resync(r)
  BY <1>22 DEF Resync, Inv, Shape, Same, Goto, Advance, End, Close, Release
<1>23. CASE DecideGenerate(r)
  BY <1>23 DEF DecideGenerate, Inv, Shape, Same, Goto, Advance, End, Close, Release
<1>24. CASE Finish(r)
  BY <1>24 DEF Finish, Inv, Shape, Same, Goto, Advance, End, Close, Release
<1> QED BY <1>1, <1>2, <1>3, <1>4, <1>5, <1>6, <1>7, <1>8, <1>9, <1>10, <1>11, <1>12, <1>13,
           <1>14, <1>15, <1>16, <1>17, <1>18, <1>19, <1>20, <1>21, <1>22, <1>23, <1>24 DEF Step

(* A save goes from its points to its row and to its commit; no other request  *)
(* flushes points.                                                             *)
LEMMA OwnKeeps ==
    ASSUME SaveInv, NEW r \in Requests, Begin(r) \/ Step(r)
    PROVE  Saving(r)'
<1> DEFINE save == Op(r) = "save"
<1>a. /\ pc \in [Requests -> Labels] /\ at \in [Requests -> Nat \ {0}]
      /\ draft \in [Requests -> Held] /\ synced \in [Requests -> SUBSET Assets]
      /\ broken \in [Requests -> BOOLEAN] /\ tx \in [Requests -> [Assets -> Held \cup {Gone}]]
  BY DEF SaveInv, Inv, Shape
<1>b. Saving(r)
  BY DEF SaveInv
<1>c. save => Here(r) \in Assets
  BY HereIsAnAsset DEF SaveInv
<1>d. NewPlan(r) # None /\ NewPlan(r).by = r
  BY NewPlanIsSound, AssetsAssumption DEF SaveInv, SoundPlan
<1>e. UNCHANGED job
  BY DEF Begin, Step, ReadAssetFile, ReadPlanFile, DecideEdit, DecideReview, WritePlanFile,
         WriteAssetFile, WriteFails, TakeBundle, SyncPoints, StoreRow, DeleteRow, FlushFails,
         Commit, CommitFails, Scan, ImportFile, ImportRow, UnlinkAssetFile, UnlinkPlanFile,
         QueryRows, Resync, DecideGenerate, Finish
<1> USE <1>a, <1>b, <1>e DEF Saving, Goto, Op, Here
<1>1. CASE Begin(r)
  BY <1>1, <1>d DEF Begin, FirstLabel, Advance, End, Close, Release, SaveLabels
<1>2. CASE ReadAssetFile(r)
  BY <1>2 DEF ReadAssetFile, Advance, End, Close, Release, SaveLabels
<1>3. CASE ReadPlanFile(r)
  BY <1>3 DEF ReadPlanFile, Advance, End, Close, Release, SaveLabels
<1>4. CASE DecideEdit(r)
  BY <1>4 DEF DecideEdit, Advance, End, Close, Release, SaveLabels
<1>5. CASE DecideReview(r)
  BY <1>5 DEF DecideReview, Advance, End, Close, Release, SaveLabels
<1>6. CASE WritePlanFile(r)
  BY <1>6 DEF WritePlanFile, Advance, End, Close, Release, SaveLabels
<1>7. CASE WriteAssetFile(r)
  BY <1>7 DEF WriteAssetFile, Advance, End, Close, Release, SaveLabels
<1>8. CASE WriteFails(r)
  BY <1>8 DEF WriteFails, Advance, End, Close, Release, SaveLabels
<1>9. CASE TakeBundle(r)
  BY <1>9 DEF TakeBundle, Advance, End, Close, Release, SaveLabels
<1>10. CASE SyncPoints(r)
  BY <1>10 DEF SyncPoints, Advance, End, Close, Release, SaveLabels
<1>11. CASE StoreRow(r)
  BY <1>11, <1>c DEF StoreRow, Advance, End, Close, Release, SaveLabels
<1>12. CASE DeleteRow(r)
  BY <1>12 DEF DeleteRow, Advance, End, Close, Release, SaveLabels
<1>13. CASE FlushFails(r)
  BY <1>13 DEF FlushFails, Advance, End, Close, Release, SaveLabels
<1>14. CASE Commit(r)
  BY <1>14 DEF Commit, Advance, End, Close, Release, SaveLabels
<1>15. CASE CommitFails(r)
  BY <1>15 DEF CommitFails, Advance, End, Close, Release, SaveLabels
<1>16. CASE Scan(r)
  BY <1>16 DEF Scan, Advance, End, Close, Release, SaveLabels
<1>17. CASE ImportFile(r)
  BY <1>17 DEF ImportFile, Advance, End, Close, Release, SaveLabels
<1>18. CASE ImportRow(r)
  BY <1>18 DEF ImportRow, Advance, End, Close, Release, SaveLabels
<1>19. CASE UnlinkAssetFile(r)
  BY <1>19 DEF UnlinkAssetFile, Advance, End, Close, Release, SaveLabels
<1>20. CASE UnlinkPlanFile(r)
  BY <1>20 DEF UnlinkPlanFile, Advance, End, Close, Release, SaveLabels
<1>21. CASE QueryRows(r)
  BY <1>21 DEF QueryRows, Advance, End, Close, Release, SaveLabels
<1>22. CASE Resync(r)
  BY <1>22 DEF Resync, Advance, End, Close, Release, SaveLabels
<1>23. CASE DecideGenerate(r)
  BY <1>23 DEF DecideGenerate, Advance, End, Close, Release, SaveLabels
<1>24. CASE Finish(r)
  BY <1>24 DEF Finish, Advance, End, Close, Release, SaveLabels
<1> QED BY <1>1, <1>2, <1>3, <1>4, <1>5, <1>6, <1>7, <1>8, <1>9, <1>10, <1>11, <1>12, <1>13,
           <1>14, <1>15, <1>16, <1>17, <1>18, <1>19, <1>20, <1>21, <1>22, <1>23, <1>24 DEF Step

LEMMA SaveInvInit == Init => SaveInv
<1> SUFFICES ASSUME Init, NEW r \in Requests PROVE Saving(r)
  BY InvInit DEF SaveInv
<1> QED BY DEF Init, Saving, SaveLabels

LEMMA SaveInvNext == SaveInv /\ [Next]_vars => SaveInv'
<1> SUFFICES ASSUME SaveInv, [Next]_vars, NEW q \in Requests PROVE Saving(q)'
  BY InvNext DEF SaveInv
<1>1. CASE Crash
  BY <1>1 DEF Crash, SaveInv, Inv, Shape, Saving, SaveLabels, Op, Here, InFlight
<1>2. ASSUME NEW r \in Requests, Begin(r) \/ Step(r)
      PROVE  Saving(q)'
  <2>1. CASE q = r
    BY <1>2, <2>1, OwnKeeps
  <2>2. CASE q # r
    BY <1>2, <2>2, OthersKeep DEF SaveInv, Same, Saving, Op, Here
  <2> QED BY <2>1, <2>2
<1>3. CASE UNCHANGED vars
  BY <1>3 DEF vars, SaveInv, Saving, Op, Here
<1> QED BY <1>1, <1>2, <1>3 DEF Next

(* The points of an asset change only in the commit of the save that also      *)
(* stores its row, whatever other requests do and whatever fails (DC-001).     *)
THEOREM PointsFollowTheirAsset == Spec => PointsChangeWithAsset
<1> DEFINE Together == \A a \in Assets : pointRows'[a] # pointRows[a] =>
                          rows'[a] # None /\ rows'[a].by = pointRows'[a]
<1>1. SaveInv /\ [Next]_vars => [Together]_vars
  <2> SUFFICES ASSUME SaveInv, Next, NEW a \in Assets, pointRows'[a] # pointRows[a]
               PROVE  rows'[a] # None /\ rows'[a].by = pointRows'[a]
    OBVIOUS
  <2>1. PICK r \in Requests : pc[r] = "commit" /\ Committed(r)
    BY DEF Next, Crash, Begin, Step, Commit, ReadAssetFile, ReadPlanFile, DecideEdit,
           DecideReview, WritePlanFile, WriteAssetFile, WriteFails, TakeBundle, SyncPoints,
           StoreRow, DeleteRow, FlushFails, CommitFails, Scan, ImportFile, ImportRow,
           UnlinkAssetFile, UnlinkPlanFile, QueryRows, Resync, DecideGenerate, Finish
  <2>2. a \in synced[r] /\ pointRows'[a] = r
    BY <2>1 DEF Committed, SaveInv, Inv, Shape
  <2>3. tx[r][a] = draft[r] /\ draft[r] # None /\ draft[r].by = r
    BY <2>1, <2>2 DEF SaveInv, Saving
  <2>4. draft[r] # Gone
    BY AssetsAssumption DEF SaveInv, Inv, Shape, Held, SoundPlan
  <2> QED BY <2>1, <2>2, <2>3, <2>4 DEF Committed
<1>2. Spec => []SaveInv
  BY SaveInvInit, SaveInvNext, PTL DEF Spec
<1> QED BY <1>1, <1>2, PTL DEF Spec, PointsChangeWithAsset
-------------------------------------------------------------------------------
(* As long as requests do not overlap and nothing fails.  The row that an asset *)
(* will have when r commits, and whether its files hold the same.              *)
Pending(r, a) == CASE tx[r][a] = None -> rows[a]
                   [] tx[r][a] = Gone -> None
                   [] OTHER -> tx[r][a]
Even(r, a) == assetFile[a] = Pending(r, a) /\ planFile[a] = Pending(r, a)

Course(op) ==
    CASE op = "save"   -> {"sync", "store", "commit", "writePlan", "writeAsset", "finish"}
      [] op = "edit"   -> {"readAsset", "readPlan", "decide", "writePlan", "writeAsset",
                           "rereadAsset", "rereadPlan", "bundle", "store", "commit", "detail"}
      [] op = "review" -> {"readAsset", "readPlan", "decide", "writePlan", "writeAsset",
                           "store", "commit"}
      [] op = "delete" -> {"unlinkAsset", "unlinkPlan", "deleteRow", "commit", "reply"}
      [] op = "list"   -> {"query", "resync"}
      [] op = "case"   -> {"scan", "import", "importRow", "commit"}
      [] OTHER         -> {"readAsset", "readPlan", "decide", "scan", "import", "importRow",
                           "commit", "reply"}

(* The labels at which r has changed some of the copies of its asset.          *)
Halfway(op) ==
    CASE op = "save"   -> {"sync", "store", "commit", "writePlan", "writeAsset"}
      [] op = "edit"   -> {"writeAsset", "rereadAsset", "rereadPlan", "bundle", "store"}
      [] op = "review" -> {"writeAsset", "store"}
      [] op = "delete" -> {"unlinkPlan", "deleteRow"}
      [] OTHER         -> {}

WithDraft(r) ==
    /\ Op(r) = "save" /\ pc[r] \in {"commit", "writePlan", "writeAsset"} =>
           Pending(r, Here(r)) = draft[r]
    /\ Op(r) \in {"edit", "review"}
           /\ pc[r] \in {"writePlan", "writeAsset", "rereadAsset", "rereadPlan", "bundle", "store"} =>
           draft[r] # None
    /\ pc[r] = "writeAsset" => planFile[Here(r)] = draft[r]
    /\ Op(r) # "save" /\ pc[r] \in {"rereadAsset", "rereadPlan", "bundle", "store"} =>
           planFile[Here(r)] = draft[r] /\ assetFile[Here(r)] = draft[r]
    /\ pc[r] = "bundle" => gotPlan[r] = draft[r]

WithFiles(r) ==
    /\ Op(r) = "review" /\ pc[r] \in {"readPlan", "decide"} => gotAsset[r] = assetFile[Here(r)]
    /\ Op(r) = "review" /\ pc[r] = "decide" => gotPlan[r] = planFile[Here(r)]
    /\ Op(r) = "review" /\ pc[r] = "writePlan" => gotAsset[r] # None /\ gotPlan[r] # None
    /\ pc[r] \in {"unlinkPlan", "deleteRow"} =>
           assetFile[Here(r)] = None /\ (~removed[r] => rows[Here(r)] = None)
    /\ pc[r] = "deleteRow" => planFile[Here(r)] = None

WithRows(r) ==
    /\ pc[r] = "resync" => \A a \in todo[r] : rows[a] # None
    /\ Op(r) \in {"case", "generate"} => \A a \in Assets : tx[r][a] \in {None, rows[a]}
    /\ pc[r] = "importRow" => \A a \in Assets : seen[r][a] \in {None, assetFile[a]}

(* Only a batch has flushed a row before it is about to commit.                *)
Flushes(r) ==
    tx[r] = Clean \/ pc[r] \in {"commit", "import", "importRow"} \/ (Op(r) = "review" /\ at[r] > 1)

Solo(r) ==
    /\ pc[r] \in Course(Op(r)) /\ ~broken[r]
    /\ \A a \in Assets : Even(r, a) \/ (pc[r] \in Halfway(Op(r)) /\ a = Here(r))
    /\ Flushes(r)
    /\ WithDraft(r) /\ WithFiles(r) /\ WithRows(r)

Rests(r) == tx[r] = Clean /\ ~broken[r]
Level == \A a \in Assets : assetFile[a] = rows[a] /\ planFile[a] = rows[a]

(* One request at a time, and the copies agree between two of them.            *)
OneAtATime ==
    calm =>
        /\ \A q, r \in Requests : InFlight(q) /\ InFlight(r) => q = r
        /\ \A r \in Requests : IF InFlight(r) THEN Solo(r) ELSE Rests(r)
        /\ (\A r \in Requests : ~InFlight(r)) => Level

Result(r) == IF InFlight(r) THEN Solo(r) ELSE Rests(r) /\ Level

(* What the steps of r rest on.                                                *)
Context(r) ==
    /\ Saving(r)
    /\ rows \in [Assets -> Held] /\ assetFile \in [Assets -> Held] /\ planFile \in [Assets -> Held]
    /\ tx \in [Requests -> [Assets -> Held \cup {Gone}]] /\ pc \in [Requests -> Labels]
    /\ draft \in [Requests -> Held] /\ gotPlan \in [Requests -> Held] /\ gotAsset \in [Requests -> Held]
    /\ seen \in [Requests -> [Assets -> Held]] /\ todo \in [Requests -> SUBSET Assets]
    /\ broken \in [Requests -> BOOLEAN] /\ removed \in [Requests -> BOOLEAN]
    /\ at \in [Requests -> Nat \ {0}] /\ Len(job[r].assets) \in Nat
    /\ Gone \notin Held /\ Gone # None
    /\ Op(r) \notin {"list", "case"} => Here(r) \in Assets
    /\ Read(r) # None /\ ~Refused(r) => Reviewed(r) # None
    /\ EditedPlan(r) # None

LEMMA InContext == ASSUME SaveInv, NEW r \in Requests PROVE Context(r)
<1>1. Inv /\ Saving(r) /\ None \notin SoundPlan /\ Gone \notin Held /\ Gone # None
  BY AssetsAssumption DEF SaveInv, SoundPlan, Held
<1>2. /\ Op(r) \notin {"list", "case"} => Here(r) \in Assets
      /\ Len(job[r].assets) \in Nat
      /\ Read(r) # None /\ ~Refused(r) => Reviewed(r) # None
      /\ EditedPlan(r) # None
  BY <1>1, HereIsAnAsset, PayloadType, ReviewedIsSound, EditedPlanIsSound
<1> QED BY <1>1, <1>2 DEF Context, Inv, Shape

LEMMA ReadAssetFileSolo ==
    ASSUME SaveInv, NEW r \in Requests, Solo(r), ReadAssetFile(r), calm'
    PROVE  Result(r)'
<1>0. Context(r)
  BY InContext
<1>a. Op(r)' = Op(r) /\ (at' = at => Here(r)' = Here(r))
  BY DEF Op, Here, ReadAssetFile
<1>1. InFlight(r)' => pc'[r] \in Course(Op(r)')
  BY <1>0, <1>a DEF Context, ReadAssetFile, session, database, files, Solo, Flushes, Course, Goto,
                    InFlight
<1>2. ~broken'[r]
  BY <1>0 DEF Context, ReadAssetFile, session, database, files, Solo, Flushes
<1>3. InFlight(r)' => \A a \in Assets : Even(r, a)' \/ (pc'[r] \in Halfway(Op(r)') /\ a = Here(r)')
  BY <1>0, <1>a DEF Context, ReadAssetFile, session, database, files, Solo, Flushes, Course,
                    Halfway,
                    Even, Pending, Goto, InFlight, WithDraft, WithFiles, WithRows, Clean,
                    Saving
<1>4. InFlight(r)' => Flushes(r)'
  BY <1>0, <1>a DEF Context, ReadAssetFile, session, database, files, Solo, Flushes, Course, Goto,
                    InFlight, Clean, WithFiles
<1>5. InFlight(r)' => WithDraft(r)'
  BY <1>0, <1>a DEF Context, ReadAssetFile, session, database, files, Solo, Flushes, Course, Even,
                    Pending, Goto, InFlight, WithDraft, WithFiles, Clean, Saving
<1>6. InFlight(r)' => WithFiles(r)'
  BY <1>0, <1>a DEF Context, ReadAssetFile, session, database, files, Solo, Flushes, Course,
                    Halfway,
                    Even, Pending, Goto, InFlight, WithDraft, WithFiles, Clean
<1>7. InFlight(r)' => WithRows(r)'
  BY <1>0, <1>a DEF Context, ReadAssetFile, session, database, files, Solo, Flushes, Course,
                    Halfway,
                    Even, Pending, Goto, InFlight, WithRows, Clean
<1>8. ~InFlight(r)' => tx'[r] = Clean /\ Level'
  BY <1>0, <1>a DEF Context, ReadAssetFile, Solo, Flushes, Course, Goto, InFlight
<1> QED BY <1>1, <1>2, <1>3, <1>4, <1>5, <1>6, <1>7, <1>8 DEF Solo, Flushes, Result, Rests

LEMMA ReadPlanFileSolo ==
    ASSUME SaveInv, NEW r \in Requests, Solo(r), ReadPlanFile(r), calm'
    PROVE  Result(r)'
<1>0. Context(r)
  BY InContext
<1>a. Op(r)' = Op(r) /\ (at' = at => Here(r)' = Here(r))
  BY DEF Op, Here, ReadPlanFile
<1>1. InFlight(r)' => pc'[r] \in Course(Op(r)')
  BY <1>0, <1>a DEF Context, ReadPlanFile, session, database, files, Solo, Flushes, Course, Goto,
                    InFlight
<1>2. ~broken'[r]
  BY <1>0 DEF Context, ReadPlanFile, session, database, files, Solo, Flushes
<1>3. InFlight(r)' => \A a \in Assets : Even(r, a)' \/ (pc'[r] \in Halfway(Op(r)') /\ a = Here(r)')
  BY <1>0, <1>a DEF Context, ReadPlanFile, session, database, files, Solo, Flushes, Course, Halfway,
                    Even, Pending, Goto, InFlight, WithDraft, WithFiles, WithRows, Clean,
                    Saving
<1>4. InFlight(r)' => Flushes(r)'
  BY <1>0, <1>a DEF Context, ReadPlanFile, session, database, files, Solo, Flushes, Course, Goto,
                    InFlight, Clean, WithFiles
<1>5. InFlight(r)' => WithDraft(r)'
  BY <1>0, <1>a DEF Context, ReadPlanFile, session, database, files, Solo, Flushes, Course, Even,
                    Pending, Goto, InFlight, WithDraft, WithFiles, Clean, Saving
<1>6. InFlight(r)' => WithFiles(r)'
  BY <1>0, <1>a DEF Context, ReadPlanFile, session, database, files, Solo, Flushes, Course, Halfway,
                    Even, Pending, Goto, InFlight, WithDraft, WithFiles, Clean
<1>7. InFlight(r)' => WithRows(r)'
  BY <1>0, <1>a DEF Context, ReadPlanFile, session, database, files, Solo, Flushes, Course, Halfway,
                    Even, Pending, Goto, InFlight, WithRows, Clean
<1>8. ~InFlight(r)' => tx'[r] = Clean /\ Level'
  BY <1>0, <1>a DEF Context, ReadPlanFile, Solo, Flushes, Course, Goto, InFlight
<1> QED BY <1>1, <1>2, <1>3, <1>4, <1>5, <1>6, <1>7, <1>8 DEF Solo, Flushes, Result, Rests

LEMMA DecideEditSolo ==
    ASSUME SaveInv, NEW r \in Requests, Solo(r), DecideEdit(r), calm'
    PROVE  Result(r)'
<1>0. Context(r)
  BY InContext
<1>a. Op(r)' = Op(r) /\ (at' = at => Here(r)' = Here(r))
  BY DEF Op, Here, DecideEdit
<1>1. InFlight(r)' => pc'[r] \in Course(Op(r)')
  BY <1>0, <1>a DEF Context, DecideEdit, session, database, files, Solo, Flushes, Course, Goto,
                    InFlight
<1>2. ~broken'[r]
  BY <1>0 DEF Context, DecideEdit, session, database, files, Solo, Flushes
<1>3. InFlight(r)' => \A a \in Assets : Even(r, a)' \/ (pc'[r] \in Halfway(Op(r)') /\ a = Here(r)')
  BY <1>0, <1>a DEF Context, DecideEdit, session, database, files, Solo, Flushes, Course, Halfway,
                    Even, Pending, Goto, InFlight, WithDraft, WithFiles, WithRows, Clean,
                    Saving
<1>4. InFlight(r)' => Flushes(r)'
  BY <1>0, <1>a DEF Context, DecideEdit, session, database, files, Solo, Flushes, Course, Goto,
                    InFlight, Clean, WithFiles
<1>5. InFlight(r)' => WithDraft(r)'
  BY <1>0, <1>a DEF Context, DecideEdit, session, database, files, Solo, Flushes, Course, Even,
                    Pending, Goto, InFlight, WithDraft, WithFiles, Clean, Saving
<1>6. InFlight(r)' => WithFiles(r)'
  BY <1>0, <1>a DEF Context, DecideEdit, session, database, files, Solo, Flushes, Course, Halfway,
                    Even, Pending, Goto, InFlight, WithDraft, WithFiles, Clean
<1>7. InFlight(r)' => WithRows(r)'
  BY <1>0, <1>a DEF Context, DecideEdit, session, database, files, Solo, Flushes, Course, Halfway,
                    Even, Pending, Goto, InFlight, WithRows, Clean
<1>8. ~InFlight(r)' => tx'[r] = Clean /\ Level'
  BY <1>0, <1>a DEF Context, DecideEdit, Solo, Flushes, Course, Goto, InFlight
<1> QED BY <1>1, <1>2, <1>3, <1>4, <1>5, <1>6, <1>7, <1>8 DEF Solo, Flushes, Result, Rests

LEMMA DecideReviewSolo ==
    ASSUME SaveInv, NEW r \in Requests, Solo(r), DecideReview(r), calm'
    PROVE  Result(r)'
<1>0. Context(r)
  BY InContext
<1>1. /\ pc[r] = "decide" /\ Op(r) = "review" /\ Op(r)' = Op(r) /\ tx[r] \in [Assets -> Held \cup {Gone}]
      /\ UNCHANGED <<job, gotAsset, gotPlan, todo, seen, removed, rows, assetFile, planFile>>
  BY <1>0 DEF Context, DecideReview, database, files, Op
<1>2. \A a \in Assets : Even(r, a)
  BY <1>1 DEF Solo, Flushes, Halfway
<1>3. CASE Read(r) = None /\ Advance(r, "readAsset", "commit") /\ UNCHANGED session
  <2>1. /\ (pc'[r] = "readAsset" /\ at'[r] > 1) \/ pc'[r] = "commit"
        /\ tx' = tx /\ broken' = broken
    BY <1>0, <1>3 DEF Context, Advance, Goto, session
  <2>2. \A a \in Assets : Even(r, a)'
    BY <1>1, <1>2, <2>1 DEF Even, Pending
  <2> QED BY <1>1, <2>1, <2>2
          DEF Result, InFlight, Solo, Flushes, Course, WithDraft, WithFiles, WithRows
<1>4. CASE Read(r) # None /\ Refused(r)
  <2>1. at[r] = 1 /\ End(r, "refused")
    BY <1>4 DEF DecideReview
  <2>2. tx[r] = Clean
    BY <1>1, <2>1 DEF Solo, Flushes
  <2>3. pc'[r] = "done" /\ tx'[r] = Clean /\ ~broken'[r]
    BY <1>0, <2>1 DEF Context, End, Goto, Close, Release
  <2>4. \A a \in Assets : Pending(r, a) = rows[a]
    BY <1>0, <2>2 DEF Context, Pending, Clean
  <2>5. Level'
    BY <1>1, <1>2, <2>4 DEF Even, Level
  <2> QED BY <2>3, <2>5 DEF Result, InFlight, Rests
<1>5. CASE /\ Read(r) # None /\ ~Refused(r) /\ draft' = [draft EXCEPT ![r] = Reviewed(r)]
           /\ Goto(r, "writePlan") /\ UNCHANGED <<session, at>>
  <2>1. /\ pc'[r] = "writePlan" /\ draft'[r] # None /\ tx' = tx /\ broken' = broken
    BY <1>0, <1>5 DEF Context, Goto, session
  <2>2. \A a \in Assets : Even(r, a)'
    BY <1>1, <1>2, <2>1 DEF Even, Pending
  <2>3. gotAsset[r] # None /\ gotPlan[r] # None
    <3>1. gotAsset[r] = assetFile[Here(r)] /\ gotPlan[r] = planFile[Here(r)] /\ Even(r, Here(r))
      BY <1>0, <1>1, <1>2 DEF Context, Solo, Flushes, WithFiles
    <3> QED BY <1>5, <3>1 DEF Read, Even
  <2> QED BY <1>1, <1>5, <2>1, <2>2, <2>3
          DEF Result, InFlight, Solo, Flushes, Course, WithDraft, WithFiles, WithRows
<1> QED BY <1>3, <1>4, <1>5 DEF DecideReview

LEMMA WritePlanFileSolo ==
    ASSUME SaveInv, NEW r \in Requests, Solo(r), WritePlanFile(r), calm'
    PROVE  Result(r)'
<1>0. Context(r)
  BY InContext
<1>a. Op(r)' = Op(r) /\ (at' = at => Here(r)' = Here(r))
  BY DEF Op, Here, WritePlanFile
<1>1. InFlight(r)' => pc'[r] \in Course(Op(r)')
  BY <1>0, <1>a DEF Context, WritePlanFile, session, scratch, database, Solo, Flushes, Course, Goto,
                    Advance, InFlight
<1>2. ~broken'[r]
  BY <1>0 DEF Context, WritePlanFile, session, scratch, database, Solo, Flushes
<1>3. InFlight(r)' => \A a \in Assets : Even(r, a)' \/ (pc'[r] \in Halfway(Op(r)') /\ a = Here(r)')
  BY <1>0, <1>a DEF Context, WritePlanFile, session, scratch, database, Solo, Flushes, Course,
                    Halfway, Even, Pending, Goto, Advance, InFlight, WithDraft, WithFiles,
                    WithRows, Clean, Saving
<1>4. InFlight(r)' => Flushes(r)'
  BY <1>0, <1>a DEF Context, WritePlanFile, session, scratch, database, Solo, Flushes, Course, Goto,
                    Advance, InFlight, Clean, WithFiles
<1>5. InFlight(r)' => WithDraft(r)'
  BY <1>0, <1>a DEF Context, WritePlanFile, session, scratch, database, Solo, Flushes, Course, Even,
                    Pending, Goto, Advance, InFlight, WithDraft, WithFiles, Clean, Saving
<1>6. InFlight(r)' => WithFiles(r)'
  BY <1>0, <1>a DEF Context, WritePlanFile, session, scratch, database, Solo, Flushes, Course,
                    Halfway, Even, Pending, Goto, Advance, InFlight, WithDraft, WithFiles,
                    Clean
<1>7. InFlight(r)' => WithRows(r)'
  BY <1>0, <1>a DEF Context, WritePlanFile, session, scratch, database, Solo, Flushes, Course,
                    Halfway, Even, Pending, Goto, Advance, InFlight, WithRows, Clean
<1>8. ~InFlight(r)' => tx'[r] = Clean /\ Level'
  BY <1>0, <1>a DEF Context, WritePlanFile, Solo, Flushes, Course, Goto, Advance, InFlight
<1> QED BY <1>1, <1>2, <1>3, <1>4, <1>5, <1>6, <1>7, <1>8 DEF Solo, Flushes, Result, Rests

LEMMA WriteAssetFileSolo ==
    ASSUME SaveInv, NEW r \in Requests, Solo(r), WriteAssetFile(r), calm'
    PROVE  Result(r)'
<1>0. Context(r)
  BY InContext
<1>a. Op(r)' = Op(r) /\ (at' = at => Here(r)' = Here(r))
  BY DEF Op, Here, WriteAssetFile
<1>1. InFlight(r)' => pc'[r] \in Course(Op(r)')
  BY <1>0, <1>a DEF Context, WriteAssetFile, session, scratch, database, Solo, Flushes, Course,
                    Goto,
                    InFlight
<1>2. ~broken'[r]
  BY <1>0 DEF Context, WriteAssetFile, session, scratch, database, Solo, Flushes
<1>3. InFlight(r)' => \A a \in Assets : Even(r, a)' \/ (pc'[r] \in Halfway(Op(r)') /\ a = Here(r)')
  BY <1>0, <1>a DEF Context, WriteAssetFile, session, scratch, database, Solo, Flushes, Course,
                    Halfway, Even, Pending, Goto, InFlight, WithDraft, WithFiles, WithRows,
                    Clean, Saving
<1>4. InFlight(r)' => Flushes(r)'
  BY <1>0, <1>a DEF Context, WriteAssetFile, session, scratch, database, Solo, Flushes, Course,
                    Goto,
                    InFlight, Clean, WithFiles
<1>5. InFlight(r)' => WithDraft(r)'
  BY <1>0, <1>a DEF Context, WriteAssetFile, session, scratch, database, Solo, Flushes, Course,
                    Even,
                    Pending, Goto, InFlight, WithDraft, WithFiles, Clean, Saving
<1>6. InFlight(r)' => WithFiles(r)'
  BY <1>0, <1>a DEF Context, WriteAssetFile, session, scratch, database, Solo, Flushes, Course,
                    Halfway, Even, Pending, Goto, InFlight, WithDraft, WithFiles, Clean
<1>7. InFlight(r)' => WithRows(r)'
  BY <1>0, <1>a DEF Context, WriteAssetFile, session, scratch, database, Solo, Flushes, Course,
                    Halfway, Even, Pending, Goto, InFlight, WithRows, Clean
<1>8. ~InFlight(r)' => tx'[r] = Clean /\ Level'
  BY <1>0, <1>a DEF Context, WriteAssetFile, Solo, Flushes, Course, Goto, InFlight
<1> QED BY <1>1, <1>2, <1>3, <1>4, <1>5, <1>6, <1>7, <1>8 DEF Solo, Flushes, Result, Rests

LEMMA TakeBundleSolo ==
    ASSUME SaveInv, NEW r \in Requests, Solo(r), TakeBundle(r), calm'
    PROVE  Result(r)'
<1>0. Context(r)
  BY InContext
<1>a. Op(r)' = Op(r) /\ (at' = at => Here(r)' = Here(r))
  BY DEF Op, Here, TakeBundle
<1>1. InFlight(r)' => pc'[r] \in Course(Op(r)')
  BY <1>0, <1>a DEF Context, TakeBundle, session, database, files, Solo, Flushes, Course, Goto,
                    InFlight
<1>2. ~broken'[r]
  BY <1>0 DEF Context, TakeBundle, session, database, files, Solo, Flushes
<1>3. InFlight(r)' => \A a \in Assets : Even(r, a)' \/ (pc'[r] \in Halfway(Op(r)') /\ a = Here(r)')
  BY <1>0, <1>a DEF Context, TakeBundle, session, database, files, Solo, Flushes, Course, Halfway,
                    Even, Pending, Goto, InFlight, WithDraft, WithFiles, WithRows, Clean,
                    Saving, Read
<1>4. InFlight(r)' => Flushes(r)'
  BY <1>0, <1>a DEF Context, TakeBundle, session, database, files, Solo, Flushes, Course, Goto,
                    InFlight, Clean, WithFiles
<1>5. InFlight(r)' => WithDraft(r)'
  BY <1>0, <1>a DEF Context, TakeBundle, session, database, files, Solo, Flushes, Course, Even,
                    Pending, Goto, InFlight, WithDraft, WithFiles, Clean, Saving, Read
<1>6. InFlight(r)' => WithFiles(r)'
  BY <1>0, <1>a DEF Context, TakeBundle, session, database, files, Solo, Flushes, Course, Halfway,
                    Even, Pending, Goto, InFlight, WithDraft, WithFiles, Clean, Read
<1>7. InFlight(r)' => WithRows(r)'
  BY <1>0, <1>a DEF Context, TakeBundle, session, database, files, Solo, Flushes, Course, Halfway,
                    Even, Pending, Goto, InFlight, WithRows, Clean
<1>8. ~InFlight(r)' => tx'[r] = Clean /\ Level'
  BY <1>0, <1>a DEF Context, TakeBundle, Solo, Flushes, Course, Goto, InFlight
<1> QED BY <1>1, <1>2, <1>3, <1>4, <1>5, <1>6, <1>7, <1>8 DEF Solo, Flushes, Result, Rests

LEMMA SyncPointsSolo ==
    ASSUME SaveInv, NEW r \in Requests, Solo(r), SyncPoints(r), calm'
    PROVE  Result(r)'
<1>0. Context(r)
  BY InContext
<1>a. Op(r)' = Op(r) /\ (at' = at => Here(r)' = Here(r))
  BY DEF Op, Here, SyncPoints
<1>1. InFlight(r)' => pc'[r] \in Course(Op(r)')
  BY <1>0, <1>a DEF Context, SyncPoints, scratch, database, files, Solo, Flushes, Course, Goto,
                    InFlight
<1>2. ~broken'[r]
  BY <1>0 DEF Context, SyncPoints, scratch, database, files, Solo, Flushes
<1>3. InFlight(r)' => \A a \in Assets : Even(r, a)' \/ (pc'[r] \in Halfway(Op(r)') /\ a = Here(r)')
  BY <1>0, <1>a DEF Context, SyncPoints, scratch, database, files, Solo, Flushes, Course, Halfway,
                    Even, Pending, Goto, InFlight, WithDraft, WithFiles, WithRows, Clean,
                    Saving
<1>4. InFlight(r)' => Flushes(r)'
  BY <1>0, <1>a DEF Context, SyncPoints, scratch, database, files, Solo, Flushes, Course, Goto,
                    InFlight, Clean, WithFiles
<1>5. InFlight(r)' => WithDraft(r)'
  BY <1>0, <1>a DEF Context, SyncPoints, scratch, database, files, Solo, Flushes, Course, Even,
                    Pending, Goto, InFlight, WithDraft, WithFiles, Clean, Saving
<1>6. InFlight(r)' => WithFiles(r)'
  BY <1>0, <1>a DEF Context, SyncPoints, scratch, database, files, Solo, Flushes, Course, Halfway,
                    Even, Pending, Goto, InFlight, WithDraft, WithFiles, Clean
<1>7. InFlight(r)' => WithRows(r)'
  BY <1>0, <1>a DEF Context, SyncPoints, scratch, database, files, Solo, Flushes, Course, Halfway,
                    Even, Pending, Goto, InFlight, WithRows, Clean
<1>8. ~InFlight(r)' => tx'[r] = Clean /\ Level'
  BY <1>0, <1>a DEF Context, SyncPoints, Solo, Flushes, Course, Goto, InFlight
<1> QED BY <1>1, <1>2, <1>3, <1>4, <1>5, <1>6, <1>7, <1>8 DEF Solo, Flushes, Result, Rests

LEMMA StoreRowSolo ==
    ASSUME SaveInv, NEW r \in Requests, Solo(r), StoreRow(r), calm'
    PROVE  Result(r)'
<1>0. Context(r)
  BY InContext
<1>p. PICK h : h = Here(r)
  OBVIOUS
<1>1. /\ pc[r] = "store" /\ Op(r)' = Op(r) /\ Op(r) \in {"save", "edit", "review"}
      /\ tx' = [tx EXCEPT ![r][h] = draft[r]]
      /\ UNCHANGED <<job, draft, rows, assetFile, planFile>>
      /\ ~broken'[r]
  BY <1>p DEF StoreRow, Solo, Flushes, Course, Op, scratch, database, files
<1>2. draft[r] # None /\ h \in Assets /\ draft[r] # Gone
  BY <1>0, <1>p, <1>1 DEF Context, Solo, Flushes, WithDraft, Saving
<1>3. \A a \in Assets : Pending(r, a)' = IF a = h THEN draft[r] ELSE Pending(r, a)
  BY <1>0, <1>1, <1>2 DEF Context, Pending
<1>4. \A a \in Assets : a = h \/ Even(r, a)'
  BY <1>p, <1>1, <1>3 DEF Solo, Flushes, Even
<1>5. CASE Op(r) \in {"edit", "review"}
  <2>1. Even(r, h)'
    BY <1>p, <1>1, <1>2, <1>3, <1>5 DEF Solo, Flushes, WithDraft, Even
  <2>2. pc'[r] = "commit" \/ (Op(r) = "review" /\ pc'[r] = "readAsset" /\ at'[r] > 1)
    BY <1>0, <1>5 DEF Context, StoreRow, Advance, Goto
  <2> QED BY <1>1, <1>4, <1>5, <2>1, <2>2
          DEF Result, InFlight, Solo, Flushes, Course, WithDraft, WithFiles, WithRows
<1>6. CASE Op(r) = "save"
  <2>1. pc'[r] = "commit" /\ Here(r)' = h
    BY <1>0, <1>p, <1>6 DEF Context, StoreRow, Goto, Here
  <2>2. Pending(r, h)' = draft[r]
    BY <1>2, <1>3
  <2> QED BY <1>1, <1>4, <1>6, <2>1, <2>2
          DEF Result, InFlight, Solo, Flushes, Course, Halfway, WithDraft, WithFiles, WithRows
<1> QED BY <1>1, <1>5, <1>6

LEMMA DeleteRowSolo ==
    ASSUME SaveInv, NEW r \in Requests, Solo(r), DeleteRow(r), calm'
    PROVE  Result(r)'
<1>0. Context(r)
  BY InContext
<1>a. Op(r)' = Op(r) /\ (at' = at => Here(r)' = Here(r))
  BY DEF Op, Here, DeleteRow
<1>1. InFlight(r)' => pc'[r] \in Course(Op(r)')
  BY <1>0, <1>a DEF Context, DeleteRow, scratch, database, files, Solo, Flushes, Course, Goto,
                    Advance, InFlight
<1>2. ~broken'[r]
  BY <1>0 DEF Context, DeleteRow, scratch, database, files, Solo, Flushes
<1>3. InFlight(r)' => \A a \in Assets : Even(r, a)' \/ (pc'[r] \in Halfway(Op(r)') /\ a = Here(r)')
  BY <1>0, <1>a DEF Context, DeleteRow, scratch, database, files, Solo, Flushes, Course, Halfway,
                    Even, Pending, Goto, Advance, InFlight, WithDraft, WithFiles, WithRows,
                    Clean, Saving
<1>4. InFlight(r)' => Flushes(r)'
  BY <1>0, <1>a DEF Context, DeleteRow, scratch, database, files, Solo, Flushes, Course, Goto,
                    Advance, InFlight, Clean, WithFiles
<1>5. InFlight(r)' => WithDraft(r)'
  BY <1>0, <1>a DEF Context, DeleteRow, scratch, database, files, Solo, Flushes, Course, Even,
                    Pending, Goto, Advance, InFlight, WithDraft, WithFiles, Clean, Saving
<1>6. InFlight(r)' => WithFiles(r)'
  BY <1>0, <1>a DEF Context, DeleteRow, scratch, database, files, Solo, Flushes, Course, Halfway,
                    Even, Pending, Goto, Advance, InFlight, WithDraft, WithFiles, Clean
<1>7. InFlight(r)' => WithRows(r)'
  BY <1>0, <1>a DEF Context, DeleteRow, scratch, database, files, Solo, Flushes, Course, Halfway,
                    Even, Pending, Goto, Advance, InFlight, WithRows, Clean
<1>8. ~InFlight(r)' => tx'[r] = Clean /\ Level'
  BY <1>0, <1>a DEF Context, DeleteRow, Solo, Flushes, Course, Goto, Advance, InFlight
<1> QED BY <1>1, <1>2, <1>3, <1>4, <1>5, <1>6, <1>7, <1>8 DEF Solo, Flushes, Result, Rests

LEMMA CommitSolo ==
    ASSUME SaveInv, NEW r \in Requests, Solo(r), Commit(r), calm'
    PROVE  Result(r)'
<1>0. Context(r)
  BY InContext
<1>1. /\ pc[r] = "commit" /\ Op(r)' = Op(r) /\ tx'[r] = Clean /\ ~broken'[r]
      /\ UNCHANGED <<job, draft, assetFile, planFile>>
  BY <1>0 DEF Context, Commit, End, Close, Release, Op, scratch, files
<1>2. \A a \in Assets : rows'[a] = Pending(r, a)
  <2>1. CASE Committed(r)
    BY <2>1 DEF Committed, Pending
  <2>2. CASE Op(r) = "case" /\ UNCHANGED database
    BY <1>0, <2>2 DEF Context, Solo, Flushes, WithRows, Pending, database
  <2> QED BY <2>1, <2>2 DEF Commit
<1>3. \A a \in Assets : Pending(r, a)' = Pending(r, a)
  <2>1. \A a \in Assets : tx'[r][a] = None
    BY <1>1 DEF Clean
  <2>2. \A a \in Assets : Pending(r, a)' = rows'[a]
    BY <1>0, <2>1 DEF Context, Pending
  <2> QED BY <1>2, <2>2
<1>4. \A a \in Assets : Even(r, a)' <=> Even(r, a)
  BY <1>1, <1>3 DEF Even
<1>5. CASE Op(r) \in {"review", "case"}
  <2>1. pc'[r] = "done"
    BY <1>0, <1>5 DEF Context, Commit, End, Goto
  <2>2. \A a \in Assets : Even(r, a)
    BY <1>1, <1>5 DEF Solo, Flushes, Halfway
  <2> QED BY <1>1, <1>2, <2>1, <2>2 DEF Result, InFlight, Rests, Level, Even
<1>6. CASE Op(r) = "save"
  <2>1. pc'[r] = "writePlan" /\ Here(r)' = Here(r) /\ Here(r) \in Assets
    BY <1>0, <1>6 DEF Context, Commit, Goto, Here
  <2>2. Pending(r, Here(r))' = draft'[r]
    BY <1>1, <1>3, <1>6, <2>1 DEF Solo, Flushes, WithDraft
  <2>3. \A a \in Assets : a = Here(r) \/ Even(r, a)'
    BY <1>4 DEF Solo, Flushes
  <2> QED BY <1>1, <1>6, <2>1, <2>2, <2>3
          DEF Result, InFlight, Solo, Flushes, Course, Halfway, WithDraft, WithFiles, WithRows
<1>7. CASE Op(r) \in {"edit", "delete", "generate"}
  <2>1. pc'[r] \in CASE Op(r) = "edit" -> {"detail"}
                     [] Op(r) = "delete" -> {"unlinkAsset", "reply"}
                     [] OTHER -> {"readAsset", "reply"}
    BY <1>0, <1>7 DEF Context, Commit, Goto, Advance
  <2>2. \A a \in Assets : Even(r, a)'
    BY <1>1, <1>4, <1>7 DEF Solo, Flushes, Halfway
  <2>3. Op(r) = "generate" => \A a \in Assets : tx'[r][a] = None
    BY <1>1 DEF Clean
  <2> QED BY <1>1, <1>7, <2>1, <2>2, <2>3
          DEF Result, InFlight, Solo, Flushes, Course, WithDraft, WithFiles, WithRows
<1>8. Op(r) \in {"review", "case", "save", "edit", "delete", "generate"}
  BY <1>1, PayloadType DEF Solo, Flushes, Course, SaveInv, Operations
<1> QED BY <1>5, <1>6, <1>7, <1>8

LEMMA ScanSolo ==
    ASSUME SaveInv, NEW r \in Requests, Solo(r), Scan(r), calm'
    PROVE  Result(r)'
<1>0. Context(r)
  BY InContext
<1>a. Op(r)' = Op(r) /\ (at' = at => Here(r)' = Here(r))
  BY DEF Op, Here, Scan
<1>1. InFlight(r)' => pc'[r] \in Course(Op(r)')
  BY <1>0, <1>a DEF Context, Scan, session, database, files, Solo, Flushes, Course, Goto, InFlight
<1>2. ~broken'[r]
  BY <1>0 DEF Context, Scan, session, database, files, Solo, Flushes
<1>3. InFlight(r)' => \A a \in Assets : Even(r, a)' \/ (pc'[r] \in Halfway(Op(r)') /\ a = Here(r)')
  BY <1>0, <1>a DEF Context, Scan, session, database, files, Solo, Flushes, Course, Halfway, Even,
                    Pending, Goto, InFlight, WithDraft, WithFiles, WithRows, Clean, Saving
<1>4. InFlight(r)' => Flushes(r)'
  BY <1>0, <1>a DEF Context, Scan, session, database, files, Solo, Flushes, Course, Goto, InFlight,
                    Clean, WithFiles
<1>5. InFlight(r)' => WithDraft(r)'
  BY <1>0, <1>a DEF Context, Scan, session, database, files, Solo, Flushes, Course, Even, Pending,
                    Goto, InFlight, WithDraft, WithFiles, Clean, Saving
<1>6. InFlight(r)' => WithFiles(r)'
  BY <1>0, <1>a DEF Context, Scan, session, database, files, Solo, Flushes, Course, Halfway, Even,
                    Pending, Goto, InFlight, WithDraft, WithFiles, Clean
<1>7. InFlight(r)' => WithRows(r)'
  BY <1>0, <1>a DEF Context, Scan, session, database, files, Solo, Flushes, Course, Halfway, Even,
                    Pending, Goto, InFlight, WithRows, Clean
<1>8. ~InFlight(r)' => tx'[r] = Clean /\ Level'
  BY <1>0, <1>a DEF Context, Scan, Solo, Flushes, Course, Goto, InFlight
<1> QED BY <1>1, <1>2, <1>3, <1>4, <1>5, <1>6, <1>7, <1>8 DEF Solo, Flushes, Result, Rests

LEMMA ImportFileSolo ==
    ASSUME SaveInv, NEW r \in Requests, Solo(r), ImportFile(r), calm'
    PROVE  Result(r)'
<1>0. Context(r)
  BY InContext
<1>a. Op(r)' = Op(r) /\ (at' = at => Here(r)' = Here(r))
  BY DEF Op, Here, ImportFile
<1>1. InFlight(r)' => pc'[r] \in Course(Op(r)')
  BY <1>0, <1>a DEF Context, ImportFile, session, database, files, Solo, Flushes, Course, Goto,
                    InFlight
<1>2. ~broken'[r]
  BY <1>0 DEF Context, ImportFile, session, database, files, Solo, Flushes
<1>3. InFlight(r)' => \A a \in Assets : Even(r, a)' \/ (pc'[r] \in Halfway(Op(r)') /\ a = Here(r)')
  BY <1>0, <1>a DEF Context, ImportFile, session, database, files, Solo, Flushes, Course, Halfway,
                    Even, Pending, Goto, InFlight, WithDraft, WithFiles, WithRows, Clean,
                    Saving
<1>4. InFlight(r)' => Flushes(r)'
  BY <1>0, <1>a DEF Context, ImportFile, session, database, files, Solo, Flushes, Course, Goto,
                    InFlight, Clean, WithFiles
<1>5. InFlight(r)' => WithDraft(r)'
  BY <1>0, <1>a DEF Context, ImportFile, session, database, files, Solo, Flushes, Course, Even,
                    Pending, Goto, InFlight, WithDraft, WithFiles, Clean, Saving
<1>6. InFlight(r)' => WithFiles(r)'
  BY <1>0, <1>a DEF Context, ImportFile, session, database, files, Solo, Flushes, Course, Halfway,
                    Even, Pending, Goto, InFlight, WithDraft, WithFiles, Clean
<1>7. InFlight(r)' => WithRows(r)'
  BY <1>0, <1>a DEF Context, ImportFile, session, database, files, Solo, Flushes, Course, Halfway,
                    Even, Pending, Goto, InFlight, WithRows, Clean
<1>8. ~InFlight(r)' => tx'[r] = Clean /\ Level'
  BY <1>0, <1>a DEF Context, ImportFile, Solo, Flushes, Course, Goto, InFlight
<1> QED BY <1>1, <1>2, <1>3, <1>4, <1>5, <1>6, <1>7, <1>8 DEF Solo, Flushes, Result, Rests

LEMMA ImportRowSolo ==
    ASSUME SaveInv, NEW r \in Requests, Solo(r), ImportRow(r), calm'
    PROVE  Result(r)'
<1>0. Context(r)
  BY InContext
<1>a. Op(r)' = Op(r) /\ (at' = at => Here(r)' = Here(r))
  BY DEF Op, Here, ImportRow
<1>1. InFlight(r)' => pc'[r] \in Course(Op(r)')
  BY <1>0, <1>a DEF Context, ImportRow, scratch, database, files, Solo, Flushes, Course, Goto,
                    InFlight
<1>2. ~broken'[r]
  BY <1>0 DEF Context, ImportRow, scratch, database, files, Solo, Flushes
<1>3. InFlight(r)' => \A a \in Assets : Even(r, a)' \/ (pc'[r] \in Halfway(Op(r)') /\ a = Here(r)')
  BY <1>0, <1>a DEF Context, ImportRow, scratch, database, files, Solo, Flushes, Course, Halfway,
                    Even, Pending, Goto, InFlight, WithDraft, WithFiles, WithRows, Clean,
                    Saving
<1>4. InFlight(r)' => Flushes(r)'
  BY <1>0, <1>a DEF Context, ImportRow, scratch, database, files, Solo, Flushes, Course, Goto,
                    InFlight, Clean, WithFiles
<1>5. InFlight(r)' => WithDraft(r)'
  BY <1>0, <1>a DEF Context, ImportRow, scratch, database, files, Solo, Flushes, Course, Even,
                    Pending, Goto, InFlight, WithDraft, WithFiles, Clean, Saving
<1>6. InFlight(r)' => WithFiles(r)'
  BY <1>0, <1>a DEF Context, ImportRow, scratch, database, files, Solo, Flushes, Course, Halfway,
                    Even, Pending, Goto, InFlight, WithDraft, WithFiles, Clean
<1>7. InFlight(r)' => WithRows(r)'
  BY <1>0, <1>a DEF Context, ImportRow, scratch, database, files, Solo, Flushes, Course, Halfway,
                    Even, Pending, Goto, InFlight, WithRows, Clean
<1>8. ~InFlight(r)' => tx'[r] = Clean /\ Level'
  BY <1>0, <1>a DEF Context, ImportRow, Solo, Flushes, Course, Goto, InFlight
<1> QED BY <1>1, <1>2, <1>3, <1>4, <1>5, <1>6, <1>7, <1>8 DEF Solo, Flushes, Result, Rests

LEMMA UnlinkAssetFileSolo ==
    ASSUME SaveInv, NEW r \in Requests, Solo(r), UnlinkAssetFile(r), calm'
    PROVE  Result(r)'
<1>0. Context(r)
  BY InContext
<1>a. Op(r)' = Op(r) /\ (at' = at => Here(r)' = Here(r))
  BY DEF Op, Here, UnlinkAssetFile
<1>1. InFlight(r)' => pc'[r] \in Course(Op(r)')
  BY <1>0, <1>a DEF Context, UnlinkAssetFile, session, database, Solo, Flushes, Course, Goto,
                    InFlight
<1>2. ~broken'[r]
  BY <1>0 DEF Context, UnlinkAssetFile, session, database, Solo, Flushes
<1>3. InFlight(r)' => \A a \in Assets : Even(r, a)' \/ (pc'[r] \in Halfway(Op(r)') /\ a = Here(r)')
  BY <1>0, <1>a DEF Context, UnlinkAssetFile, session, database, Solo, Flushes, Course, Halfway,
                    Even, Pending, Goto, InFlight, WithDraft, WithFiles, WithRows, Clean,
                    Saving
<1>4. InFlight(r)' => Flushes(r)'
  BY <1>0, <1>a DEF Context, UnlinkAssetFile, session, database, Solo, Flushes, Course, Goto,
                    InFlight, Clean, WithFiles
<1>5. InFlight(r)' => WithDraft(r)'
  BY <1>0, <1>a DEF Context, UnlinkAssetFile, session, database, Solo, Flushes, Course, Even,
                    Pending, Goto, InFlight, WithDraft, WithFiles, Clean, Saving
<1>6. InFlight(r)' => WithFiles(r)'
  BY <1>0, <1>a DEF Context, UnlinkAssetFile, session, database, Solo, Flushes, Course, Halfway,
                    Even, Pending, Goto, InFlight, WithDraft, WithFiles, Clean
<1>7. InFlight(r)' => WithRows(r)'
  BY <1>0, <1>a DEF Context, UnlinkAssetFile, session, database, Solo, Flushes, Course, Halfway,
                    Even, Pending, Goto, InFlight, WithRows, Clean
<1>8. ~InFlight(r)' => tx'[r] = Clean /\ Level'
  BY <1>0, <1>a DEF Context, UnlinkAssetFile, Solo, Flushes, Course, Goto, InFlight
<1> QED BY <1>1, <1>2, <1>3, <1>4, <1>5, <1>6, <1>7, <1>8 DEF Solo, Flushes, Result, Rests

LEMMA UnlinkPlanFileSolo ==
    ASSUME SaveInv, NEW r \in Requests, Solo(r), UnlinkPlanFile(r), calm'
    PROVE  Result(r)'
<1>0. Context(r)
  BY InContext
<1>a. Op(r)' = Op(r) /\ (at' = at => Here(r)' = Here(r))
  BY DEF Op, Here, UnlinkPlanFile
<1>1. InFlight(r)' => pc'[r] \in Course(Op(r)')
  BY <1>0, <1>a DEF Context, UnlinkPlanFile, session, database, Solo, Flushes, Course, Goto,
                    InFlight
<1>2. ~broken'[r]
  BY <1>0 DEF Context, UnlinkPlanFile, session, database, Solo, Flushes
<1>3. InFlight(r)' => \A a \in Assets : Even(r, a)' \/ (pc'[r] \in Halfway(Op(r)') /\ a = Here(r)')
  BY <1>0, <1>a DEF Context, UnlinkPlanFile, session, database, Solo, Flushes, Course, Halfway,
                    Even,
                    Pending, Goto, InFlight, WithDraft, WithFiles, WithRows, Clean, Saving
<1>4. InFlight(r)' => Flushes(r)'
  BY <1>0, <1>a DEF Context, UnlinkPlanFile, session, database, Solo, Flushes, Course, Goto,
                    InFlight, Clean, WithFiles
<1>5. InFlight(r)' => WithDraft(r)'
  BY <1>0, <1>a DEF Context, UnlinkPlanFile, session, database, Solo, Flushes, Course, Even,
                    Pending,
                    Goto, InFlight, WithDraft, WithFiles, Clean, Saving
<1>6. InFlight(r)' => WithFiles(r)'
  BY <1>0, <1>a DEF Context, UnlinkPlanFile, session, database, Solo, Flushes, Course, Halfway,
                    Even,
                    Pending, Goto, InFlight, WithDraft, WithFiles, Clean
<1>7. InFlight(r)' => WithRows(r)'
  BY <1>0, <1>a DEF Context, UnlinkPlanFile, session, database, Solo, Flushes, Course, Halfway,
                    Even,
                    Pending, Goto, InFlight, WithRows, Clean
<1>8. ~InFlight(r)' => tx'[r] = Clean /\ Level'
  BY <1>0, <1>a DEF Context, UnlinkPlanFile, Solo, Flushes, Course, Goto, InFlight
<1> QED BY <1>1, <1>2, <1>3, <1>4, <1>5, <1>6, <1>7, <1>8 DEF Solo, Flushes, Result, Rests

LEMMA QueryRowsSolo ==
    ASSUME SaveInv, NEW r \in Requests, Solo(r), QueryRows(r), calm'
    PROVE  Result(r)'
<1>0. Context(r)
  BY InContext
<1>a. Op(r)' = Op(r) /\ (at' = at => Here(r)' = Here(r))
  BY DEF Op, Here, QueryRows
<1>1. InFlight(r)' => pc'[r] \in Course(Op(r)')
  BY <1>0, <1>a DEF Context, QueryRows, session, database, files, Solo, Flushes, Course, Goto,
                    InFlight
<1>2. ~broken'[r]
  BY <1>0 DEF Context, QueryRows, session, database, files, Solo, Flushes
<1>3. InFlight(r)' => \A a \in Assets : Even(r, a)' \/ (pc'[r] \in Halfway(Op(r)') /\ a = Here(r)')
  BY <1>0, <1>a DEF Context, QueryRows, session, database, files, Solo, Flushes, Course, Halfway,
                    Even, Pending, Goto, InFlight, WithDraft, WithFiles, WithRows, Clean,
                    Saving
<1>4. InFlight(r)' => Flushes(r)'
  BY <1>0, <1>a DEF Context, QueryRows, session, database, files, Solo, Flushes, Course, Goto,
                    InFlight, Clean, WithFiles
<1>5. InFlight(r)' => WithDraft(r)'
  BY <1>0, <1>a DEF Context, QueryRows, session, database, files, Solo, Flushes, Course, Even,
                    Pending, Goto, InFlight, WithDraft, WithFiles, Clean, Saving
<1>6. InFlight(r)' => WithFiles(r)'
  BY <1>0, <1>a DEF Context, QueryRows, session, database, files, Solo, Flushes, Course, Halfway,
                    Even, Pending, Goto, InFlight, WithDraft, WithFiles, Clean
<1>7. InFlight(r)' => WithRows(r)'
  BY <1>0, <1>a DEF Context, QueryRows, session, database, files, Solo, Flushes, Course, Halfway,
                    Even, Pending, Goto, InFlight, WithRows, Clean
<1>8. ~InFlight(r)' => tx'[r] = Clean /\ Level'
  BY <1>0, <1>a DEF Context, QueryRows, Solo, Flushes, Course, Goto, InFlight
<1> QED BY <1>1, <1>2, <1>3, <1>4, <1>5, <1>6, <1>7, <1>8 DEF Solo, Flushes, Result, Rests

LEMMA ResyncSolo ==
    ASSUME SaveInv, NEW r \in Requests, Solo(r), Resync(r), calm'
    PROVE  Result(r)'
<1>0. Context(r)
  BY InContext
<1>a. Op(r)' = Op(r) /\ (at' = at => Here(r)' = Here(r))
  BY DEF Op, Here, Resync
<1>1. InFlight(r)' => pc'[r] \in Course(Op(r)')
  BY <1>0, <1>a DEF Context, Resync, session, database, Solo, Flushes, Course, Goto, End, InFlight
<1>2. ~broken'[r]
  BY <1>0 DEF Context, Resync, session, database, Solo, Flushes, End, Close, Release
<1>3. InFlight(r)' => \A a \in Assets : Even(r, a)' \/ (pc'[r] \in Halfway(Op(r)') /\ a = Here(r)')
  BY <1>0, <1>a DEF Context, Resync, session, database, Solo, Flushes, Course, Halfway, Even,
                    Pending, Goto, End, Close, Release, InFlight, WithDraft, WithFiles,
                    WithRows, Clean, Saving
<1>4. InFlight(r)' => Flushes(r)'
  BY <1>0, <1>a DEF Context, Resync, session, database, Solo, Flushes, Course, Goto, End, Close,
                    Release, InFlight, Clean, WithFiles
<1>5. InFlight(r)' => WithDraft(r)'
  BY <1>0, <1>a DEF Context, Resync, session, database, Solo, Flushes, Course, Even, Pending, Goto,
                    End, Close, Release, InFlight, WithDraft, WithFiles, Clean, Saving
<1>6. InFlight(r)' => WithFiles(r)'
  BY <1>0, <1>a DEF Context, Resync, session, database, Solo, Flushes, Course, Halfway, Even,
                    Pending, Goto, End, Close, Release, InFlight, WithDraft, WithFiles,
                    Clean
<1>7. InFlight(r)' => WithRows(r)'
  BY <1>0, <1>a DEF Context, Resync, session, database, Solo, Flushes, Course, Halfway, Even,
                    Pending, Goto, End, Close, Release, InFlight, WithRows, Clean
<1>8. ~InFlight(r)' => tx'[r] = Clean /\ Level'
  BY <1>0, <1>a DEF Context, Resync, session, database, Solo, Flushes, Course, Halfway, Even,
                    Pending, Goto, End, Close, Release, InFlight, WithDraft, WithFiles,
                    WithRows, Clean, Level
<1> QED BY <1>1, <1>2, <1>3, <1>4, <1>5, <1>6, <1>7, <1>8 DEF Solo, Flushes, Result, Rests

LEMMA DecideGenerateSolo ==
    ASSUME SaveInv, NEW r \in Requests, Solo(r), DecideGenerate(r), calm'
    PROVE  Result(r)'
<1>0. Context(r)
  BY InContext
<1>a. Op(r)' = Op(r) /\ (at' = at => Here(r)' = Here(r))
  BY DEF Op, Here, DecideGenerate
<1>1. InFlight(r)' => pc'[r] \in Course(Op(r)')
  BY <1>0, <1>a DEF Context, DecideGenerate, session, scratch, database, files, Solo, Flushes,
                    Course, Goto, Advance, End, InFlight
<1>2. ~broken'[r]
  BY <1>0 DEF Context, DecideGenerate, session, scratch, database, files, Solo, Flushes, End, Close,
              Release
<1>3. InFlight(r)' => \A a \in Assets : Even(r, a)' \/ (pc'[r] \in Halfway(Op(r)') /\ a = Here(r)')
  BY <1>0, <1>a DEF Context, DecideGenerate, session, scratch, database, files, Solo, Flushes,
                    Course, Halfway, Even, Pending, Goto, Advance, End, Close, Release,
                    InFlight, WithDraft, WithFiles, WithRows, Clean, Saving, Read
<1>4. InFlight(r)' => Flushes(r)'
  BY <1>0, <1>a DEF Context, DecideGenerate, session, scratch, database, files, Solo, Flushes,
                    Course, Goto, Advance, End, Close, Release, InFlight, Clean, WithFiles
<1>5. InFlight(r)' => WithDraft(r)'
  BY <1>0, <1>a DEF Context, DecideGenerate, session, scratch, database, files, Solo, Flushes,
                    Course, Even, Pending, Goto, Advance, End, Close, Release, InFlight,
                    WithDraft, WithFiles, Clean, Saving, Read
<1>6. InFlight(r)' => WithFiles(r)'
  BY <1>0, <1>a DEF Context, DecideGenerate, session, scratch, database, files, Solo, Flushes,
                    Course, Halfway, Even, Pending, Goto, Advance, End, Close, Release,
                    InFlight, WithDraft, WithFiles, Clean, Read
<1>7. InFlight(r)' => WithRows(r)'
  BY <1>0, <1>a DEF Context, DecideGenerate, session, scratch, database, files, Solo, Flushes,
                    Course, Halfway, Even, Pending, Goto, Advance, End, Close, Release,
                    InFlight, WithRows, Clean
<1>8. ~InFlight(r)' => tx'[r] = Clean /\ Level'
  BY <1>0, <1>a DEF Context, DecideGenerate, session, scratch, database, files, Solo, Flushes,
                    Course, Halfway, Even, Pending, Goto, Advance, End, Close, Release,
                    InFlight, WithDraft, WithFiles, WithRows, Clean, Level
<1> QED BY <1>1, <1>2, <1>3, <1>4, <1>5, <1>6, <1>7, <1>8 DEF Solo, Flushes, Result, Rests

LEMMA FinishSolo ==
    ASSUME SaveInv, NEW r \in Requests, Solo(r), Finish(r), calm'
    PROVE  Result(r)'
<1>0. Context(r)
  BY InContext
<1>a. Op(r)' = Op(r) /\ (at' = at => Here(r)' = Here(r))
  BY DEF Op, Here, Finish
<1>1. InFlight(r)' => pc'[r] \in Course(Op(r)')
  BY <1>0, <1>a DEF Context, Finish, scratch, database, files, Solo, Flushes, Course, Goto, End,
                    InFlight
<1>2. ~broken'[r]
  BY <1>0 DEF Context, Finish, scratch, database, files, Solo, Flushes, End, Close, Release
<1>3. InFlight(r)' => \A a \in Assets : Even(r, a)' \/ (pc'[r] \in Halfway(Op(r)') /\ a = Here(r)')
  BY <1>0, <1>a DEF Context, Finish, scratch, database, files, Solo, Flushes, Course, Halfway, Even,
                    Pending, Goto, End, Close, Release, InFlight, WithDraft, WithFiles,
                    WithRows, Clean, Saving
<1>4. InFlight(r)' => Flushes(r)'
  BY <1>0, <1>a DEF Context, Finish, scratch, database, files, Solo, Flushes, Course, Goto, End,
                    Close, Release, InFlight, Clean, WithFiles
<1>5. InFlight(r)' => WithDraft(r)'
  BY <1>0, <1>a DEF Context, Finish, scratch, database, files, Solo, Flushes, Course, Even, Pending,
                    Goto, End, Close, Release, InFlight, WithDraft, WithFiles, Clean, Saving
<1>6. InFlight(r)' => WithFiles(r)'
  BY <1>0, <1>a DEF Context, Finish, scratch, database, files, Solo, Flushes, Course, Halfway, Even,
                    Pending, Goto, End, Close, Release, InFlight, WithDraft, WithFiles,
                    Clean
<1>7. InFlight(r)' => WithRows(r)'
  BY <1>0, <1>a DEF Context, Finish, scratch, database, files, Solo, Flushes, Course, Halfway, Even,
                    Pending, Goto, End, Close, Release, InFlight, WithRows, Clean
<1>8. ~InFlight(r)' => tx'[r] = Clean /\ Level'
  BY <1>0, <1>a DEF Context, Finish, scratch, database, files, Solo, Flushes, Course, Halfway, Even,
                    Pending, Goto, End, Close, Release, InFlight, WithDraft, WithFiles,
                    WithRows, Clean, Level
<1> QED BY <1>1, <1>2, <1>3, <1>4, <1>5, <1>6, <1>7, <1>8 DEF Solo, Flushes, Result, Rests


(* A request that begins while no other is under way finds the copies level.   *)
LEMMA BeginSolo ==
    ASSUME SaveInv, NEW r \in Requests, Begin(r), Rests(r), Level
    PROVE  Result(r)'
<1>0. Context(r)
  BY InContext
<1>1. /\ tx[r] = Clean /\ tx'[r] = Clean /\ ~broken'[r] /\ Op(r)' = Op(r)
      /\ UNCHANGED <<job, rows, assetFile, planFile>>
  BY <1>0 DEF Context, Begin, Rests, session, database, files, End, Close, Release, Op
<1>2. Level'
  BY <1>1 DEF Level
<1>3. \A a \in Assets : Even(r, a)'
  <2>1. \A a \in Assets : tx'[r][a] = None
    BY <1>1 DEF Clean
  <2>2. \A a \in Assets : Pending(r, a)' = rows'[a]
    BY <1>0, <2>1 DEF Context, Pending
  <2> QED BY <1>2, <2>2 DEF Level, Even
<1>4. CASE pc'[r] = "done"
  BY <1>1, <1>2, <1>4 DEF Result, InFlight, Rests
<1>5. CASE pc'[r] = FirstLabel(Op(r))
  <2>1. Op(r) \in Operations
    BY PayloadType DEF SaveInv
  <2>2. \A a \in Assets : tx'[r][a] = None
    BY <1>1 DEF Clean
  <2> QED BY <1>1, <1>3, <1>5, <2>1, <2>2
          DEF Result, InFlight, Solo, Flushes, Course, FirstLabel, WithDraft, WithFiles, WithRows,
              Operations
<1> QED BY <1>0, <1>4, <1>5 DEF Context, Begin, Goto, End

(* What fails ends the calm; nothing fails of itself in a request that is alone.*)
LEMMA FailuresEndCalm ==
    ASSUME SaveInv, NEW r \in Requests, Solo(r), \A q \in Requests \ {r} : Rests(q),
           WriteFails(r) \/ FlushFails(r) \/ CommitFails(r)
    PROVE  ~calm'
<1>0. Awaited(r) \subseteq Assets
  BY InContext DEF Context, Awaited, Solo, Flushes, Course
<1>a. \A q \in Requests \ {r}, a \in Awaited(r) : tx[q][a] = None
  BY <1>0 DEF Rests, Clean
<1>1. ~Overtaken(r)
  BY <1>a DEF Overtaken
<1>2. ~Deadlocked(r)
  <2>1. Blockers(r) = {}
    BY <1>a DEF Blockers
  <2> QED BY <2>1 DEF Deadlocked
<1> QED BY <1>1, <1>2 DEF Solo, Flushes, WriteFails, FlushFails, CommitFails, Fault

LEMMA OneAtATimeInit == Init => OneAtATime
BY DEF Init, OneAtATime, InFlight, Rests, Level

LEMMA OneAtATimeNext == SaveInv /\ OneAtATime /\ [Next]_vars => OneAtATime'
<1> SUFFICES ASSUME SaveInv, OneAtATime, [Next]_vars, calm' PROVE OneAtATime'
  BY DEF OneAtATime
<1>1. CASE Crash
  BY <1>1 DEF Crash, Fault
<1>2. ASSUME NEW r \in Requests, Begin(r) \/ Step(r)
      PROVE  OneAtATime'
  <2>0. calm
    BY <1>2 DEF Begin, Step, Fault, history, ReadAssetFile, ReadPlanFile, DecideEdit,
                DecideReview, WritePlanFile, WriteAssetFile, WriteFails, TakeBundle,
                SyncPoints, StoreRow, DeleteRow, FlushFails, Commit, CommitFails, Scan,
                ImportFile, ImportRow, UnlinkAssetFile, UnlinkPlanFile, QueryRows, Resync,
                DecideGenerate, Finish
  <2>1. \A q \in Requests \ {r} : ~InFlight(q)
    <3>1. CASE Begin(r)
      BY <3>1 DEF Begin, InFlight
    <3>2. CASE Step(r)
      <4>1. InFlight(r)
        BY <3>2 DEF InFlight, Step, ReadAssetFile, ReadPlanFile, DecideEdit, DecideReview,
                    WritePlanFile, WriteAssetFile, WriteFails, TakeBundle, SyncPoints,
                    StoreRow, DeleteRow, FlushFails, Commit, CommitFails, Scan, ImportFile,
                    ImportRow, UnlinkAssetFile, UnlinkPlanFile, QueryRows, Resync,
                    DecideGenerate, Finish
      <4> QED BY <2>0, <4>1 DEF OneAtATime
    <3> QED BY <1>2, <3>1, <3>2
  <2>2. \A q \in Requests \ {r} : Rests(q) /\ ~InFlight(q)' /\ Rests(q)'
    BY <1>2, <2>0, <2>1, OthersKeep DEF OneAtATime, Rests, Same, InFlight, SaveInv
  <2>3. Result(r)'
    <3>1. CASE Begin(r)
      <4>1. ~InFlight(r)
        BY <3>1 DEF Begin, InFlight
      <4> QED BY <2>0, <2>1, <3>1, <4>1, BeginSolo DEF OneAtATime
    <3>2. CASE Step(r)
      <4>1. Solo(r)
        <5>1. InFlight(r)
          BY <3>2 DEF InFlight, Step, ReadAssetFile, ReadPlanFile, DecideEdit, DecideReview,
                      WritePlanFile, WriteAssetFile, WriteFails, TakeBundle, SyncPoints,
                      StoreRow, DeleteRow, FlushFails, Commit, CommitFails, Scan,
                      ImportFile, ImportRow, UnlinkAssetFile, UnlinkPlanFile, QueryRows,
                      Resync, DecideGenerate, Finish
        <5> QED BY <2>0, <5>1 DEF OneAtATime
      <4> QED BY <2>2, <3>2, <4>1, FailuresEndCalm, ReadAssetFileSolo, ReadPlanFileSolo,
                 DecideEditSolo, DecideReviewSolo, WritePlanFileSolo, WriteAssetFileSolo,
                 TakeBundleSolo, SyncPointsSolo, StoreRowSolo, DeleteRowSolo, CommitSolo, ScanSolo,
                 ImportFileSolo, ImportRowSolo, UnlinkAssetFileSolo, UnlinkPlanFileSolo,
                 QueryRowsSolo, ResyncSolo, DecideGenerateSolo, FinishSolo DEF Step
    <3> QED BY <1>2, <3>1, <3>2
  <2> QED BY <2>2, <2>3 DEF OneAtATime, Result
<1>3. CASE UNCHANGED vars
  <2>1. \A r \in Requests : Solo(r) => Solo(r)'
    BY <1>3 DEF vars, scratch, session, database, files, history, Solo, Flushes, Even, Pending,
                WithDraft, WithFiles, WithRows, Op, Here
  <2> QED BY <1>3, <2>1 DEF vars, scratch, session, database, files, history, OneAtATime,
                            InFlight, Rests, Level
<1> QED BY <1>1, <1>2, <1>3 DEF Next

(* Saves, edits, reviews, deletions, listings, generations and calls of the    *)
(* case center, in any order and any number, keep the two files and the row of *)
(* every asset the same as long as they do not overlap and nothing fails.      *)
THEOREM CalmCopiesStayTheSame == Spec => []CalmCopiesAgree
<1>1. OneAtATime => CalmCopiesAgree
  BY DEF OneAtATime, CalmCopiesAgree, Level, OnFile
<1>2. Spec => [](SaveInv /\ OneAtATime)
  BY SaveInvInit, SaveInvNext, OneAtATimeInit, OneAtATimeNext, PTL DEF Spec
<1> QED BY <1>1, <1>2, PTL
===============================================================================
