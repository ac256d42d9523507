---------------------------- MODULE TestCasesProofs ----------------------------
(* Proofs about TestCases, for every set of requests, points and jobs and for  *)
(* all bounds: types, steps that come from one flush, edits that stay in the   *)
(* version history, and what holds as long as requests do not overlap.         *)
EXTENDS TestCases, FiniteSetTheorems, TLAPS

Answers == {None, "ok", "nothing", "not_found", "conflict", "error", "lost"}

(* The labels of a request that works on a row it has loaded.                  *)
OnRow == {"number", "deleteSteps", "blocked", "commit", "refresh", "refreshNew", "addVersion", "unlink"}

(* What a request has at its label: its point, its case, its version number;   *)
(* and the version of a script that it was told is stored.                     *)
Kept(r) ==
    answer[r] = "ok" /\ Op(r) \in {"script", "edit"} =>
        /\ number[r] \in Numbers /\ loaded[r] \in Case
        /\ Present(r) => \E v \in rows[number[r]].versions : v.script = Mine(r)

Fits(r) ==
    /\ Op(r) = "generate" => at[r] \in 1..Len(job[r].points)
    /\ pc[r] \in {"lookup", "collect", "compile", "write", "match", "sync", "refresh"} => Op(r) = "generate"
    /\ pc[r] \in {"insert", "refreshNew", "addVersion"} => Op(r) \in {"generate", "create"}
    /\ pc[r] = "resolve" => Op(r) = "create"
    /\ pc[r] \in {"deleteSteps", "blocked"} => Op(r) # "status"
    /\ pc[r] = "unlink" => Op(r) = "delete"
    /\ pc[r] \in {"write", "match", "sync", "insert"} => number[r] \in Numbers
    /\ pc[r] \in {"write", "match", "sync"} => path[r] \in Numbers
    /\ pc[r] \in OnRow => number[r] \in Numbers /\ loaded[r] \in Case
    /\ \/ pc[r] \in {"refreshNew", "addVersion"}
       \/ pc[r] = "commit" /\ Op(r) \in {"script", "edit", "status"}
       \/ pc[r] \in {"deleteSteps", "blocked"} /\ Op(r) = "edit"
       => no[r] \in 1..MaxVersion
    /\ answer[r] # None => pc[r] = "done"

(* Primary keys are given out in order.                                        *)
Keys ==
    /\ \A n \in Numbers : rows[n] # None => rows[n].id <= serial
    /\ \A r \in Requests : loaded[r] # None => loaded[r].id <= serial

Inv == TypeOK /\ Keys /\ StepsFromOneFlush /\ \A r \in Requests : Fits(r) /\ Kept(r)
-------------------------------------------------------------------------------
(* The payload of a request.                                                   *)
LEMMA PayloadType ==
    ASSUME TypeOK, NEW r \in Requests
    PROVE  /\ Op(r) \in Operations /\ job[r].number \in Numbers /\ job[r].points \in Seq(Points)
           /\ Op(r) = "generate" => job[r].points # << >>
BY CasesAssumption DEF TypeOK, JobShape, Op

(* What a request writes.                                                      *)
LEMMA MineType ==
    ASSUME TypeOK, NEW r \in Requests,
           Op(r) = "generate" => at[r] \in 1..Len(job[r].points),
           Op(r) \in {"generate", "create"} \/ loaded[r] \in Case
    PROVE  Mine(r) \in Content
<1>1. CASE Op(r) = "generate"
  BY <1>1, PayloadType DEF Mine, Content, Point
<1>2. CASE Op(r) = "create"
  BY <1>2 DEF Mine, Content
<1>3. CASE Op(r) \notin {"generate", "create"}
  BY <1>3 DEF Mine, Content, Case
<1> QED BY <1>1, <1>2, <1>3

LEMMA InvInit == Init => Inv
<1> SUFFICES ASSUME Init PROVE Inv
  OBVIOUS
<1>1. 1 \in Numbers /\ 1 \in 1..MaxVersion
  BY CasesAssumption DEF Numbers
<1>2. \A p \in Points : ReadyCase(p) \in Case /\ Ready(p) \in Content /\ ReadyCase(p).id = 1
                       /\ Written(Ready(p)) \in StepRows /\ ReadyCase(p).steps = {Written(Ready(p))}
  BY <1>1 DEF ReadyCase, Ready, Written, Case, Content, StepRows, Versions
<1>3. PICK p \in Beforehand \cup {None} :
         /\ rows = [n \in Numbers |-> IF n = 1 /\ p # None THEN ReadyCase(p) ELSE None]
         /\ files = [n \in Numbers |-> IF n = 1 /\ p # None THEN Ready(p) ELSE None]
  BY DEF Init
<1>4. p # None => p \in Points
  BY CasesAssumption
<1>5. TypeOK
  BY <1>2, <1>3, <1>4, CasesAssumption DEF Init, TypeOK, Labels
<1>6. Keys
  BY <1>2, <1>3, <1>4 DEF Init, Keys
<1>7. StepsFromOneFlush
  BY <1>2, <1>3, <1>4 DEF StepsFromOneFlush, Stored
<1>8. \A r \in Requests : Op(r) = "generate" => 1 \in 1..Len(job[r].points)
  <2> SUFFICES ASSUME NEW r \in Requests, Op(r) = "generate" PROVE 1 \in 1..Len(job[r].points)
    OBVIOUS
  <2>1. job[r].points \in Seq(Points) /\ job[r].points # << >>
    BY <1>5, PayloadType
  <2> QED BY <2>1
<1>9. \A r \in Requests : Fits(r) /\ Kept(r)
  BY <1>8, CasesAssumption DEF Init, Fits, Kept, OnRow
<1> QED BY <1>5, <1>6, <1>7, <1>9 DEF Inv
-------------------------------------------------------------------------------
(* The end of a request, and the next point of a generation.                   *)
LEMMA EndType ==
    ASSUME TypeOK, NEW r \in Requests, NEW value \in Answers, End(r, value)
    PROVE  /\ pc' \in [Requests -> Labels] /\ pc'[r] = "done"
           /\ answer' \in [Requests -> Answers] /\ answer'[r] = value
           /\ locked' \in [Requests -> Nat \cup {None}]
BY DEF TypeOK, End, Goto, Release, Labels, Answers

LEMMA NextPointType ==
    ASSUME TypeOK, NEW r \in Requests, NEW done \in BOOLEAN, NextPoint(r, done),
           Op(r) = "generate", at[r] \in 1..Len(job[r].points), answer[r] # None => pc[r] = "done"
    PROVE  /\ pc' \in [Requests -> Labels] /\ pc'[r] \in {"lookup", "done"}
           /\ answer' \in [Requests -> Answers] /\ (pc'[r] = "lookup" => answer'[r] = answer[r])
           /\ locked' \in [Requests -> Nat \cup {None}]
           /\ at' \in [Requests -> Nat \ {0}] /\ at'[r] \in 1..Len(job[r].points)
           /\ made' \in [Requests -> BOOLEAN]
<1>1. Len(job[r].points) \in Nat
  BY PayloadType
<1>2. CASE at[r] < Len(job[r].points)
  <2>1. /\ at' = [at EXCEPT ![r] = at[r] + 1] /\ Goto(r, "lookup") /\ Release(r)
        /\ UNCHANGED answer /\ made' = [made EXCEPT ![r] = done]
    BY <1>2 DEF NextPoint
  <2>2. at' \in [Requests -> Nat \ {0}] /\ at'[r] \in 1..Len(job[r].points)
    BY <1>1, <1>2, <2>1 DEF TypeOK
  <2>3. pc' \in [Requests -> Labels] /\ pc'[r] = "lookup"
    BY <2>1 DEF TypeOK, Goto, Labels
  <2> QED BY <2>1, <2>2, <2>3 DEF TypeOK, Release, Answers
<1>3. CASE ~(at[r] < Len(job[r].points))
  <2>1. PICK value \in {"ok", "nothing"} : End(r, value)
    BY <1>3 DEF NextPoint
  <2> QED BY <1>3, <2>1, EndType DEF NextPoint, TypeOK, Answers
<1> QED BY <1>2, <1>3
-------------------------------------------------------------------------------
(* One lemma per action: types, keys, and what its request has.                *)
LEMMA BeginKeeps ==
    ASSUME Inv, NEW r \in Requests, Begin(r)
    PROVE  TypeOK' /\ Keys' /\ Fits(r)'
<1>a. Op(r) \in Operations
  BY PayloadType DEF Inv
<1>1. TypeOK'
  BY DEF Begin, choice, session, database, history, Goto, FirstLabel, Labels, Inv, TypeOK
<1>2. Keys'
  BY DEF Begin, choice, session, database, history, Inv, Keys
<1>3. Fits(r)'
  BY <1>a, CasesAssumption DEF Begin, choice, session, database, history, Goto, FirstLabel,
                               Operations, Inv, TypeOK, Fits, Op, OnRow
<1> QED BY <1>1, <1>2, <1>3

LEMMA LookupKeeps ==
    ASSUME Inv, NEW r \in Requests, Lookup(r)
    PROVE  TypeOK' /\ Keys' /\ Fits(r)'
<1>1. TypeOK'
  BY DEF Lookup, choice, session, database, history, Goto, Labels, Inv, TypeOK, CasesOf, Stored
<1>2. Keys'
  BY DEF Lookup, choice, session, database, history, Inv, Keys
<1>3. Fits(r)'
  BY DEF Lookup, choice, session, database, history, Goto, Inv, TypeOK, Fits, Op, OnRow, CasesOf,
         Stored
<1> QED BY <1>1, <1>2, <1>3

LEMMA CollectKeeps ==
    ASSUME Inv, NEW r \in Requests, Collect(r)
    PROVE  TypeOK' /\ Keys' /\ Fits(r)'
<1>1. TypeOK'
  BY DEF Collect, choice, session, database, history, Goto, Labels, Inv, TypeOK, Stored, OnDisk
<1>2. Keys'
  BY DEF Collect, choice, session, database, history, Inv, Keys
<1>3. Fits(r)'
  BY DEF Collect, choice, session, database, history, Goto, Inv, TypeOK, Fits, Op, OnRow, Stored,
         OnDisk
<1> QED BY <1>1, <1>2, <1>3

LEMMA RejectKeeps ==
    ASSUME Inv, NEW r \in Requests, Reject(r)
    PROVE  TypeOK' /\ Keys' /\ Fits(r)'
<1>1. NextPoint(r, made[r]) /\ made[r] \in BOOLEAN
  BY DEF Reject, choice, session, database, history, Inv, TypeOK
<1>2. Op(r) = "generate" /\ at[r] \in 1..Len(job[r].points) /\ (answer[r] # None => pc[r] = "done")
  BY DEF Reject, choice, session, database, history, Inv, Fits
<1> DEFINE N == /\ pc' \in [Requests -> Labels] /\ pc'[r] \in {"lookup", "done"}
                /\ answer' \in [Requests -> Answers] /\ (pc'[r] = "lookup" => answer'[r] = answer[r])
                /\ locked' \in [Requests -> Nat \cup {None}]
                /\ at' \in [Requests -> Nat \ {0}] /\ at'[r] \in 1..Len(job[r].points)
                /\ made' \in [Requests -> BOOLEAN]
<1>3. N
  BY <1>1, <1>2, NextPointType DEF Inv
<1>4. TypeOK'
  BY <1>3 DEF Reject, choice, session, database, history, Inv, TypeOK, Answers
<1>5. Keys'
  BY DEF Reject, choice, session, database, history, Inv, Keys
<1>6. Fits(r)'
  BY <1>2, <1>3 DEF Reject, Fits, Op, OnRow
<1> QED BY <1>4, <1>5, <1>6

LEMMA AllocateKeeps ==
    ASSUME Inv, NEW r \in Requests, Allocate(r)
    PROVE  TypeOK' /\ Keys' /\ Fits(r)'
<1>1. TypeOK'
  BY DEF Allocate, choice, session, database, history, Goto, Labels, Inv, TypeOK
<1>2. Keys'
  BY DEF Allocate, choice, session, database, history, Inv, Keys
<1>3. Fits(r)'
  BY DEF Allocate, choice, session, database, history, Goto, Inv, TypeOK, Fits, Op, OnRow
<1> QED BY <1>1, <1>2, <1>3

LEMMA WriteFileKeeps ==
    ASSUME Inv, NEW r \in Requests, WriteFile(r)
    PROVE  TypeOK' /\ Keys' /\ Fits(r)'
<1>1. Mine(r) \in Content /\ path[r] \in Numbers
  BY MineType DEF WriteFile, choice, session, database, history, Inv, Fits
<1>2. TypeOK'
  BY <1>1 DEF WriteFile, choice, session, database, history, Goto, Labels, Inv, TypeOK
<1>3. Keys'
  BY DEF WriteFile, choice, session, database, history, Inv, Keys
<1>4. loaded[r] # None => loaded[r] \in Case
  BY DEF Inv, TypeOK
<1>5. Fits(r)'
  BY <1>4 DEF WriteFile, choice, session, database, history, Goto, Inv, TypeOK, Fits, Op, OnRow
<1> QED BY <1>2, <1>3, <1>5

LEMMA MatchKeeps ==
    ASSUME Inv, NEW r \in Requests, Match(r)
    PROVE  TypeOK' /\ Keys' /\ Fits(r)'
<1>1. PICK n \in Numbers : /\ number' = [number EXCEPT ![r] = n]
                          /\ \/ loaded' = [loaded EXCEPT ![r] = None]
                             \/ rows[n] # None /\ loaded' = [loaded EXCEPT ![r] = rows[n]]
  BY DEF Match, choice, session, database, history, Inv, TypeOK, Fits, CasesOf, Stored
<1>2. loaded' \in [Requests -> Case \cup {None}] /\ number' \in [Requests -> Numbers \cup {None}]
  BY <1>1 DEF Inv, TypeOK
<1>3. TypeOK'
  BY <1>2 DEF Match, choice, session, database, history, Goto, Labels, Inv, TypeOK
<1>4. Keys'
  BY <1>1 DEF Match, choice, session, database, history, Inv, TypeOK, Keys
<1>5. Fits(r)'
  BY <1>1, <1>2 DEF Match, choice, session, database, history, Goto, Inv, TypeOK, Fits, Op, OnRow
<1> QED BY <1>3, <1>4, <1>5

LEMMA LoadKeeps ==
    ASSUME Inv, NEW r \in Requests, Load(r)
    PROVE  TypeOK' /\ Keys' /\ Fits(r)'
<1>1. job[r].number \in Numbers /\ Op(r) \in Operations
  BY PayloadType DEF Inv
<1>3. TypeOK'
  BY <1>1 DEF Load, choice, session, database, history, Goto, Labels, Inv, TypeOK
<1>4. Keys'
  BY <1>1 DEF Load, choice, session, database, history, Inv, TypeOK, Keys
<1>5. Fits(r)'
  BY <1>1 DEF Load, choice, session, database, history, Goto, Inv, TypeOK, Fits, Op, OnRow
<1> QED BY <1>3, <1>4, <1>5

LEMMA ResolveKeeps ==
    ASSUME Inv, NEW r \in Requests, Resolve(r)
    PROVE  TypeOK' /\ Keys' /\ Fits(r)'
<1>1. job[r].number \in Numbers
  BY PayloadType DEF Inv
<1>2. TypeOK'
  BY <1>1 DEF Resolve, choice, session, database, history, Goto, Labels, Inv, TypeOK
<1>3. Keys'
  BY DEF Resolve, choice, session, database, history, Inv, Keys
<1>4. Fits(r)'
  BY <1>1 DEF Resolve, choice, session, database, history, Goto, Inv, TypeOK, Fits, Op, OnRow
<1> QED BY <1>2, <1>3, <1>4

LEMMA ReadVersionNoKeeps ==
    ASSUME Inv, NEW r \in Requests, ReadVersionNo(r)
    PROVE  TypeOK' /\ Keys' /\ Fits(r)'
<1>1. TypeOK'
  BY DEF ReadVersionNo, choice, session, database, history, Goto, Labels, Inv, TypeOK, Present
<1>2. Keys'
  BY DEF ReadVersionNo, choice, session, database, history, Inv, Keys
<1>3. Fits(r)'
  BY DEF ReadVersionNo, choice, session, database, history, Goto, Inv, TypeOK, Fits, Op, OnRow,
         Present
<1> QED BY <1>1, <1>2, <1>3

LEMMA DeleteStepsKeeps ==
    ASSUME Inv, NEW r \in Requests, DeleteSteps(r)
    PROVE  TypeOK' /\ Keys' /\ Fits(r)'
<1>1. loaded[r] \in Case /\ number[r] \in Numbers
  BY DEF DeleteSteps, choice, session, database, history, Inv, Fits, OnRow
<1>2. Present(r) => rows[number[r]].steps \in SUBSET StepRows
  BY <1>1 DEF Present, Inv, TypeOK, Case
<1>3. covered' \in [Requests -> SUBSET StepRows]
  BY <1>2 DEF DeleteSteps, choice, session, database, history, Inv, TypeOK
<1>4. locked' \in [Requests -> Nat \cup {None}] /\ pc' \in [Requests -> Labels]
  BY <1>1 DEF DeleteSteps, choice, session, database, history, Deleted, Goto, Labels, Inv,
              TypeOK, Case
<1>5. TypeOK'
  BY <1>3, <1>4 DEF DeleteSteps, choice, session, database, history, Inv, TypeOK
<1>6. Keys'
  BY DEF DeleteSteps, choice, session, database, history, Inv, Keys
<1>7. Fits(r)'
  BY DEF DeleteSteps, choice, session, database, history, Deleted, Goto, Inv, TypeOK, Fits, Op,
         OnRow
<1> QED BY <1>5, <1>6, <1>7

LEMMA UnblockKeeps ==
    ASSUME Inv, NEW r \in Requests, Unblock(r)
    PROVE  TypeOK' /\ Keys' /\ Fits(r)'
<1>1. loaded[r] \in Case /\ number[r] \in Numbers
  BY DEF Unblock, choice, session, database, history, Inv, Fits, OnRow
<1>2. locked' \in [Requests -> Nat \cup {None}] /\ pc' \in [Requests -> Labels]
  BY <1>1 DEF Unblock, choice, session, database, history, Deleted, Goto, Labels, Inv, TypeOK, Case
<1>3. TypeOK'
  BY <1>2 DEF Unblock, choice, session, database, history, Inv, TypeOK
<1>4. Keys'
  BY DEF Unblock, choice, session, database, history, Inv, Keys
<1>5. Fits(r)'
  BY DEF Unblock, choice, session, database, history, Deleted, Goto, Inv, TypeOK, Fits, Op, OnRow
<1> QED BY <1>3, <1>4, <1>5

LEMMA InsertCaseKeeps ==
    ASSUME Inv, NEW r \in Requests, InsertCase(r)
    PROVE  TypeOK' /\ Keys' /\ Fits(r)'
<1>1. /\ number[r] \in Numbers /\ Op(r) \in {"generate", "create"}
      /\ Op(r) = "generate" => at[r] \in 1..Len(job[r].points)
  BY DEF InsertCase, choice, session, database, history, Inv, Fits
<1>2. Mine(r) \in Content
  BY <1>1, MineType DEF Inv
<1>3. CASE number[r] \in Stored
  <2>1. End(r, "error") /\ UNCHANGED <<job, at, made, choice, loaded, covered, no, database, files, history>>
    BY <1>3 DEF InsertCase
  <2> QED BY <2>1, EndType DEF Inv, TypeOK, Keys, Fits, Op, OnRow, Answers, choice, database,
                               history
<1>4. CASE number[r] \notin Stored
  <2> DEFINE new == [id |-> serial + 1, script |-> Mine(r), steps |-> {Written(Mine(r))}, versions |-> {}]
  <2>1. new \in Case
    BY <1>2 DEF Inv, TypeOK, Case, Written, StepRows, Content
  <2>2. /\ rows' = [rows EXCEPT ![number[r]] = new] /\ serial' = serial + 1
        /\ loaded' = [loaded EXCEPT ![r] = new] /\ no' = [no EXCEPT ![r] = 1]
        /\ Goto(r, "refreshNew")
        /\ UNCHANGED <<answer, locked, job, at, made, choice, covered, files, history>>
    BY <1>4 DEF InsertCase
  <2>3. 1 \in 1..MaxVersion /\ serial \in Nat
    BY CasesAssumption DEF Inv, TypeOK
  <2>4. TypeOK'
    <3> HIDE DEF new
    <3> QED BY <2>1, <2>2, <2>3, <1>1 DEF Goto, Labels, Inv, TypeOK, choice, history
  <2>5. new.id = serial + 1
    OBVIOUS
  <2>6. \A c \in Case : c.id \in Nat
    BY DEF Case
  <2>7. \A n \in Numbers : rows'[n] # None => rows'[n].id <= serial'
    <3> HIDE DEF new
    <3> QED BY <2>2, <2>3, <2>5, <2>6 DEF Inv, TypeOK, Keys
  <2>8. \A q \in Requests : loaded'[q] # None => loaded'[q].id <= serial'
    <3> HIDE DEF new
    <3> QED BY <2>2, <2>3, <2>5, <2>6 DEF Inv, TypeOK, Keys
  <2>9. Fits(r)'
    <3>1. pc'[r] = "refreshNew" /\ loaded'[r] = new /\ no'[r] = 1
      BY <2>2 DEF Goto, Inv, TypeOK
    <3>2. answer'[r] = None
      BY <2>2 DEF InsertCase, Inv, Fits
    <3> HIDE DEF new
    <3> QED BY <1>1, <2>1, <2>2, <2>3, <3>1, <3>2 DEF Fits, Op, OnRow, choice
  <2> QED BY <2>4, <2>7, <2>8, <2>9 DEF Keys
<1> QED BY <1>3, <1>4

(* What a commit makes of a row is a row, with the same key and a script's      *)
(* steps of one flush.                                                         *)
LEMMA UpdatedType ==
    ASSUME Inv, NEW r \in Requests, pc[r] = "commit", Op(r) # "delete", Present(r), ~Collides(r)
    PROVE  /\ Updated(r) \in Case /\ Updated(r).id = rows[number[r]].id
           /\ rows[number[r]].versions \subseteq Updated(r).versions
           /\ \E s \in StepRows : Updated(r).steps = {s}
           /\ Op(r) \in {"script", "edit"} => \E v \in Updated(r).versions : v.script = Mine(r)
<1>1. /\ number[r] \in Numbers /\ loaded[r] \in Case
      /\ Op(r) = "generate" => at[r] \in 1..Len(job[r].points)
      /\ Op(r) \in {"script", "edit", "status"} => no[r] \in 1..MaxVersion
  BY DEF Inv, Fits, OnRow
<1>2. Mine(r) \in Content
  BY <1>1, MineType DEF Inv
<1> DEFINE old == rows[number[r]]
<1>3. old \in Case /\ number[r] \in Stored
  BY <1>1 DEF Inv, TypeOK, Present, Stored
<1>4. loaded[r].script \in Content /\ old.script \in Content /\ old.id \in Nat
      /\ old.steps \in SUBSET StepRows /\ old.versions \in SUBSET Versions
  BY <1>1, <1>3 DEF Case
<1>5. NewSteps(r) \in StepRows
  BY <1>2, <1>4 DEF NewSteps, StepRows
<1>6. Op(r) \in {"script", "edit", "status"} =>
         NewVersion(r) \in Versions /\ (Op(r) # "status" => NewVersion(r).script = Mine(r))
  BY <1>1, <1>2, <1>4 DEF NewVersion, Versions
<1>7. \E s \in StepRows : old.steps = {s}
  BY <1>3 DEF Inv, StepsFromOneFlush
<1>8. Op(r) # "status" => StepsLeft(r) \cup {NewSteps(r)} = {NewSteps(r)}
  BY DEF Collides
<1>9. Script(r) \in Content
  BY <1>2, <1>4 DEF Script
<1> DEFINE steps == IF Op(r) = "status" THEN old.steps ELSE StepsLeft(r) \cup {NewSteps(r)}
           versions == IF Op(r) \in {"script", "edit", "status"} THEN old.versions \cup {NewVersion(r)}
                       ELSE old.versions
<1>10. steps \in SUBSET StepRows /\ \E s \in StepRows : steps = {s}
  BY <1>5, <1>7, <1>8
<1>11. /\ versions \in SUBSET Versions /\ old.versions \subseteq versions
       /\ Op(r) \in {"script", "edit"} => \E v \in versions : v.script = Mine(r)
  BY <1>4, <1>6
<1>12. Updated(r) = [id |-> old.id, script |-> Script(r), steps |-> steps, versions |-> versions]
  BY DEF Updated
<1> HIDE DEF old, steps, versions
<1>13. Updated(r) \in Case
  BY <1>4, <1>9, <1>10, <1>11, <1>12 DEF Case
<1> QED BY <1>10, <1>11, <1>12, <1>13 DEF old

(* What AddVersion makes of a row.                                             *)
LEMMA VersionedType ==
    ASSUME Inv, NEW r \in Requests, pc[r] = "addVersion", Present(r)
    PROVE  LET old == rows[number[r]]
               new == [old EXCEPT !.versions = @ \cup {NewVersion(r)}]
           IN  /\ number[r] \in Stored /\ new \in Case /\ new.id = old.id /\ new.steps = old.steps
               /\ old.versions \subseteq new.versions
<1>1. /\ number[r] \in Numbers /\ loaded[r] \in Case /\ no[r] \in 1..MaxVersion
      /\ Op(r) \in {"generate", "create"} /\ (Op(r) = "generate" => at[r] \in 1..Len(job[r].points))
  BY DEF Inv, Fits, OnRow
<1>2. rows[number[r]] \in Case /\ number[r] \in Stored
  BY <1>1 DEF Inv, TypeOK, Present, Stored
<1>3. NewVersion(r) \in Versions
  BY <1>1 DEF NewVersion, Versions, Case
<1> QED BY <1>2, <1>3 DEF Case

LEMMA CommitUpdateKeeps ==
    ASSUME Inv, NEW r \in Requests, CommitUpdate(r)
    PROVE  TypeOK' /\ Keys' /\ Fits(r)'
<1>1. number[r] \in Numbers /\ loaded[r] \in Case
  BY DEF CommitUpdate, choice, session, database, history, Inv, Fits, OnRow
<1>2. CASE ~Present(r) \/ Collides(r)
  <2>1. End(r, "error") /\ UNCHANGED <<job, at, made, choice, loaded, covered, no, database, files, history>>
    BY <1>2 DEF CommitUpdate, database
  <2> QED BY <2>1, EndType DEF Inv, TypeOK, Keys, Fits, Op, OnRow, Answers, choice, database,
                               history
<1>3. CASE Present(r) /\ ~Collides(r)
  <2>1. /\ rows' = [rows EXCEPT ![number[r]] = Updated(r)]
        /\ UNCHANGED <<job, at, made, choice, loaded, covered, no, serial, files, history>>
    BY <1>3 DEF CommitUpdate
  <2>2. Updated(r) \in Case /\ Updated(r).id = rows[number[r]].id
    BY <1>3, UpdatedType DEF CommitUpdate
  <2>3. /\ pc' \in [Requests -> Labels] /\ answer' \in [Requests -> Answers]
        /\ locked' \in [Requests -> Nat \cup {None}]
        /\ \/ pc'[r] = "done"
           \/ pc'[r] = "refresh" /\ Op(r) = "generate" /\ UNCHANGED answer
    <3>1. CASE Op(r) = "generate"
      BY <1>3, <3>1 DEF CommitUpdate, choice, session, database, history, Goto, Release, Labels,
                        Inv, TypeOK, Answers
    <3>2. CASE Op(r) # "generate"
      <4>1. End(r, "ok")
        BY <1>3, <3>2 DEF CommitUpdate
      <4> QED BY <4>1, EndType DEF Inv, Answers
    <3> QED BY <3>1, <3>2
  <2>4. rows' \in [Numbers -> Case \cup {None}]
    BY <1>1, <2>1, <2>2 DEF Inv, TypeOK
  <2>5. TypeOK'
    BY <2>1, <2>3, <2>4 DEF Inv, TypeOK, Answers, choice, history
  <2>6. Keys'
    BY <1>1, <1>3, <2>1, <2>2 DEF Inv, TypeOK, Keys, Present
  <2>7. Fits(r)'
    BY <1>1, <2>1, <2>3 DEF CommitUpdate, choice, session, database, history, Inv, Fits, Op, OnRow
  <2> QED BY <2>5, <2>6, <2>7
<1> QED BY <1>2, <1>3

LEMMA RefreshKeeps ==
    ASSUME Inv, NEW r \in Requests, Refresh(r)
    PROVE  TypeOK' /\ Keys' /\ Fits(r)'
<1>1. number[r] \in Numbers /\ loaded[r] \in Case
  BY DEF Refresh, choice, session, database, history, Inv, Fits, OnRow
<1>2. CASE ~Present(r)
  <2>1. End(r, "error") /\ UNCHANGED <<job, at, made, choice, loaded, covered, no, database, files, history>>
    BY <1>2 DEF Refresh
  <2> QED BY <2>1, EndType DEF Inv, TypeOK, Keys, Fits, Op, OnRow, Answers, choice, database,
                               history
<1>3. CASE Present(r)
  <2>1. rows[number[r]] \in Case /\ rows[number[r]] # None
    BY <1>1, <1>3 DEF Present, Inv, TypeOK
  <2>2. TypeOK'
    BY <1>3, <2>1 DEF Refresh, choice, session, database, history, Goto, Labels, Inv, TypeOK
  <2>3. Keys'
    BY <1>1, <1>3, <2>1 DEF Refresh, choice, session, database, history, Inv, TypeOK, Keys
  <2>4. Fits(r)'
    BY <1>1, <1>3, <2>1 DEF Refresh, choice, session, database, history, Goto, Inv, TypeOK, Fits,
                            Op, OnRow
  <2> QED BY <2>2, <2>3, <2>4
<1> QED BY <1>2, <1>3

LEMMA AddVersionKeeps ==
    ASSUME Inv, NEW r \in Requests, AddVersion(r)
    PROVE  TypeOK' /\ Keys' /\ Fits(r)'
<1>1. /\ number[r] \in Numbers /\ loaded[r] \in Case /\ Op(r) \in {"generate", "create"}
      /\ Op(r) = "generate" => at[r] \in 1..Len(job[r].points)
      /\ answer[r] # None => pc[r] = "done"
  BY DEF AddVersion, choice, session, database, history, Inv, Fits, OnRow
<1>2. CASE ~Present(r)
  <2>1. End(r, "error") /\ UNCHANGED <<job, at, made, choice, loaded, covered, no, database, files, history>>
    BY <1>2 DEF AddVersion, database
  <2> QED BY <2>1, EndType DEF Inv, TypeOK, Keys, Fits, Op, OnRow, Answers, choice, database,
                               history
<1>3. CASE Present(r)
  <2> DEFINE new == [rows[number[r]] EXCEPT !.versions = @ \cup {NewVersion(r)}]
  <2>1. /\ rows' = [rows EXCEPT ![number[r]] = new]
        /\ UNCHANGED <<job, choice, loaded, covered, no, serial, files, history>>
    BY <1>3 DEF AddVersion
  <2>2. new \in Case /\ new.id = rows[number[r]].id
    BY <1>3, VersionedType DEF AddVersion
  <2>3. /\ pc' \in [Requests -> Labels] /\ answer' \in [Requests -> Answers]
        /\ locked' \in [Requests -> Nat \cup {None}]
        /\ at' \in [Requests -> Nat \ {0}] /\ made' \in [Requests -> BOOLEAN]
        /\ Op(r) = "generate" => at'[r] \in 1..Len(job[r].points)
        /\ \/ pc'[r] = "done"
           \/ pc'[r] = "lookup" /\ Op(r) = "generate" /\ answer'[r] = answer[r]
    <3>1. CASE Op(r) = "generate"
      <4>1. NextPoint(r, TRUE)
        BY <1>3, <3>1 DEF AddVersion
      <4> QED BY <1>1, <3>1, <4>1, NextPointType DEF Inv
    <3>2. CASE Op(r) # "generate"
      <4>1. End(r, "ok") /\ UNCHANGED <<at, made>>
        BY <1>3, <3>2 DEF AddVersion
      <4> QED BY <3>2, <4>1, EndType DEF Inv, TypeOK, Answers
    <3> QED BY <3>1, <3>2
  <2> HIDE DEF new
  <2>4. TypeOK'
    BY <1>1, <2>1, <2>2, <2>3 DEF Inv, TypeOK, Answers, choice, history
  <2>5. Keys'
    BY <1>1, <1>3, <2>1, <2>2 DEF Inv, TypeOK, Keys, Present
  <2>6. Fits(r)'
    BY <1>1, <2>1, <2>3 DEF AddVersion, choice, session, database, history, Inv, Fits, Op, OnRow
  <2> QED BY <2>4, <2>5, <2>6
<1> QED BY <1>2, <1>3

LEMMA CommitDeleteKeeps ==
    ASSUME Inv, NEW r \in Requests, CommitDelete(r)
    PROVE  TypeOK' /\ Keys' /\ Fits(r)'
<1>1. number[r] \in Numbers /\ loaded[r] \in Case
  BY DEF CommitDelete, choice, session, database, history, Inv, Fits, OnRow
<1>2. rows' \in [Numbers -> Case \cup {None}] /\ \A n \in Numbers : rows'[n] \in {rows[n], None}
  BY DEF CommitDelete, choice, session, database, history, Inv, TypeOK
<1>3. TypeOK'
  BY <1>2 DEF CommitDelete, choice, session, database, history, Goto, Release, Labels, Inv, TypeOK
<1>4. Keys'
  BY <1>2 DEF CommitDelete, choice, session, database, history, Inv, Keys
<1>5. Fits(r)'
  BY <1>1 DEF CommitDelete, choice, session, database, history, Goto, Inv, TypeOK, Fits, Op, OnRow
<1> QED BY <1>3, <1>4, <1>5

LEMMA UnlinkKeeps ==
    ASSUME Inv, NEW r \in Requests, Unlink(r)
    PROVE  TypeOK' /\ Keys' /\ Fits(r)'
<1>1. End(r, "ok")
  BY DEF Unlink
<1>2. TypeOK'
  BY <1>1, EndType DEF Unlink, choice, session, database, history, Inv, TypeOK, Answers
<1>3. Keys'
  BY DEF Unlink, choice, session, database, history, Inv, Keys
<1>4. Fits(r)'
  BY <1>1, EndType DEF Unlink, choice, session, database, history, Inv, TypeOK, Fits, Op, OnRow,
                       Answers
<1> QED BY <1>2, <1>3, <1>4

LEMMA FaultType ==
    ASSUME TypeOK, Fault
    PROVE  calm' \in BOOLEAN /\ faults' \in 0..MaxFaults
<1>1. MaxFaults \in Nat /\ faults \in 0..MaxFaults
  BY CasesAssumption DEF TypeOK
<1>2. faults < MaxFaults /\ faults' = faults + 1 /\ calm' = FALSE
  BY DEF Fault
<1>3. faults' \in 0..MaxFaults
  BY <1>1, <1>2
<1> QED BY <1>2, <1>3

LEMMA FailsKeeps ==
    ASSUME Inv, NEW r \in Requests, Fails(r)
    PROVE  TypeOK' /\ Keys' /\ Fits(r)'
<1>1. calm' \in BOOLEAN /\ faults' \in 0..MaxFaults
  BY FaultType DEF Fails, Inv
<1>2. CASE pc[r] = "sync"
  <2>1. pc' \in [Requests -> Labels] /\ answer' \in [Requests -> Answers]
        /\ locked' \in [Requests -> Nat \cup {None}]
        /\ pc'[r] \in {"insert", "deleteSteps"} /\ (pc'[r] = "deleteSteps" => loaded[r] # None)
    BY <1>2 DEF Fails, choice, session, database, history, Goto, Labels, Inv, TypeOK, Answers
  <2>2. Fits(r)'
    BY <1>2, <2>1 DEF Fails, choice, session, database, history, Inv, TypeOK, Fits, Op, OnRow
  <2>3. TypeOK'
    BY <1>1, <2>1 DEF Fails, choice, session, database, history, Inv, TypeOK, Answers
  <2>4. Keys'
    BY DEF Fails, choice, session, database, history, Inv, Keys
  <2> QED BY <2>2, <2>3, <2>4
<1>3. CASE pc[r] # "sync"
  <2>1. End(r, "error") /\ UNCHANGED <<job, at, made, choice, loaded, covered, no, database, files>>
    BY <1>3 DEF Fails
  <2> QED BY <1>1, <2>1, EndType DEF Inv, TypeOK, Keys, Fits, Op, OnRow, Answers, choice, database
<1> QED BY <1>2, <1>3

LEMMA CrashKeeps ==
    ASSUME Inv, Crash
    PROVE  TypeOK' /\ Keys' /\ \A r \in Requests : Fits(r)'
<1>1. calm' \in BOOLEAN /\ faults' \in 0..MaxFaults
  BY FaultType DEF Crash, Inv
<1>2. /\ pc' \in [Requests -> Labels] /\ answer' \in [Requests -> Answers]
      /\ locked' \in [Requests -> Nat \cup {None}]
      /\ \A r \in Requests : pc'[r] = "done" \/ (pc'[r] = pc[r] /\ answer'[r] = answer[r])
  BY DEF Crash, Inv, TypeOK, Labels, Answers
<1>3. TypeOK'
  BY <1>1, <1>2 DEF Crash, Inv, TypeOK, Answers, choice, database
<1>4. Keys'
  BY DEF Crash, Inv, Keys, database
<1>5. \A r \in Requests : Fits(r)'
  BY <1>2 DEF Crash, Inv, Fits, Op, OnRow, choice, database
<1> QED BY <1>3, <1>4, <1>5
-------------------------------------------------------------------------------
(* What a step does to the rows: a row that goes on existing keeps its         *)
(* versions, another one has a new key; the steps are of one flush.            *)
RowStep ==
    /\ serial <= serial'
    /\ \A n \in Numbers :
         \/ rows'[n] = None
         \/ /\ \E s \in StepRows : rows'[n].steps = {s}
            /\ \/ rows'[n].id > serial
               \/ /\ rows[n] # None /\ rows'[n].id = rows[n].id
                  /\ rows[n].versions \subseteq rows'[n].versions

(* What the steps of others leave to a request.                                *)
Same(q) == UNCHANGED <<job, pc[q], answer[q], at[q], number[q], path[q], loaded[q], no[q]>>

LEMMA RowsStay ==
    ASSUME Inv, UNCHANGED database
    PROVE  RowStep
<1>1. serial \in Nat /\ \A n \in Numbers : rows[n] # None => n \in Stored
  BY DEF Inv, TypeOK, Stored
<1> QED BY <1>1 DEF RowStep, database, Inv, StepsFromOneFlush

LEMMA RowStepKeepsSteps ==
    ASSUME RowStep
    PROVE  StepsFromOneFlush'
BY DEF RowStep, StepsFromOneFlush, Stored

(* A request keeps what it has, and the version it was told of, while others   *)
(* work: a row with the key it has loaded is the same row.                     *)
LEMMA OthersKeep ==
    ASSUME Inv, RowStep, NEW q \in Requests, Same(q)
    PROVE  Fits(q)' /\ Kept(q)'
<1>1. Fits(q)'
  BY DEF Inv, Fits, Same, Op
<1>2. Kept(q)'
  <2> SUFFICES ASSUME answer[q] = "ok", Op(q) \in {"script", "edit"}
               PROVE  /\ number[q] \in Numbers /\ loaded[q] \in Case
                      /\ Present(q)' => \E v \in rows'[number[q]].versions : v.script = Mine(q)
    BY DEF Kept, Same, Op, Mine, Point
  <2>1. /\ number[q] \in Numbers /\ loaded[q] \in Case
        /\ Present(q) => \E v \in rows[number[q]].versions : v.script = Mine(q)
    BY DEF Inv, Kept
  <2>2. loaded[q].id \in Nat /\ loaded[q].id <= serial /\ serial \in Nat
    BY <2>1, CasesAssumption DEF Inv, Keys, TypeOK, Case
  <2>3. Present(q)' => Present(q) /\ rows[number[q]].versions \subseteq rows'[number[q]].versions
    BY <2>1, <2>2 DEF RowStep, Present, Same
  <2> QED BY <2>1, <2>3
<1> QED BY <1>1, <1>2

LEMMA InsertCaseRows ==
    ASSUME Inv, NEW r \in Requests, InsertCase(r)
    PROVE  RowStep
<1>1. CASE number[r] \in Stored
  BY <1>1, RowsStay DEF InsertCase
<1>2. CASE number[r] \notin Stored
  <2>1. PICK new : /\ rows' = [rows EXCEPT ![number[r]] = new] /\ serial' = serial + 1
                   /\ new.id = serial + 1 /\ new.steps = {Written(Mine(r))}
    BY <1>2 DEF InsertCase
  <2>2. Written(Mine(r)) \in StepRows
    <3>1. Mine(r) \in Content
      BY MineType DEF InsertCase, Inv, Fits
    <3> QED BY <3>1 DEF Written, StepRows, Content
  <2>3. serial \in Nat /\ \A n \in Numbers : rows[n] # None => n \in Stored
    BY DEF Inv, TypeOK, Stored
  <2>4. \A n \in Numbers : rows'[n] = rows[n] \/ rows'[n] = new
    BY <2>1 DEF Inv, TypeOK
  <2> QED BY <2>1, <2>2, <2>3, <2>4 DEF RowStep, Inv, StepsFromOneFlush
<1> QED BY <1>1, <1>2

(* An UPDATE leaves a row with the same key, more versions, and steps of one   *)
(* flush.                                                                      *)
LEMMA UpdateRows ==
    ASSUME Inv, NEW n \in Stored, NEW new, rows' = [rows EXCEPT ![n] = new], UNCHANGED serial,
           new.id = rows[n].id, rows[n].versions \subseteq new.versions,
           \E s \in StepRows : new.steps = {s}
    PROVE  RowStep
<1>1. serial \in Nat /\ \A m \in Numbers : rows[m] # None => m \in Stored
  BY DEF Inv, TypeOK, Stored
<1>2. n \in Numbers /\ rows[n] # None
  BY DEF Stored
<1>3. rows'[n] = new /\ \A m \in Numbers \ {n} : rows'[m] = rows[m]
  BY <1>2 DEF Inv, TypeOK
<1> QED BY <1>1, <1>2, <1>3 DEF RowStep, Inv, StepsFromOneFlush

LEMMA CommitUpdateRows ==
    ASSUME Inv, NEW r \in Requests, CommitUpdate(r)
    PROVE  RowStep /\ Kept(r)'
<1>1. number[r] \in Numbers /\ loaded[r] \in Case /\ answer[r] = None
  BY DEF CommitUpdate, Inv, Fits, OnRow
<1>2. CASE ~Present(r) \/ Collides(r)
  <2>1. End(r, "error") /\ UNCHANGED database
    BY <1>2 DEF CommitUpdate, database
  <2>2. RowStep
    BY <2>1, RowsStay
  <2>3. answer'[r] = "error"
    BY <2>1, EndType DEF Inv, Answers
  <2> QED BY <2>2, <2>3 DEF Kept
<1>3. CASE Present(r) /\ ~Collides(r)
  <2>1. /\ rows' = [rows EXCEPT ![number[r]] = Updated(r)]
        /\ UNCHANGED <<job, at, number, loaded, serial>>
    BY <1>3 DEF CommitUpdate, choice
  <2>2. /\ Updated(r).id = rows[number[r]].id /\ rows[number[r]].versions \subseteq Updated(r).versions
        /\ \E s \in StepRows : Updated(r).steps = {s}
        /\ Op(r) \in {"script", "edit"} => \E v \in Updated(r).versions : v.script = Mine(r)
    BY <1>3, UpdatedType DEF CommitUpdate
  <2>3. number[r] \in Stored /\ rows'[number[r]] = Updated(r)
    BY <1>1, <1>3, <2>1 DEF Stored, Present, Inv, TypeOK
  <2> HIDE DEF Updated
  <2>4. RowStep
    BY <2>1, <2>2, <2>3, UpdateRows
  <2>5. Kept(r)'
    <3>1. Mine(r)' = Mine(r) /\ Op(r)' = Op(r)
      BY <2>1 DEF Mine, Op, Point
    <3> QED BY <1>1, <2>1, <2>2, <2>3, <3>1 DEF Kept
  <2> QED BY <2>4, <2>5
<1> QED BY <1>2, <1>3

LEMMA AddVersionRows ==
    ASSUME Inv, NEW r \in Requests, AddVersion(r)
    PROVE  RowStep
<1>1. CASE ~Present(r)
  BY <1>1, RowsStay DEF AddVersion, database
<1>2. CASE Present(r)
  <2> DEFINE new == [rows[number[r]] EXCEPT !.versions = @ \cup {NewVersion(r)}]
  <2>1. rows' = [rows EXCEPT ![number[r]] = new] /\ UNCHANGED serial
    BY <1>2 DEF AddVersion
  <2>2. /\ number[r] \in Stored /\ new.id = rows[number[r]].id /\ new.steps = rows[number[r]].steps
        /\ rows[number[r]].versions \subseteq new.versions
    BY <1>2, VersionedType DEF AddVersion
  <2>3. \E s \in StepRows : new.steps = {s}
    BY <2>2 DEF Inv, StepsFromOneFlush
  <2> HIDE DEF new
  <2> QED BY <2>1, <2>2, <2>3, UpdateRows
<1> QED BY <1>1, <1>2

LEMMA CommitDeleteRows ==
    ASSUME Inv, NEW r \in Requests, CommitDelete(r)
    PROVE  RowStep
<1>1. serial \in Nat /\ \A n \in Numbers : rows[n] # None => n \in Stored
  BY DEF Inv, TypeOK, Stored
<1>2. UNCHANGED serial /\ \A n \in Numbers : rows'[n] \in {rows[n], None}
  BY DEF CommitDelete, Inv, TypeOK
<1> QED BY <1>1, <1>2 DEF RowStep, Inv, StepsFromOneFlush
-------------------------------------------------------------------------------
(* A step of a request leaves the others as they are.                          *)
LEMMA Frame ==
    ASSUME Inv, NEW r \in Requests, Begin(r) \/ Step(r), NEW q \in Requests \ {r}
    PROVE  Same(q)
<1> USE DEF Same, Goto, choice, session, database, history
<1>1. CASE Begin(r)
  BY <1>1 DEF Begin, Inv, TypeOK
<1>2. CASE Lookup(r)
  BY <1>2 DEF Lookup, Inv, TypeOK
<1>3. CASE Collect(r)
  BY <1>3 DEF Collect, Inv, TypeOK
<1>4. CASE Reject(r)
  BY <1>4 DEF Reject, NextPoint, End, Inv, TypeOK
<1>5. CASE Allocate(r)
  BY <1>5 DEF Allocate, Inv, TypeOK
<1>6. CASE WriteFile(r)
  BY <1>6 DEF WriteFile, Inv, TypeOK
<1>7. CASE Match(r)
  BY <1>7 DEF Match, Inv, TypeOK
<1>8. CASE Load(r)
  BY <1>8 DEF Load, Inv, TypeOK
<1>9. CASE Resolve(r)
  BY <1>9 DEF Resolve, Inv, TypeOK
<1>10. CASE ReadVersionNo(r)
  BY <1>10 DEF ReadVersionNo, Inv, TypeOK
<1>11. CASE DeleteSteps(r)
  BY <1>11 DEF DeleteSteps, Deleted, Inv, TypeOK
<1>12. CASE Unblock(r)
  BY <1>12 DEF Unblock, Deleted, Inv, TypeOK
<1>13. CASE InsertCase(r)
  BY <1>13 DEF InsertCase, End, Inv, TypeOK
<1>14. CASE CommitUpdate(r)
  BY <1>14 DEF CommitUpdate, End, Inv, TypeOK
<1>15. CASE Refresh(r)
  BY <1>15 DEF Refresh, End, Inv, TypeOK
<1>16. CASE AddVersion(r)
  BY <1>16 DEF AddVersion, NextPoint, End, Inv, TypeOK
<1>17. CASE CommitDelete(r)
  BY <1>17 DEF CommitDelete, Inv, TypeOK
<1>18. CASE Unlink(r)
  BY <1>18 DEF Unlink, End, Inv, TypeOK
<1>19. CASE Fails(r)
  BY <1>19 DEF Fails, End, Inv, TypeOK
<1> QED BY <1>1, <1>2, <1>3, <1>4, <1>5, <1>6, <1>7, <1>8, <1>9, <1>10, <1>11, <1>12, <1>13,
           <1>14, <1>15, <1>16, <1>17, <1>18, <1>19 DEF Step

(* A request that is told that its script is stored has committed it with its  *)
(* version; the rows follow RowStep.                                           *)
LEMMA Effects ==
    ASSUME Inv, NEW r \in Requests, Begin(r) \/ Step(r)
    PROVE  RowStep /\ Kept(r)'
<1>a. pc[r] # "done" => answer[r] = None
  BY DEF Inv, Fits
<1>b. UNCHANGED job /\ Op(r)' = Op(r)
  BY DEF Op, Begin, Step, Lookup, Collect, Reject, Allocate, WriteFile, Match, Load, Resolve,
         ReadVersionNo, DeleteSteps, Unblock, InsertCase, CommitUpdate, Refresh, AddVersion,
         CommitDelete, Unlink, Fails
<1>c. \A value \in Answers : End(r, value) => answer'[r] = value
  BY EndType DEF Inv
<1>d. ASSUME answer'[r] # "ok" \/ Op(r) \notin {"script", "edit"} PROVE Kept(r)'
  BY <1>b, <1>d DEF Kept
<1>1. CASE UNCHANGED <<rows, serial, answer>> /\ pc[r] # "done"
  <2>1. Kept(r)'
    BY <1>1, <1>a, <1>d, CasesAssumption
  <2> QED BY <1>1, <2>1, RowsStay DEF database
<1>2. CASE Begin(r) \/ Lookup(r) \/ Collect(r) \/ Allocate(r) \/ WriteFile(r)
         \/ Match(r) \/ ReadVersionNo(r) \/ DeleteSteps(r) \/ Unblock(r)
  BY <1>1, <1>2 DEF Begin, Lookup, Collect, Allocate, WriteFile, Match, ReadVersionNo,
                    DeleteSteps, Unblock, database
<1>3. CASE Reject(r)
  <2>1. Op(r) = "generate"
    BY <1>3 DEF Reject, Inv, Fits
  <2>2. UNCHANGED database
    BY <1>3 DEF Reject
  <2> QED BY <1>d, <2>1, <2>2, RowsStay
<1>4. CASE Load(r)
  <2>1. answer'[r] # "ok"
    BY <1>4, <1>a, CasesAssumption DEF Load, Inv, TypeOK
  <2>2. UNCHANGED database
    BY <1>4 DEF Load
  <2> QED BY <1>d, <2>1, <2>2, RowsStay
<1>5. CASE Resolve(r)
  <2>1. answer'[r] # "ok"
    BY <1>5, <1>a, CasesAssumption DEF Resolve, Inv, TypeOK
  <2>2. UNCHANGED database
    BY <1>5 DEF Resolve
  <2> QED BY <1>d, <2>1, <2>2, RowsStay
<1>6. CASE InsertCase(r)
  <2>1. Op(r) \in {"generate", "create"}
    BY <1>6 DEF InsertCase, Inv, Fits
  <2> QED BY <1>6, <1>d, <2>1, InsertCaseRows
<1>7. CASE CommitUpdate(r)
  BY <1>7, CommitUpdateRows
<1>8. CASE Refresh(r)
  <2>1. answer'[r] # "ok"
    BY <1>8, <1>a, <1>c, CasesAssumption DEF Refresh, Answers
  <2>2. UNCHANGED database
    BY <1>8 DEF Refresh
  <2> QED BY <1>d, <2>1, <2>2, RowsStay
<1>9. CASE AddVersion(r)
  <2>1. Op(r) \in {"generate", "create"}
    BY <1>9 DEF AddVersion, Inv, Fits
  <2> QED BY <1>9, <1>d, <2>1, AddVersionRows
<1>10. CASE CommitDelete(r)
  <2>1. Op(r) = "delete"
    BY <1>10 DEF CommitDelete
  <2> QED BY <1>10, <1>d, <2>1, CommitDeleteRows
<1>11. CASE Unlink(r)
  <2>1. Op(r) = "delete"
    BY <1>11 DEF Unlink, Inv, Fits
  <2>2. UNCHANGED database
    BY <1>11 DEF Unlink
  <2> QED BY <1>d, <2>1, <2>2, RowsStay
<1>12. CASE Fails(r)
  <2>1. answer'[r] # "ok"
    BY <1>12, <1>a, <1>c, CasesAssumption DEF Fails, Answers, InFlight
  <2>2. UNCHANGED database
    BY <1>12 DEF Fails
  <2> QED BY <1>d, <2>1, <2>2, RowsStay
<1> QED BY <1>2, <1>3, <1>4, <1>5, <1>6, <1>7, <1>8, <1>9, <1>10, <1>11, <1>12 DEF Step

LEMMA StepKeeps ==
    ASSUME Inv, NEW r \in Requests, Begin(r) \/ Step(r)
    PROVE  Inv'
<1>1. TypeOK' /\ Keys' /\ Fits(r)'
  BY BeginKeeps, LookupKeeps, CollectKeeps, RejectKeeps, AllocateKeeps, WriteFileKeeps, MatchKeeps,
     LoadKeeps, ResolveKeeps, ReadVersionNoKeeps, DeleteStepsKeeps, UnblockKeeps, InsertCaseKeeps,
     CommitUpdateKeeps, RefreshKeeps, AddVersionKeeps, CommitDeleteKeeps, UnlinkKeeps, FailsKeeps DEF Step
<1>2. RowStep /\ Kept(r)'
  BY Effects
<1>3. \A q \in Requests \ {r} : Fits(q)' /\ Kept(q)'
  BY <1>2, Frame, OthersKeep
<1>4. StepsFromOneFlush'
  BY <1>2, RowStepKeepsSteps
<1> QED BY <1>1, <1>2, <1>3, <1>4 DEF Inv

LEMMA CrashKeepsInv ==
    ASSUME Inv, Crash
    PROVE  Inv'
<1>1. TypeOK' /\ Keys' /\ \A r \in Requests : Fits(r)'
  BY CrashKeeps
<1>2. RowStep
  BY RowsStay DEF Crash
<1>3. StepsFromOneFlush'
  BY <1>2, RowStepKeepsSteps
<1>4. \A r \in Requests : answer'[r] = "lost" \/ Same(r)
  BY DEF Crash, Same, Inv, TypeOK, choice
<1>5. \A r \in Requests : Kept(r)'
  BY <1>2, <1>4, OthersKeep DEF Kept
<1> QED BY <1>1, <1>3, <1>5 DEF Inv

LEMMA InvNext == Inv /\ [Next]_vars => Inv'
<1> SUFFICES ASSUME Inv, [Next]_vars PROVE Inv'
  OBVIOUS
<1>1. CASE Next
  BY <1>1, StepKeeps, CrashKeepsInv DEF Next
<1>2. CASE UNCHANGED vars
  <2>1. TypeOK'
    BY <1>2 DEF vars, choice, session, database, history, Inv, TypeOK
  <2>2. Keys'
    BY <1>2 DEF vars, choice, session, database, history, Inv, Keys
  <2>3. RowStep
    BY <1>2, RowsStay DEF vars
  <2>4. StepsFromOneFlush'
    BY <2>3, RowStepKeepsSteps
  <2>5. \A q \in Requests : Same(q)
    BY <1>2 DEF vars, choice, session, Same
  <2> QED BY <2>1, <2>2, <2>3, <2>4, <2>5, OthersKeep DEF Inv
<1> QED BY <1>1, <1>2

LEMMA AlwaysInv == Spec => []Inv
<1> QED BY InvInit, InvNext, PTL DEF Spec
-------------------------------------------------------------------------------
(* Every variable keeps its type; in particular a retry, an edit and a version  *)
(* write only to rows they have found.                                         *)
THEOREM CasesTypeCorrect == Spec => []TypeOK
<1>1. Inv => TypeOK
  BY DEF Inv
<1> QED BY <1>1, AlwaysInv, PTL

(* However many sessions edit, generate and delete, and wherever they fail, the *)
(* rows of steps of a case are those of one flush: _sync_test_case_steps may    *)
(* leave an editor with an error, but never a case with the steps of two.       *)
THEOREM StepsAreOfOneFlush == Spec => []StepsFromOneFlush
<1>1. Inv => StepsFromOneFlush
  BY DEF Inv
<1> QED BY <1>1, AlwaysInv, PTL

(* An edit that was answered with success stays in the version history of its  *)
(* case for as long as the row that it was made to lives: the argument is that *)
(* primary keys are given out in order, so that a row with the key the request  *)
(* has loaded is the row it changed, and no commit removes a version from it.   *)
THEOREM EditsStay == Spec => []EditsAreKept
<1>1. Inv => EditsAreKept
  BY DEF Inv, Kept, EditsAreKept
<1> QED BY <1>1, AlwaysInv, PTL
-------------------------------------------------------------------------------
USE DEF choice, session, database, history

(* As long as requests do not overlap and nothing fails.  A case with its      *)
(* history, but perhaps without the version of its last script.                *)
Complete(c) ==
    /\ IsFiniteSet(c.versions) /\ {v.no : v \in c.versions} = 1..Cardinality(c.versions)
    /\ \A s \in c.steps : s.of = c.script
Recent(c) == \E v \in c.versions : v.no = Cardinality(c.versions) /\ v.script = c.script

Filed(n) == rows[n].script.point # None => files[n] # None /\ files[n].point = rows[n].script.point

(* r has yet to add a version to its case; r has yet to insert the case of its *)
(* file, or to remove the file after the case.                                 *)
Lacks(r) == pc[r] \in {"refresh", "refreshNew", "addVersion"} \/ (pc[r] = "number" /\ Op(r) = "generate")
Strays(r) == pc[r] \in {"match", "sync", "insert", "unlink"}

Tidy ==
    /\ \A n \in Stored :
         /\ Complete(rows[n]) /\ Filed(n)
         /\ Recent(rows[n]) \/ \E r \in Requests : Lacks(r) /\ n = number[r]
    /\ \A m, n \in Stored : rows[m].script.point = rows[n].script.point /\ rows[m].script.point # None => m = n
    /\ \A n \in OnDisk \ Stored : \E r \in Requests : Strays(r) /\ n = number[r]

(* Where r may be that runs alone.                                             *)
Course(op) ==
    CASE op = "generate" -> {"lookup", "collect", "compile", "write", "match", "sync", "insert", "deleteSteps",
                             "commit", "refresh", "refreshNew", "number", "addVersion"}
      [] op = "create"   -> {"resolve", "insert", "refreshNew", "addVersion"}
      [] op = "script"   -> {"load", "deleteSteps", "number", "commit"}
      [] op = "edit"     -> {"load", "number", "deleteSteps", "commit"}
      [] op = "status"   -> {"load", "number", "commit"}
      [] op = "retag"    -> {"load", "deleteSteps", "commit"}
      [] OTHER           -> {"load", "deleteSteps", "commit", "unlink"}

(* What a generation has found of its point.                                   *)
Aimed(r) ==
    LET its == CasesOf(Point(r)) IN
    /\ pc[r] \in {"collect", "compile"} => wanted[r] \in its \/ (wanted[r] = None /\ its = {})
    /\ pc[r] = "compile" => known[r] = Stored \cup OnDisk
    /\ pc[r] \in {"write", "match", "sync"} => path[r] = number[r]
    /\ pc[r] \in {"write", "match", "sync"} => number[r] \in its \/ (its = {} /\ number[r] \notin Stored)
    /\ pc[r] = "sync" => loaded[r] = rows[number[r]]
    /\ pc[r] = "insert" => its = {} /\ files[number[r]] # None /\ files[number[r]].point = Point(r)
    /\ pc[r] \in {"deleteSteps", "commit"} => number[r] \in its

Numbered(r) == no[r] = Cardinality(rows[number[r]].versions) + 1

(* What r has read of its case is what there is.                               *)
UpToDate(r) ==
    /\ pc[r] \in {"load", "resolve"} => locked[r] = None
    /\ pc[r] \in {"deleteSteps", "number", "commit", "refreshNew", "addVersion"} =>
           rows[number[r]] # None /\ loaded[r] = rows[number[r]]
    /\ pc[r] = "refresh" => Present(r)
    /\ pc[r] \in {"insert", "unlink"} => number[r] \notin Stored
    /\ pc[r] \in {"refreshNew", "addVersion"} => Numbered(r)
    /\ pc[r] = "commit" /\ Op(r) \in {"script", "edit", "status"} => Numbered(r)
    /\ pc[r] = "deleteSteps" /\ Op(r) = "edit" => Numbered(r)
    /\ \/ pc[r] = "commit" /\ Op(r) \notin {"status", "delete"}
       \/ pc[r] = "number" /\ Op(r) = "script"
       => covered[r] = rows[number[r]].steps

Alone(r) == pc[r] \in Course(Op(r)) /\ UpToDate(r) /\ (Op(r) = "generate" => Aimed(r))

OneAtATime ==
    calm =>
        /\ \A q, r \in Requests : InFlight(q) /\ InFlight(r) => q = r
        /\ \A r \in Requests : IF InFlight(r) THEN Alone(r) ELSE locked[r] = None
        /\ Tidy

(* The same of r alone.                                                        *)
TidyBut(r) ==
    /\ \A n \in Stored : Complete(rows[n]) /\ Filed(n) /\ (Recent(rows[n]) \/ (Lacks(r) /\ n = number[r]))
    /\ \A m, n \in Stored : rows[m].script.point = rows[n].script.point /\ rows[m].script.point # None => m = n
    /\ \A n \in OnDisk \ Stored : Strays(r) /\ n = number[r]

Settled(r) == TidyBut(r) /\ IF InFlight(r) THEN Alone(r) ELSE locked[r] = None

LEMMA LocksFrame ==
    ASSUME TypeOK, NEW r \in Requests, Begin(r) \/ Step(r), NEW q \in Requests \ {r}
    PROVE  locked'[q] = locked[q]
<1>0. locked \in [Requests -> Nat \cup {None}]
  BY DEF TypeOK
<1> USE <1>0
<1>1. Begin(r) \/ Lookup(r) \/ Collect(r) \/ Allocate(r) \/ WriteFile(r) \/ Match(r) \/ Load(r) \/ Resolve(r)
         \/ ReadVersionNo(r) => locked' = locked
  BY DEF Begin, Lookup, Collect, Allocate, WriteFile, Match, Load, Resolve, ReadVersionNo
<1>2. Reject(r) => locked'[q] = locked[q]
  BY DEF Reject, NextPoint, End, Release
<1>3. DeleteSteps(r) => locked'[q] = locked[q]
  BY DEF DeleteSteps, Deleted
<1>4. Unblock(r) => locked'[q] = locked[q]
  BY DEF Unblock, Deleted
<1>5. InsertCase(r) => locked'[q] = locked[q]
  BY DEF InsertCase, End, Release
<1>6. CommitUpdate(r) => locked'[q] = locked[q]
  BY DEF CommitUpdate, End, Release
<1>7. Refresh(r) => locked'[q] = locked[q]
  BY DEF Refresh, End, Release
<1>8. AddVersion(r) => locked'[q] = locked[q]
  BY DEF AddVersion, NextPoint, End, Release
<1>9. CommitDelete(r) => locked'[q] = locked[q]
  BY DEF CommitDelete, Release
<1>10. Unlink(r) => locked'[q] = locked[q]
  BY DEF Unlink, End, Release
<1>11. Fails(r) => locked'[q] = locked[q]
  BY DEF Fails, End, Release
<1> QED BY <1>1, <1>2, <1>3, <1>4, <1>5, <1>6, <1>7, <1>8, <1>9, <1>10, <1>11 DEF Step

LEMMA OneGoesOn ==
    ASSUME Inv, OneAtATime, NEW r \in Requests, Begin(r) \/ Step(r), InFlight(r) \/ (calm' => Quiet),
           calm' => calm, calm' => Settled(r)'
    PROVE  OneAtATime'
<1> SUFFICES ASSUME calm'
             PROVE  OneAtATime'
  BY DEF OneAtATime
<1>1. Settled(r)' /\ calm
  OBVIOUS
<1>2. \A q \in Requests \ {r} : ~InFlight(q) /\ locked[q] = None
  BY <1>1 DEF OneAtATime, Quiet
<1>3. \A q \in Requests \ {r} : pc'[q] = pc[q] /\ locked'[q] = locked[q]
  BY Frame, LocksFrame DEF Inv, Same
<1>4. \A q \in Requests \ {r} : ~InFlight(q)' /\ locked'[q] = None
  BY <1>2, <1>3 DEF InFlight
<1>5. IF InFlight(r)' THEN Alone(r)' ELSE locked'[r] = None
  BY <1>1 DEF Settled
<1>6. Tidy'
  BY <1>1 DEF Settled, TidyBut, Tidy
<1> QED BY <1>4, <1>5, <1>6 DEF OneAtATime

LEMMA WhenAlone ==
    ASSUME Inv, OneAtATime, calm, NEW r \in Requests, InFlight(r)
    PROVE  Alone(r) /\ Fits(r) /\ TidyBut(r) /\ \A q \in Requests \ {r} : locked[q] = None
<1>1. Alone(r) /\ Fits(r) /\ \A q \in Requests \ {r} : ~InFlight(q) /\ locked[q] = None
  BY DEF Inv, OneAtATime
<1>2. \A q \in Requests \ {r} : ~Lacks(q) /\ ~Strays(q)
  BY <1>1 DEF InFlight, Lacks, Strays
<1>3. TidyBut(r)
  BY <1>2 DEF OneAtATime, Tidy, TidyBut
<1> QED BY <1>1, <1>3

(* A step that writes neither a row nor a file.                                *)
LEMMA TidyStays ==
    ASSUME TypeOK, NEW r \in Requests, TidyBut(r), UNCHANGED <<rows, files>>,
           Lacks(r) => Lacks(r)' /\ number'[r] = number[r],
           Strays(r) => (Strays(r)' /\ number'[r] = number[r]) \/ number[r] \notin OnDisk \ Stored
    PROVE  TidyBut(r)'
<1>1. Stored' = Stored /\ OnDisk' = OnDisk
  BY DEF Stored, OnDisk
<1>2. \A n \in Stored : Filed(n)' <=> Filed(n)
  BY DEF Filed
<1> QED BY <1>1, <1>2 DEF TidyBut

LEMMA BeginAlone ==
    ASSUME Inv, OneAtATime, NEW r \in Requests, Begin(r), calm'
    PROVE  Settled(r)'
<1>1. TypeOK /\ calm /\ Quiet /\ pc[r] = "idle" /\ UNCHANGED <<job, answer, at, made, choice, session, database, files>>
  BY DEF Inv, Begin, Quiet
<1>2. pc'[r] = FirstLabel(Op(r)) /\ Op(r)' = Op(r) /\ Op(r) \in Operations
  BY <1>1, PayloadType DEF Begin, Goto, TypeOK, Op
<1>3. TidyBut(r)
  BY <1>1 DEF OneAtATime, Tidy, TidyBut, Quiet, InFlight, Lacks, Strays
<1>4. TidyBut(r)'
  BY <1>1, <1>3, TidyStays DEF Lacks, Strays
<1>5. pc'[r] \in {"lookup", "resolve", "load"} /\ pc'[r] \in Course(Op(r))
  BY <1>2 DEF FirstLabel, Course, Operations
<1>6. locked'[r] = None
  BY <1>1 DEF OneAtATime, Quiet
<1>7. Alone(r)' /\ InFlight(r)'
  BY <1>2, <1>5, <1>6 DEF Alone, UpToDate, Aimed, InFlight
<1> QED BY <1>4, <1>7 DEF Settled

LEMMA LookupAlone ==
    ASSUME Inv, OneAtATime, NEW r \in Requests, Lookup(r), calm'
    PROVE  Settled(r)'
<1>1. /\ TypeOK /\ calm /\ InFlight(r) /\ pc[r] = "lookup"
      /\ UNCHANGED <<job, answer, at, made, known, number, path, session, database, files, history>>
  BY DEF Inv, Lookup, InFlight
<1>2. Alone(r) /\ Fits(r) /\ TidyBut(r) /\ Op(r) = "generate"
  BY <1>1, WhenAlone DEF Fits
<1>3. pc'[r] = "collect" /\ Op(r)' = Op(r) /\ Point(r)' = Point(r) /\ CasesOf(Point(r)') = CasesOf(Point(r))
  BY <1>1 DEF Lookup, Goto, TypeOK, Op, Point
<1>4. TidyBut(r)'
  BY <1>1, <1>2, TidyStays DEF Lacks, Strays
<1>5. wanted'[r] \in CasesOf(Point(r)) \/ (wanted'[r] = None /\ CasesOf(Point(r)) = {})
  BY <1>1 DEF Lookup, TypeOK
<1>6. Aimed(r)'
  BY <1>3, <1>5, <1>1 DEF Aimed, CasesOf, Stored
<1>7. pc'[r] \in Course(Op(r)) /\ UpToDate(r)' /\ InFlight(r)'
  BY <1>2, <1>3 DEF Course, UpToDate, InFlight
<1> QED BY <1>3, <1>4, <1>6, <1>7 DEF Settled, Alone

LEMMA CollectAlone ==
    ASSUME Inv, OneAtATime, NEW r \in Requests, Collect(r), calm'
    PROVE  Settled(r)'
<1>1. /\ TypeOK /\ calm /\ InFlight(r) /\ pc[r] = "collect"
      /\ UNCHANGED <<job, answer, at, made, wanted, number, path, session, database, files, history>>
  BY DEF Inv, Collect, InFlight
<1>2. Alone(r) /\ Fits(r) /\ TidyBut(r) /\ Op(r) = "generate"
  BY <1>1, WhenAlone DEF Fits
<1>3. pc'[r] = "compile" /\ Op(r)' = Op(r) /\ Point(r)' = Point(r) /\ CasesOf(Point(r)') = CasesOf(Point(r))
  BY <1>1 DEF Collect, Goto, TypeOK, Op, Point
<1>4. TidyBut(r)'
  BY <1>1, <1>2, TidyStays DEF Lacks, Strays
<1>5. known'[r] = Stored \cup OnDisk
  BY <1>1 DEF Collect, TypeOK
<1>6. Aimed(r)'
  BY <1>1, <1>2, <1>3, <1>5 DEF Alone, Aimed, CasesOf, Stored, OnDisk
<1>7. pc'[r] \in Course(Op(r)) /\ UpToDate(r)' /\ InFlight(r)'
  BY <1>2, <1>3 DEF Course, UpToDate, InFlight
<1> QED BY <1>3, <1>4, <1>6, <1>7 DEF Settled, Alone

(* A generation goes on, or ends.                                              *)
LEMMA NextPointAlone ==
    ASSUME Inv, NEW r \in Requests, NEW done, NextPoint(r, done), Op(r) = "generate", UNCHANGED job,
           TidyBut(r)'
    PROVE  Settled(r)'
<1>1. CASE at[r] < Len(job[r].points)
  <2>1. pc'[r] = "lookup" /\ Op(r)' = "generate"
    BY <1>1 DEF NextPoint, Goto, Inv, TypeOK, Op
  <2> QED BY <2>1 DEF Settled, Alone, Course, UpToDate, Aimed, InFlight
<1>2. CASE ~(at[r] < Len(job[r].points))
  <2>1. pc'[r] = "done" /\ locked'[r] = None
    BY <1>2 DEF NextPoint, End, Goto, Release, Inv, TypeOK
  <2> QED BY <2>1 DEF Settled, InFlight
<1> QED BY <1>1, <1>2

LEMMA RejectAlone ==
    ASSUME Inv, OneAtATime, NEW r \in Requests, Reject(r), calm'
    PROVE  Settled(r)'
<1>1. /\ TypeOK /\ calm /\ InFlight(r) /\ pc[r] \in {"compile", "write"}
      /\ UNCHANGED <<job, choice, loaded, covered, no, database, files, history>> /\ NextPoint(r, made[r])
  BY DEF Inv, Reject, InFlight
<1>2. Alone(r) /\ Fits(r) /\ TidyBut(r) /\ Op(r) = "generate"
  BY <1>1, WhenAlone DEF Fits
<1>3. TidyBut(r)'
  BY <1>1, <1>2, TidyStays DEF Lacks, Strays
<1> QED BY <1>1, <1>2, <1>3, NextPointAlone

LEMMA AllocateAlone ==
    ASSUME Inv, OneAtATime, NEW r \in Requests, Allocate(r), calm'
    PROVE  Settled(r)'
<1>1. /\ TypeOK /\ calm /\ InFlight(r) /\ pc[r] = "compile"
      /\ UNCHANGED <<job, answer, at, made, wanted, known, session, database, files, history>>
  BY DEF Inv, Allocate, InFlight
<1>2. Alone(r) /\ Fits(r) /\ TidyBut(r) /\ Op(r) = "generate"
  BY <1>1, WhenAlone DEF Fits
<1>3. pc'[r] = "write" /\ Op(r)' = Op(r) /\ Point(r)' = Point(r) /\ CasesOf(Point(r)') = CasesOf(Point(r))
  BY <1>1 DEF Allocate, Goto, TypeOK, Op, Point
<1>4. TidyBut(r)'
  BY <1>1, <1>2, TidyStays DEF Lacks, Strays
<1>5. PICK n \in Numbers : /\ number'[r] = n /\ path'[r] = n
                           /\ IF wanted[r] # None THEN n = wanted[r] ELSE Follows(n, known[r] \cup OnDisk)
  BY <1>1 DEF Allocate, TypeOK
<1>6. CASE wanted[r] # None
  <2>1. n \in CasesOf(Point(r))
    BY <1>1, <1>2, <1>5, <1>6 DEF Alone, Aimed
  <2> QED BY <1>2, <1>3, <1>4, <1>5, <2>1, <1>1 DEF Settled, Alone, Course, UpToDate, InFlight,
                                                    Aimed, CasesOf, Stored
<1>7. CASE wanted[r] = None
  <2>1. CasesOf(Point(r)) = {}
    <3>1. None \notin CasesOf(Point(r))
      BY CasesAssumption DEF CasesOf, Stored, Numbers
    <3> QED BY <1>1, <1>2, <1>7, <3>1 DEF Alone, Aimed
  <2>2. n \notin Stored
    <3>1. \A m \in Stored : m < n
      BY <1>1, <1>2, <1>5, <1>7 DEF Alone, Aimed, Follows
    <3>2. ~(n < n)
      BY DEF Numbers
    <3> QED BY <3>1, <3>2
  <2> QED BY <1>2, <1>3, <1>4, <1>5, <2>1, <2>2, <1>1 DEF Settled, Alone, Course, UpToDate,
                                                          InFlight, Aimed, CasesOf, Stored
<1> QED BY <1>6, <1>7

LEMMA MatchAlone ==
    ASSUME Inv, OneAtATime, NEW r \in Requests, Match(r), calm'
    PROVE  Settled(r)'
<1>1. /\ TypeOK /\ calm /\ InFlight(r) /\ pc[r] = "match"
      /\ UNCHANGED <<job, answer, at, made, wanted, known, path, covered, no, locked, database, files, history>>
  BY DEF Inv, Match, InFlight
<1>2. Alone(r) /\ Fits(r) /\ TidyBut(r) /\ Op(r) = "generate" /\ number[r] \in Numbers
  BY <1>1, WhenAlone DEF Fits
<1>3. pc'[r] = "sync" /\ Op(r)' = Op(r) /\ Point(r)' = Point(r) /\ CasesOf(Point(r)') = CasesOf(Point(r))
  BY <1>1 DEF Match, Goto, TypeOK, Op, Point
<1>4. number[r] \in CasesOf(Point(r)) \/ (CasesOf(Point(r)) = {} /\ number[r] \notin Stored)
  BY <1>1, <1>2 DEF Alone, Aimed
<1>5. number'[r] = number[r] /\ loaded'[r] = rows[number[r]]
  <2>1. CASE number[r] \in Stored
    BY <1>1, <2>1 DEF Match, TypeOK
  <2>2. CASE number[r] \notin Stored
    <3>1. CasesOf(Point(r)) = {} /\ rows[number[r]] = None
      BY <1>2, <1>4, <2>2 DEF Stored, CasesOf
    <3> QED BY <1>1, <2>2, <3>1 DEF Match, TypeOK
  <2> QED BY <2>1, <2>2
<1>6. TidyBut(r)'
  BY <1>1, <1>2, <1>3, <1>5, TidyStays DEF Lacks, Strays
<1>7. Aimed(r)'
  BY <1>1, <1>2, <1>3, <1>4, <1>5 DEF Alone, Aimed, CasesOf, Stored
<1>8. pc'[r] \in Course(Op(r)) /\ UpToDate(r)' /\ InFlight(r)'
  BY <1>2, <1>3 DEF Course, UpToDate, InFlight
<1> QED BY <1>3, <1>6, <1>7, <1>8 DEF Settled, Alone

LEMMA LoadAlone ==
    ASSUME Inv, OneAtATime, NEW r \in Requests, Load(r), calm'
    PROVE  Settled(r)'
<1>1. /\ TypeOK /\ calm /\ InFlight(r) /\ pc[r] = "load"
      /\ UNCHANGED <<job, at, made, wanted, known, path, covered, no, locked, database, files, history>>
  BY DEF Inv, Load, InFlight
<1>2. Alone(r) /\ TidyBut(r) /\ Op(r)' = Op(r) /\ Op(r) \notin {"generate", "create"} /\ locked[r] = None
  BY <1>1, WhenAlone DEF Op, Alone, Course, UpToDate
<1>3. TidyBut(r)'
  BY <1>1, <1>2, TidyStays DEF Lacks, Strays
<1>4. number'[r] = job[r].number /\ loaded'[r] = rows[job[r].number]
  BY <1>1 DEF Load, TypeOK
<1>5. CASE rows[job[r].number] = None
  <2>1. pc'[r] = "done"
    BY <1>1, <1>5 DEF Load, Goto, TypeOK
  <2> QED BY <1>1, <1>2, <1>3, <2>1 DEF Settled, InFlight
<1>6. CASE rows[job[r].number] # None
  <2>1. pc'[r] = IF Op(r) \in {"edit", "status"} THEN "number" ELSE "deleteSteps"
    BY <1>1, <1>6 DEF Load, Goto, TypeOK
  <2>2. pc'[r] \in Course(Op(r)) /\ InFlight(r)'
    BY <1>2, <2>1, PayloadType, <1>1 DEF Course, InFlight, Operations
  <2>3. UpToDate(r)'
    BY <1>1, <1>2, <1>4, <1>6, <2>1 DEF UpToDate
  <2> QED BY <1>2, <1>3, <2>2, <2>3 DEF Settled, Alone
<1> QED BY <1>5, <1>6

LEMMA ResolveAlone ==
    ASSUME Inv, OneAtATime, NEW r \in Requests, Resolve(r), calm'
    PROVE  Settled(r)'
<1>1. /\ TypeOK /\ calm /\ InFlight(r) /\ pc[r] = "resolve"
      /\ UNCHANGED <<job, at, made, wanted, known, path, session, database, files, history>>
  BY DEF Inv, Resolve, InFlight
<1>2. Alone(r) /\ TidyBut(r) /\ Op(r)' = Op(r) /\ Op(r) = "create" /\ locked[r] = None
  BY <1>1, WhenAlone DEF Op, Alone, Fits, UpToDate
<1>3. TidyBut(r)'
  BY <1>1, <1>2, TidyStays DEF Lacks, Strays
<1>4. number'[r] = job[r].number
  BY <1>1 DEF Resolve, TypeOK
<1>5. CASE job[r].number \in Stored \cup OnDisk
  <2>1. pc'[r] = "done"
    BY <1>1, <1>5 DEF Resolve, Goto, TypeOK
  <2> QED BY <1>1, <1>2, <1>3, <2>1 DEF Settled, InFlight
<1>6. CASE job[r].number \notin Stored \cup OnDisk
  <2>1. pc'[r] = "insert"
    BY <1>1, <1>6 DEF Resolve, Goto, TypeOK
  <2>2. UpToDate(r)'
    BY <1>1, <1>2, <1>4, <1>6, <2>1 DEF UpToDate, Stored
  <2> QED BY <1>2, <1>3, <2>1, <2>2 DEF Settled, Alone, Course, InFlight
<1> QED BY <1>5, <1>6

(* The next number of a whole history, and the history with one more version.  *)
LEMMA NextNumber ==
    ASSUME NEW c, Complete(c), NEW n \in 1..MaxVersion, Follows(n, {v.no : v \in c.versions})
    PROVE  n = Cardinality(c.versions) + 1
<1>1. Cardinality(c.versions) \in Nat
  BY FS_CardinalityType DEF Complete
<1>2. (\A m \in 1..Cardinality(c.versions) : m < n) /\ (n = 1 \/ n - 1 \in 1..Cardinality(c.versions))
  BY DEF Complete, Follows
<1>3. \A k \in Nat : (\A m \in 1..k : m < n) /\ (n = 1 \/ n - 1 \in 1..k) => n = k + 1
  <2> SUFFICES ASSUME NEW k \in Nat, \A m \in 1..k : m < n, n = 1 \/ n - 1 \in 1..k
               PROVE  n = k + 1
    OBVIOUS
  <2>1. k = 0 \/ k < n
    OBVIOUS
  <2> QED BY <2>1, CasesAssumption
<1> QED BY <1>1, <1>2, <1>3

LEMMA OneMore ==
    ASSUME NEW c, Complete(c), NEW v, v.no = Cardinality(c.versions) + 1,
           NEW S, S = c.versions \cup {v}
    PROVE  /\ IsFiniteSet(S) /\ Cardinality(S) = Cardinality(c.versions) + 1
           /\ {w.no : w \in S} = 1..Cardinality(S)
<1>1. Cardinality(c.versions) \in Nat /\ IsFiniteSet(c.versions)
  BY FS_CardinalityType DEF Complete
<1>2. v \notin c.versions
  <2>1. v.no \notin 1..Cardinality(c.versions)
    BY <1>1
  <2> QED BY <2>1 DEF Complete
<1>3. IsFiniteSet(S) /\ Cardinality(S) = Cardinality(c.versions) + 1
  BY <1>1, <1>2, FS_AddElement
<1>4. {w.no : w \in S} = {w.no : w \in c.versions} \cup {v.no}
  OBVIOUS
<1>5. {w.no : w \in S} = 1..(Cardinality(c.versions) + 1)
  BY <1>1, <1>4 DEF Complete
<1> QED BY <1>3, <1>5

LEMMA ReadVersionNoAlone ==
    ASSUME Inv, OneAtATime, NEW r \in Requests, ReadVersionNo(r), calm'
    PROVE  Settled(r)'
<1>1. /\ TypeOK /\ calm /\ InFlight(r) /\ pc[r] = "number"
      /\ UNCHANGED <<job, answer, at, made, choice, loaded, covered, locked, database, files, history>>
  BY DEF Inv, ReadVersionNo, InFlight
<1>2. /\ Alone(r) /\ Fits(r) /\ TidyBut(r) /\ Op(r)' = Op(r)
      /\ rows[number[r]] # None /\ loaded[r] = rows[number[r]] /\ number[r] \in Stored
  BY <1>1, WhenAlone DEF Op, Alone, UpToDate, Fits, OnRow, Stored
<1>3. /\ Op(r) \in {"generate", "script", "edit", "status"}
      /\ pc'[r] = CASE Op(r) = "edit" -> "deleteSteps" [] Op(r) = "generate" -> "addVersion" [] OTHER -> "commit"
  BY <1>1, <1>2, PayloadType DEF ReadVersionNo, Goto, TypeOK, Alone, Course, Operations
<1>4. PICK n \in 1..MaxVersion : /\ Follows(n, {v.no : v \in rows[number[r]].versions})
                                 /\ no' = [no EXCEPT ![r] = n]
  BY <1>2 DEF ReadVersionNo, Present
<1>5. no'[r] = Cardinality(rows[number[r]].versions) + 1
  BY <1>1, <1>2, <1>4, NextNumber DEF TidyBut, TypeOK
<1>6. TidyBut(r)'
  BY <1>1, <1>2, <1>3, TidyStays DEF Lacks, Strays
<1>7. pc'[r] \in Course(Op(r)) /\ InFlight(r)'
  BY <1>3 DEF Course, InFlight
<1>8. UpToDate(r)'
  BY <1>1, <1>2, <1>3, <1>5 DEF Alone, UpToDate, Numbered
<1>9. Op(r) = "generate" => Aimed(r)'
  BY <1>3 DEF Aimed
<1> QED BY <1>2, <1>6, <1>7, <1>8, <1>9 DEF Settled, Alone

LEMMA DeleteStepsAlone ==
    ASSUME Inv, OneAtATime, NEW r \in Requests, DeleteSteps(r), calm'
    PROVE  Settled(r)'
<1>1. /\ TypeOK /\ calm /\ InFlight(r) /\ pc[r] = "deleteSteps"
      /\ UNCHANGED <<job, answer, at, made, choice, loaded, no, database, files, history>>
  BY DEF Inv, DeleteSteps, InFlight
<1>2. /\ Alone(r) /\ Fits(r) /\ TidyBut(r) /\ Op(r)' = Op(r)
      /\ rows[number[r]] # None /\ loaded[r] = rows[number[r]] /\ loaded[r] \in Case
      /\ \A q \in Requests \ {r} : locked[q] = None
  BY <1>1, WhenAlone DEF Op, Alone, UpToDate, Fits, OnRow
<1>3. Holders(r) = {}
  BY <1>2, CasesAssumption DEF Holders, Case
<1>4. covered'[r] = rows[number[r]].steps /\ pc'[r] = IF Op(r) = "script" THEN "number" ELSE "commit"
  BY <1>1, <1>2, <1>3 DEF DeleteSteps, Deleted, Present, Goto, TypeOK
<1>5. TidyBut(r)'
  BY <1>1, <1>2, TidyStays DEF Lacks, Strays
<1>6. pc'[r] \in Course(Op(r)) /\ InFlight(r)'
  BY <1>1, <1>2, <1>4, PayloadType DEF Alone, Course, InFlight, Operations
<1>7. UpToDate(r)'
  BY <1>1, <1>2, <1>4 DEF Alone, UpToDate, Numbered, Fits
<1>8. Op(r) = "generate" => Aimed(r)'
  BY <1>1, <1>2, <1>4 DEF Alone, Aimed, Op, CasesOf, Stored, Point
<1> QED BY <1>2, <1>5, <1>6, <1>7, <1>8 DEF Settled, Alone

LEMMA RefreshAlone ==
    ASSUME Inv, OneAtATime, NEW r \in Requests, Refresh(r), calm'
    PROVE  Settled(r)'
<1>1. /\ TypeOK /\ calm /\ InFlight(r) /\ pc[r] \in {"refresh", "refreshNew"}
      /\ UNCHANGED <<job, at, made, choice, covered, no, database, files, history>>
  BY DEF Inv, Refresh, InFlight
<1>2. /\ Alone(r) /\ Fits(r) /\ TidyBut(r) /\ Op(r)' = Op(r) /\ Present(r)
  BY <1>1, WhenAlone DEF Op, Alone, UpToDate, Present
<1>3. /\ pc'[r] = (IF pc[r] = "refresh" THEN "number" ELSE "addVersion") /\ UNCHANGED locked
      /\ loaded'[r] = rows[number[r]] /\ rows[number[r]] # None
  BY <1>1, <1>2 DEF Refresh, Goto, TypeOK, Present
<1>4. Op(r) \in {"generate", "create"} /\ (pc[r] = "refresh" => Op(r) = "generate")
  BY <1>1, <1>2 DEF Fits
<1>5. TidyBut(r)'
  BY <1>1, <1>2, <1>3, <1>4, TidyStays DEF Lacks, Strays
<1>6. pc'[r] \in Course(Op(r)) /\ InFlight(r)'
  BY <1>1, <1>3, <1>4 DEF Course, InFlight
<1>7. UpToDate(r)'
  BY <1>1, <1>2, <1>3, <1>4 DEF Alone, UpToDate, Numbered
<1>8. Aimed(r)'
  BY <1>1, <1>3 DEF Aimed
<1> QED BY <1>2, <1>5, <1>6, <1>7, <1>8 DEF Settled, Alone

LEMMA WriteFileAlone ==
    ASSUME Inv, OneAtATime, NEW r \in Requests, WriteFile(r), calm'
    PROVE  Settled(r)'
<1>1. /\ TypeOK /\ calm /\ InFlight(r) /\ pc[r] \in {"write", "sync"}
      /\ files' = [files EXCEPT ![path[r]] = Mine(r)]
      /\ UNCHANGED <<job, answer, at, made, choice, session, database, history>>
  BY DEF Inv, WriteFile, InFlight
<1>2. /\ Alone(r) /\ Fits(r) /\ TidyBut(r) /\ Op(r)' = Op(r) /\ Op(r) = "generate" /\ number[r] \in Numbers
      /\ path[r] = number[r] /\ Point(r)' = Point(r)
      /\ number[r] \in CasesOf(Point(r)) \/ (CasesOf(Point(r)) = {} /\ number[r] \notin Stored)
  BY <1>1, WhenAlone DEF Op, Alone, Fits, Aimed, Point
<1>3. pc'[r] = IF pc[r] = "write" THEN "match" ELSE IF loaded[r] = None THEN "insert" ELSE "deleteSteps"
  BY <1>1 DEF WriteFile, Goto, TypeOK
<1>4. files'[number[r]] = Mine(r) /\ Mine(r).point = Point(r) /\ Mine(r) # None
      /\ \A n \in Numbers \ {number[r]} : files'[n] = files[n]
  <2>1. Mine(r) \in Content
    BY <1>2, MineType, <1>1 DEF Fits
  <2> QED BY <1>1, <1>2, <2>1, CasesAssumption DEF TypeOK, Mine
<1>5. pc[r] = "sync" => (loaded[r] = None <=> number[r] \notin Stored) /\ loaded[r] = rows[number[r]]
  BY <1>2 DEF Alone, Aimed, Stored
<1>6. Stored' = Stored /\ \A n \in Stored : n \in Numbers
  BY <1>1 DEF Stored
<1>7. \A n \in Stored : Filed(n)'
  <2>1. \A n \in Stored : Filed(n)
    BY <1>2 DEF TidyBut
  <2>2. number[r] \in Stored => rows[number[r]].script.point = Point(r)
    BY <1>2 DEF CasesOf
  <2> QED BY <1>1, <1>4, <1>6, <2>1, <2>2 DEF Filed
<1>8. \A n \in (OnDisk \ Stored)' : Strays(r)' /\ n = number[r]
  <2>1. \A n \in OnDisk' \ Stored : n \in OnDisk \/ n = number[r]
    BY <1>4 DEF OnDisk
  <2>2. number[r] \notin Stored => Strays(r)'
    BY <1>1, <1>3, <1>5 DEF Strays
  <2> QED BY <1>2, <1>6, <2>1, <2>2 DEF TidyBut
<1>9. TidyBut(r)'
  BY <1>1, <1>2, <1>6, <1>7, <1>8 DEF TidyBut, Lacks
<1>10. pc'[r] \in Course(Op(r)) /\ InFlight(r)'
  BY <1>2, <1>3 DEF Course, InFlight
<1>11. UpToDate(r)'
  BY <1>1, <1>2, <1>3, <1>5 DEF UpToDate, Stored
<1>12. Aimed(r)'
  BY <1>1, <1>2, <1>3, <1>4, <1>5 DEF Aimed, CasesOf, Stored
<1> QED BY <1>2, <1>9, <1>10, <1>11, <1>12 DEF Settled, Alone

LEMMA InsertCaseAlone ==
    ASSUME Inv, OneAtATime, NEW r \in Requests, InsertCase(r), calm'
    PROVE  Settled(r)'
<1>1. /\ TypeOK /\ calm /\ InFlight(r) /\ pc[r] = "insert"
      /\ UNCHANGED <<job, at, made, choice, covered, files, history>>
  BY DEF Inv, InsertCase, InFlight
<1>2. /\ Alone(r) /\ Fits(r) /\ TidyBut(r) /\ Op(r)' = Op(r) /\ Op(r) \in {"generate", "create"}
      /\ number[r] \in Numbers /\ number[r] \notin Stored /\ rows[number[r]] = None
  BY <1>1, WhenAlone DEF Op, Alone, UpToDate, Fits, Stored
<1>3. PICK new : /\ new = [id |-> serial + 1, script |-> Mine(r), steps |-> {Written(Mine(r))}, versions |-> {}]
                 /\ rows' = [rows EXCEPT ![number[r]] = new] /\ loaded'[r] = new
                 /\ no'[r] = 1 /\ pc'[r] = "refreshNew"
  <2> DEFINE c == [id |-> serial + 1, script |-> Mine(r), steps |-> {Written(Mine(r))}, versions |-> {}]
  <2>1. /\ rows' = [rows EXCEPT ![number[r]] = c] /\ loaded' = [loaded EXCEPT ![r] = c]
        /\ no' = [no EXCEPT ![r] = 1] /\ pc' = [pc EXCEPT ![r] = "refreshNew"]
    BY <1>2 DEF InsertCase, Goto
  <2>2. r \in DOMAIN loaded /\ r \in DOMAIN no /\ r \in DOMAIN pc
    BY <1>1 DEF TypeOK
  <2> HIDE DEF c
  <2>3. loaded'[r] = c /\ no'[r] = 1 /\ pc'[r] = "refreshNew"
    BY <2>1, <2>2
  <2> QED BY <2>1, <2>3 DEF c
<1>4. /\ new.script = Mine(r) /\ new.steps = {Written(Mine(r))} /\ new.versions = {} /\ new # None
      /\ rows'[number[r]] = new /\ \A n \in Numbers \ {number[r]} : rows'[n] = rows[n]
  <2>1. new # None
    <3>1. Inv'
      BY StepKeeps DEF Step
    <3>2. number'[r] = number[r] /\ rows'[number[r]] = new /\ loaded'[r] \in Case
      BY <1>1, <1>2, <1>3, <3>1 DEF Inv, TypeOK, Fits, OnRow
    <3> QED BY <1>3, <3>2, CasesAssumption
  <2> QED BY <1>1, <1>2, <1>3, <2>1 DEF TypeOK
<1>5. Stored' = Stored \cup {number[r]} /\ \A n \in Stored : n \in Numbers \ {number[r]}
  BY <1>2, <1>4 DEF Stored
<1>6. Cardinality(new.versions) = 0 /\ Complete(new)
  <2>1. {v.no : v \in new.versions} = 1..0
    BY <1>4
  <2> QED BY <1>4, <2>1, FS_EmptySet DEF Complete, Written
<1>7. Mine(r).point # None => Op(r) = "generate" /\ Mine(r).point = Point(r)
  BY <1>2 DEF Mine
<1>8. Op(r) = "generate" => /\ CasesOf(Point(r)) = {}
                            /\ files[number[r]] # None /\ files[number[r]].point = Point(r)
  BY <1>1, <1>2 DEF Alone, Aimed
<1>9. \A n \in Stored' : Complete(rows'[n]) /\ Filed(n)' /\ (Recent(rows'[n]) \/ (Lacks(r)' /\ n = number[r]))
  <2>1. Lacks(r)'
    BY <1>3 DEF Lacks
  <2>2. Filed(number[r])'
    BY <1>1, <1>4, <1>7, <1>8 DEF Filed
  <2>3. ASSUME NEW n \in Stored
        PROVE  Complete(rows'[n]) /\ Filed(n)' /\ Recent(rows'[n])
    <3>1. Complete(rows[n]) /\ Filed(n) /\ Recent(rows[n])
      BY <1>1, <1>2 DEF TidyBut, Lacks
    <3> QED BY <1>1, <1>4, <1>5, <3>1 DEF Filed
  <2> QED BY <1>1, <1>4, <1>5, <1>6, <2>1, <2>2, <2>3
<1>10. \A m, n \in Stored' : rows'[m].script.point = rows'[n].script.point /\ rows'[m].script.point # None => m = n
  <2>1. \A n \in Stored : Mine(r).point # None => rows[n].script.point # Mine(r).point
    BY <1>7, <1>8 DEF CasesOf
  <2> QED BY <1>2, <1>4, <1>5, <2>1 DEF TidyBut
<1>11. \A n \in OnDisk' \ Stored' : FALSE
  BY <1>1, <1>2, <1>5 DEF TidyBut, OnDisk
<1>12. TidyBut(r)'
  BY <1>1, <1>9, <1>10, <1>11 DEF TidyBut
<1>13. pc'[r] \in Course(Op(r)) /\ InFlight(r)'
  BY <1>2, <1>3 DEF Course, InFlight
<1>14. UpToDate(r)'
  BY <1>1, <1>3, <1>4, <1>6 DEF UpToDate, Numbered
<1>15. Aimed(r)'
  BY <1>3 DEF Aimed
<1> QED BY <1>2, <1>12, <1>13, <1>14, <1>15 DEF Settled, Alone

(* A commit that changes one case and keeps its point.                         *)
LEMMA RowChanges ==
    ASSUME TypeOK, NEW r \in Requests, TidyBut(r), number[r] \in Stored, UNCHANGED <<number, files>>,
           NEW new, new # None, rows' = [rows EXCEPT ![number[r]] = new],
           new.script.point = rows[number[r]].script.point,
           Complete(new), Recent(new) \/ Lacks(r)',
           ~Strays(r)
    PROVE  TidyBut(r)'
<1>1. number[r] \in Numbers /\ rows'[number[r]] = new /\ \A n \in Numbers \ {number[r]} : rows'[n] = rows[n]
  BY DEF Stored, TypeOK
<1>2. Stored' = Stored /\ OnDisk' = OnDisk /\ \A n \in Stored : n \in Numbers
  BY <1>1 DEF Stored, OnDisk
<1>3. \A n \in Stored : rows'[n].script.point = rows[n].script.point
  BY <1>1, <1>2
<1>4. \A n \in Stored : Filed(n)'
  BY <1>3 DEF Filed, TidyBut
<1>5. \A n \in Stored : Complete(rows'[n]) /\ (Recent(rows'[n]) \/ (Lacks(r)' /\ n = number[r]))
  BY <1>1, <1>2 DEF TidyBut
<1>6. \A m, n \in Stored : rows'[m].script.point = rows'[n].script.point /\ rows'[m].script.point # None => m = n
  BY <1>3 DEF TidyBut
<1> QED BY <1>2, <1>4, <1>5, <1>6 DEF TidyBut

LEMMA CommitUpdateAlone ==
    ASSUME Inv, OneAtATime, NEW r \in Requests, CommitUpdate(r), calm'
    PROVE  Settled(r)'
<1>1. /\ TypeOK /\ calm /\ InFlight(r) /\ pc[r] = "commit" /\ Op(r) # "delete"
      /\ UNCHANGED <<job, at, made, choice, loaded, covered, no, serial, files, history>>
  BY DEF Inv, CommitUpdate, InFlight
<1> DEFINE old == rows[number[r]]
<1>2. /\ Alone(r) /\ Fits(r) /\ TidyBut(r) /\ Op(r)' = Op(r)
      /\ old # None /\ loaded[r] = old /\ number[r] \in Stored /\ old \in Case /\ Present(r)
      /\ Complete(old) /\ Recent(old)
  <2>1. Alone(r) /\ Fits(r) /\ TidyBut(r) /\ old # None /\ loaded[r] = old
    BY <1>1, WhenAlone DEF Alone, UpToDate
  <2>2. number[r] \in Stored /\ loaded[r] \in Case
    BY <1>1, <2>1 DEF Fits, OnRow, Stored
  <2> QED BY <1>1, <2>1, <2>2 DEF Op, Present, TidyBut, Lacks
<1>3. Op(r) \in {"generate", "script", "edit", "retag", "status"}
  BY <1>1, <1>2, PayloadType DEF Alone, Course, Operations
<1>4. Op(r) # "status" => StepsLeft(r) = {}
  BY <1>1, <1>2 DEF StepsLeft, Alone, UpToDate
<1>5. ~Collides(r)
  BY <1>4 DEF Collides
<1>6. Updated(r) \in Case /\ Updated(r).id = old.id
  BY <1>1, <1>2, <1>5, UpdatedType
<1>7. PICK new : new = Updated(r)
  OBVIOUS
<1>8. rows' = [rows EXCEPT ![number[r]] = new] /\ new # None
  BY <1>1, <1>2, <1>5, <1>6, <1>7, CasesAssumption DEF CommitUpdate
<1>9. new.script = Script(r) /\ new.script.point = old.script.point
  <2>1. Op(r) = "generate" => Point(r) = old.script.point
    BY <1>1, <1>2 DEF Alone, Aimed, CasesOf
  <2>2. new.script = Script(r)
    BY <1>7 DEF Updated
  <2> QED BY <1>2, <1>3, <2>1, <2>2 DEF Script, Mine
<1>10. \A s \in new.steps : s.of = new.script
  <2>1. CASE Op(r) = "status"
    BY <1>2, <1>7, <1>9, <2>1 DEF Updated, Script, Complete
  <2>2. CASE Op(r) # "status"
    <3>1. new.steps = {NewSteps(r)}
      BY <1>4, <1>7, <2>2 DEF Updated
    <3>2. NewSteps(r).of = Script(r)
      BY <1>2, <1>3, <2>2 DEF NewSteps, Script
    <3> QED BY <1>9, <3>1, <3>2
  <2> QED BY <2>1, <2>2
<1>11. CASE Op(r) \in {"script", "edit", "status"}
  <2>1. new.versions = old.versions \cup {NewVersion(r)}
    BY <1>7, <1>11 DEF Updated
  <2>2. NewVersion(r).no = Cardinality(old.versions) + 1 /\ NewVersion(r).script = new.script
    BY <1>1, <1>2, <1>9, <1>11 DEF Alone, UpToDate, Numbered, NewVersion, Script
  <2>3. Complete(new) /\ Recent(new)
    <3>1. /\ IsFiniteSet(new.versions) /\ Cardinality(new.versions) = Cardinality(old.versions) + 1
          /\ {v.no : v \in new.versions} = 1..Cardinality(new.versions)
      <4> HIDE DEF old
      <4> QED BY <1>2, <2>1, <2>2, OneMore
    <3> QED BY <1>10, <2>1, <2>2, <3>1 DEF Complete, Recent
  <2>4. pc'[r] = "done" /\ locked'[r] = None
    BY <1>1, <1>2, <1>5, <1>11 DEF CommitUpdate, End, Goto, Release, TypeOK
  <2>5. TidyBut(r)'
    BY <1>1, <1>2, <1>8, <1>9, <2>3, RowChanges DEF Strays
  <2> QED BY <2>4, <2>5 DEF Settled, InFlight
<1>12. CASE Op(r) = "retag"
  <2>1. new.versions = old.versions /\ new.script = old.script
    BY <1>7, <1>9, <1>12 DEF Updated, Script
  <2>2. Complete(new) /\ Recent(new)
    BY <1>2, <1>10, <2>1 DEF Complete, Recent
  <2>3. pc'[r] = "done" /\ locked'[r] = None
    BY <1>1, <1>2, <1>5, <1>12 DEF CommitUpdate, End, Goto, Release, TypeOK
  <2>4. TidyBut(r)'
    BY <1>1, <1>2, <1>8, <1>9, <2>2, RowChanges DEF Strays
  <2> QED BY <2>3, <2>4 DEF Settled, InFlight
<1>13. CASE Op(r) = "generate"
  <2>1. new.versions = old.versions
    BY <1>7, <1>13 DEF Updated
  <2>2. Complete(new)
    BY <1>2, <1>10, <2>1 DEF Complete
  <2>3. pc'[r] = "refresh"
    BY <1>1, <1>2, <1>5, <1>13 DEF CommitUpdate, Goto, TypeOK
  <2>4. TidyBut(r)'
    BY <1>1, <1>2, <1>8, <1>9, <2>2, <2>3, RowChanges DEF Strays, Lacks
  <2>5. Present(r)'
    BY <1>1, <1>2, <1>6, <1>7, <1>8 DEF Present, Stored, TypeOK
  <2>6. UpToDate(r)' /\ Aimed(r)'
    BY <2>3, <2>5 DEF UpToDate, Aimed
  <2> QED BY <1>2, <1>13, <2>3, <2>4, <2>6 DEF Settled, Alone, Course, InFlight
<1> QED BY <1>3, <1>11, <1>12, <1>13

LEMMA AddVersionAlone ==
    ASSUME Inv, OneAtATime, NEW r \in Requests, AddVersion(r), calm'
    PROVE  Settled(r)'
<1>1. /\ TypeOK /\ calm /\ InFlight(r) /\ pc[r] = "addVersion"
      /\ UNCHANGED <<job, choice, loaded, covered, no, serial, files, history>>
  BY DEF Inv, AddVersion, InFlight
<1> DEFINE old == rows[number[r]]
<1>2. /\ Alone(r) /\ Fits(r) /\ TidyBut(r) /\ Op(r) \in {"generate", "create"}
      /\ old # None /\ loaded[r] = old /\ number[r] \in Stored /\ Present(r)
      /\ Complete(old) /\ no[r] = Cardinality(old.versions) + 1
  <2>1. Alone(r) /\ Fits(r) /\ TidyBut(r) /\ old # None /\ loaded[r] = old
    BY <1>1, WhenAlone DEF Alone, UpToDate
  <2>2. number[r] \in Stored
    BY <1>1, <2>1 DEF Fits, OnRow, Stored
  <2> QED BY <1>1, <2>1, <2>2 DEF Fits, Present, TidyBut, Alone, UpToDate, Numbered
<1>3. PICK new : new = [old EXCEPT !.versions = @ \cup {NewVersion(r)}]
  OBVIOUS
<1>4. rows' = [rows EXCEPT ![number[r]] = new]
  BY <1>2, <1>3 DEF AddVersion
<1>5. /\ new.script = old.script /\ new.steps = old.steps /\ new # None
      /\ new.versions = old.versions \cup {NewVersion(r)}
  <2>1. new \in Case /\ old \in Case
    BY <1>1, <1>2, <1>3, VersionedType DEF TypeOK, Stored
  <2> QED BY <1>3, <2>1, CasesAssumption DEF Case
<1>6. NewVersion(r).no = Cardinality(old.versions) + 1 /\ NewVersion(r).script = new.script
  BY <1>2, <1>5 DEF NewVersion
<1>7. Complete(new) /\ Recent(new)
  <2>1. /\ IsFiniteSet(new.versions) /\ Cardinality(new.versions) = Cardinality(old.versions) + 1
        /\ {v.no : v \in new.versions} = 1..Cardinality(new.versions)
    <3> HIDE DEF old
    <3> QED BY <1>2, <1>5, <1>6, OneMore
  <2> QED BY <1>2, <1>5, <1>6, <2>1 DEF Complete, Recent
<1>8. TidyBut(r)'
  BY <1>1, <1>2, <1>4, <1>5, <1>7, RowChanges DEF Strays
<1>9. CASE Op(r) = "generate"
  BY <1>1, <1>2, <1>8, <1>9, NextPointAlone DEF AddVersion
<1>10. CASE Op(r) = "create"
  <2>1. pc'[r] = "done" /\ locked'[r] = None
    BY <1>1, <1>2, <1>10 DEF AddVersion, End, Goto, Release, TypeOK
  <2> QED BY <1>8, <2>1 DEF Settled, InFlight
<1> QED BY <1>2, <1>9, <1>10

LEMMA CommitDeleteAlone ==
    ASSUME Inv, OneAtATime, NEW r \in Requests, CommitDelete(r), calm'
    PROVE  Settled(r)'
<1>1. /\ TypeOK /\ calm /\ InFlight(r) /\ pc[r] = "commit" /\ Op(r) = "delete"
      /\ UNCHANGED <<job, answer, at, made, choice, loaded, covered, no, serial, files, history>>
  BY DEF Inv, CommitDelete, InFlight
<1>2. /\ Alone(r) /\ TidyBut(r) /\ Op(r)' = Op(r) /\ Present(r) /\ number[r] \in Numbers
  BY <1>1, WhenAlone DEF Op, Alone, UpToDate, Fits, OnRow, Present
<1>3. /\ pc'[r] = "unlink" /\ rows'[number[r]] = None /\ \A n \in Numbers \ {number[r]} : rows'[n] = rows[n]
  BY <1>1, <1>2 DEF CommitDelete, Goto, TypeOK
<1>4. Stored' = Stored \ {number[r]} /\ OnDisk' = OnDisk /\ \A n \in Stored' : rows'[n] = rows[n] /\ n \in Stored
  BY <1>1, <1>2, <1>3 DEF Stored, OnDisk
<1>5. \A n \in Stored' : Filed(n)'
  BY <1>1, <1>2, <1>4 DEF TidyBut, Filed
<1>6. \A n \in Stored' : Complete(rows'[n]) /\ Recent(rows'[n])
  BY <1>1, <1>2, <1>4 DEF TidyBut, Lacks
<1>7. \A n \in OnDisk' \ Stored' : Strays(r)' /\ n = number[r]
  BY <1>1, <1>2, <1>3, <1>4 DEF TidyBut, Strays
<1>8. TidyBut(r)'
  BY <1>1, <1>2, <1>4, <1>5, <1>6, <1>7 DEF TidyBut
<1>9. number[r] \notin Stored'
  BY <1>4
<1>10. UpToDate(r)'
  BY <1>1, <1>3, <1>9 DEF UpToDate
<1> QED BY <1>1, <1>2, <1>3, <1>8, <1>10 DEF Settled, Alone, Course, InFlight

LEMMA UnlinkAlone ==
    ASSUME Inv, OneAtATime, NEW r \in Requests, Unlink(r), calm'
    PROVE  Settled(r)'
<1>1. /\ TypeOK /\ calm /\ InFlight(r) /\ pc[r] = "unlink" /\ files' = [files EXCEPT ![number[r]] = None]
      /\ UNCHANGED <<job, at, made, choice, loaded, covered, no, database, history>>
  BY DEF Inv, Unlink, InFlight
<1>2. TidyBut(r) /\ number[r] \in Numbers /\ number[r] \notin Stored
  BY <1>1, WhenAlone DEF Alone, UpToDate, Fits, OnRow
<1>3. pc'[r] = "done" /\ locked'[r] = None
  BY <1>1 DEF Unlink, End, Goto, Release, TypeOK
<1>4. Stored' = Stored /\ (\A n \in Stored : files'[n] = files[n]) /\ OnDisk' = OnDisk \ {number[r]}
  BY <1>1, <1>2 DEF Stored, OnDisk, TypeOK
<1>5. \A n \in Stored : Filed(n)'
  BY <1>1, <1>2, <1>4 DEF TidyBut, Filed
<1>6. TidyBut(r)'
  BY <1>1, <1>2, <1>4, <1>5 DEF TidyBut, Lacks
<1> QED BY <1>3, <1>6 DEF Settled, InFlight

LEMMA OneAtATimeInit == Init => OneAtATime
<1> SUFFICES ASSUME Init
             PROVE  OneAtATime
  OBVIOUS
<1>1. \A r \in Requests : ~InFlight(r) /\ locked[r] = None
  BY DEF Init, InFlight
<1>2. PICK p \in Beforehand \cup {None} :
        /\ rows = [n \in Numbers |-> IF n = 1 /\ p # None THEN ReadyCase(p) ELSE None]
        /\ files = [n \in Numbers |-> IF n = 1 /\ p # None THEN Ready(p) ELSE None]
  BY DEF Init
<1>3. \A n \in Stored \cup OnDisk : n = 1 /\ n \in Numbers /\ p # None
  BY <1>2 DEF Stored, OnDisk
<1>4. CASE p = None
  BY <1>1, <1>3, <1>4 DEF OneAtATime, Tidy
<1>5. CASE p # None
  <2>1. 1 \in Numbers /\ rows[1] = ReadyCase(p) /\ files[1] = Ready(p) /\ p \in Points
    BY <1>2, <1>5, CasesAssumption DEF Numbers
  <2>2. Ready(p) \in Content /\ ReadyCase(p) \in Case /\ ReadyCase(p).script = Ready(p)
    <3>1. Ready(p) \in Content
      BY <2>1 DEF Ready, Content
    <3>2. Inv
      BY InvInit
    <3>3. ReadyCase(p).script = Ready(p)
      BY DEF ReadyCase
    <3>4. ReadyCase(p) # None
      <4>1. ReadyCase(p) \in Case
        <5>1. Written(Ready(p)) \in StepRows
          BY <3>1 DEF Written, StepRows, Content
        <5>2. [no |-> 1, script |-> Ready(p), by |-> None] \in Versions
          BY <3>1, CasesAssumption DEF Versions
        <5> QED BY <3>1, <5>1, <5>2 DEF ReadyCase, Case
      <4> QED BY <4>1, CasesAssumption
    <3> QED BY <2>1, <3>1, <3>2, <3>3, <3>4 DEF Inv, TypeOK
  <2>3. Stored = {1} /\ OnDisk = {1}
    BY <1>3, <2>1, <2>2, CasesAssumption DEF Stored, OnDisk
  <2>4. Complete(ReadyCase(p)) /\ Recent(ReadyCase(p))
    <3>1. /\ ReadyCase(p).versions = {[no |-> 1, script |-> Ready(p), by |-> None]}
          /\ ReadyCase(p).steps = {Written(Ready(p))}
      BY DEF ReadyCase
    <3>2. IsFiniteSet(ReadyCase(p).versions) /\ Cardinality(ReadyCase(p).versions) = 1
      <4>1. \A v : IsFiniteSet({v}) /\ Cardinality({v}) = 1
        BY FS_Singleton
      <4> QED BY <3>1, <4>1, Zenon
    <3>3. {v.no : v \in ReadyCase(p).versions} = 1..1
      BY <3>1
    <3> QED BY <2>2, <3>1, <3>2, <3>3 DEF Complete, Recent, Written
  <2>5. Filed(1)
    BY <2>1, <2>2, CasesAssumption DEF Filed
  <2> QED BY <1>1, <2>1, <2>3, <2>4, <2>5 DEF OneAtATime, Tidy
<1> QED BY <1>4, <1>5

LEMMA OneAtATimeNext == Inv /\ OneAtATime /\ [Next]_vars => OneAtATime'
<1> SUFFICES ASSUME Inv, OneAtATime, [Next]_vars
             PROVE  OneAtATime'
  OBVIOUS
<1>1. CASE Crash
  BY <1>1 DEF Crash, Fault, OneAtATime
<1>2. ASSUME NEW r \in Requests, Begin(r)
      PROVE  OneAtATime'
  <2>1. (calm' => calm) /\ (calm' => Quiet)
    BY <1>2 DEF Begin, Quiet
  <2> QED BY <1>2, <2>1, BeginAlone, OneGoesOn
<1>3. ASSUME NEW r \in Requests, Step(r)
      PROVE  OneAtATime'
  <2>1. CASE Fails(r)
    BY <2>1 DEF Fails, Fault, OneAtATime
  <2>2. CASE ~Fails(r)
    <3>1. InFlight(r) /\ UNCHANGED calm
      BY <1>3, <2>2 DEF Step, InFlight, Lookup, Collect, Reject, Allocate, WriteFile, Match,
                        Load, Resolve,
           ReadVersionNo, DeleteSteps, Unblock, InsertCase, CommitUpdate, Refresh, AddVersion, CommitDelete, Unlink
    <3>2. calm' => ~Unblock(r)
      BY <3>1, WhenAlone, PayloadType DEF Unblock, Alone, Course, Inv
    <3>3. calm' => Settled(r)'
      BY <1>3, <2>2, <3>2, LookupAlone, CollectAlone, RejectAlone, AllocateAlone, WriteFileAlone,
         MatchAlone,
         LoadAlone, ResolveAlone, ReadVersionNoAlone, DeleteStepsAlone, InsertCaseAlone, CommitUpdateAlone,
         RefreshAlone, AddVersionAlone, CommitDeleteAlone, UnlinkAlone DEF Step
    <3> QED BY <1>3, <3>1, <3>3, OneGoesOn
  <2> QED BY <2>1, <2>2
<1>4. CASE UNCHANGED vars
  <2>1. UNCHANGED <<job, pc, at, wanted, known, number, path, loaded, covered, no, locked, rows, files, calm>>
    BY <1>4 DEF vars
  <2> QED BY <2>1 DEF OneAtATime, InFlight, Alone, UpToDate, Aimed, Numbered, Present, Tidy,
                      Filed, Lacks,
                      Strays, CasesOf, Stored, OnDisk, Point, Op
<1> QED BY <1>1, <1>2, <1>3, <1>4 DEF Next
-------------------------------------------------------------------------------
(* As long as requests do not overlap and nothing fails, the steps of a case   *)
(* are those of its script, its versions are numbered 1, 2, 3 ..., and the     *)
(* last one is the script: also across the two transactions in which a case is *)
(* generated, between which it lacks its last version.                         *)
THEOREM CalmHistoriesAreWhole == Spec => []CalmHistory
<1>1. Inv /\ OneAtATime => CalmHistory
  <2> SUFFICES ASSUME Inv, OneAtATime, calm, Quiet, NEW n \in Stored
               PROVE  /\ \A s \in rows[n].steps : s.of = rows[n].script
                      /\ {v.no : v \in rows[n].versions} = 1..Cardinality(rows[n].versions)
                      /\ \E v \in rows[n].versions :
                             v.no = Cardinality(rows[n].versions) /\ v.script = rows[n].script
    BY DEF CalmHistory
  <2>1. \A r \in Requests : ~Lacks(r)
    BY DEF Quiet, InFlight, Lacks
  <2>2. Complete(rows[n]) /\ Recent(rows[n])
    BY <2>1 DEF OneAtATime, Tidy
  <2> QED BY <2>2 DEF Complete, Recent
<1>2. Spec => []OneAtATime
  <2>1. Spec => []Inv
    BY AlwaysInv
  <2> QED BY <2>1, OneAtATimeInit, OneAtATimeNext, PTL DEF Spec
<1> QED BY <1>1, <1>2, AlwaysInv, PTL

(* ... and a point has one case at most, with a file of its number that is for *)
(* the same point, and every file has its case: a generation that finds the    *)
(* case of its point writes to it, and one that does not takes a number that   *)
(* neither a row nor a file has.                                               *)
THEOREM CalmCasesMatch == Spec => []CalmCases
<1>1. Inv /\ OneAtATime => CalmCases
  <2> SUFFICES ASSUME Inv, OneAtATime, calm, Quiet
               PROVE  /\ \A p \in Points : Cardinality(CasesOf(p)) <= 1
                      /\ \A n \in Stored : rows[n].script.point # None =>
                             files[n] # None /\ files[n].point = rows[n].script.point
                      /\ OnDisk \subseteq Stored
    BY DEF CalmCases
  <2>1. Tidy /\ \A r \in Requests : ~Strays(r)
    BY DEF OneAtATime, Quiet, InFlight, Strays
  <2>2. ASSUME NEW p \in Points
        PROVE  Cardinality(CasesOf(p)) <= 1
    <3>1. \A m, n \in CasesOf(p) : m = n
      BY <2>1, CasesAssumption DEF CasesOf, Tidy
    <3>2. CASE CasesOf(p) = {}
      BY <3>2, FS_EmptySet
    <3>3. CASE CasesOf(p) # {}
      <4>1. PICK n \in CasesOf(p) : CasesOf(p) = {n}
        BY <3>1, <3>3
      <4>2. Cardinality({n}) = 1
        BY FS_Singleton
      <4> QED BY <4>1, <4>2
    <3> QED BY <3>2, <3>3
  <2> QED BY <2>1, <2>2 DEF Tidy, Filed
<1>2. Spec => []OneAtATime
  <2>1. Spec => []Inv
    BY AlwaysInv
  <2> QED BY <2>1, OneAtATimeInit, OneAtATimeNext, PTL DEF Spec
<1> QED BY <1>1, <1>2, AlwaysInv, PTL
===============================================================================
