------------------------------- MODULE TestCases -------------------------------
(* The test cases of one page: their generation from approved test points, and *)
(* the case center, which edits and deletes them.  A case is a row of           *)
(* test_cases with its rows of test_case_steps and test_case_versions, and a    *)
(* YAML file named after its number.  Requests run in threads of their own,     *)
(* each with a session at READ COMMITTED; only rows that a statement has        *)
(* changed are locked, until the commit.                                       *)
(*                                                                             *)
(* A script, and the steps derived from it, is reduced to the test point it is *)
(* for and the request that wrote it.                                          *)
EXTENDS Integers, FiniteSets, Sequences

CONSTANTS
    Requests, Points,
    Jobs,                           \* what a request may ask, see JobShape
    Beforehand,                     \* the points that may have a case at first
    MaxNumber, MaxVersion,          \* bounds on the numbers of cases and of versions
    MaxFaults,                      \* bound on the calls that fail and the crashes
    None

Numbers == 1..MaxNumber
Operations == {"generate", "create", "script", "edit", "retag", "status", "delete"}
JobShape == [op : Operations, points : Seq(Points), number : Numbers]

Content == [point : Points \cup {None}, by : Requests \cup {None}]
(* The rows of test_case_steps that one flush inserts.                         *)
StepRows == [of : Content, by : Requests \cup {None}]
Versions == [no : 1..MaxVersion, script : Content, by : Requests \cup {None}]
Case == [id : Nat, script : Content, steps : SUBSET StepRows, versions : SUBSET Versions]

ASSUME CasesAssumption ==
    /\ Jobs \subseteq JobShape
    /\ \A j \in Jobs : j.op = "generate" => j.points # << >>
    /\ Beforehand \subseteq Points
    /\ MaxNumber \in Nat \ {0} /\ MaxVersion \in Nat \ {0} /\ MaxFaults \in Nat
    /\ None \notin Case /\ None \notin Content /\ None \notin Nat
    /\ None \notin Requests /\ None \notin Points /\ None # "ok"

VARIABLES
    job, pc, answer,                \* the requests and their threads
    at, made,                       \* the point it is at; some case was generated
    wanted, known,                  \* what the number of its case is chosen from
    number, path,                   \* the case it works on, the file it writes
    loaded,                         \* the row in its session, as it was read
    covered,                        \* the rows of steps its DELETE has found
    no,                             \* the version number it has read
    rows, serial,                   \* the database, by case number; the last primary key
    files,                          \* assets/cases, by case number
    locked,                         \* the cases whose rows of steps a session has locked
    calm, faults                    \* no overlap and no fault yet; faults so far

choice == <<wanted, known, number, path>>
session == <<loaded, covered, no, locked>>
database == <<rows, serial>>
history == <<calm, faults>>
vars == <<job, pc, answer, at, made, choice, session, database, files, history>>

Written(c) == [of |-> c, by |-> c.by]
Ready(p) == [point |-> p, by |-> None]
ReadyCase(p) == [id |-> 1, script |-> Ready(p), steps |-> {Written(Ready(p))},
                 versions |-> {[no |-> 1, script |-> Ready(p), by |-> None]}]

Init ==
    /\ job \in [Requests -> Jobs]
    /\ pc = [r \in Requests |-> "idle"]
    /\ answer = [r \in Requests |-> None]
    /\ at = [r \in Requests |-> 1]
    /\ made = [r \in Requests |-> FALSE]
    /\ wanted = [r \in Requests |-> None]
    /\ known = [r \in Requests |-> {}]
    /\ number = [r \in Requests |-> None]
    /\ path = [r \in Requests |-> None]
    /\ loaded = [r \in Requests |-> None]
    /\ covered = [r \in Requests |-> {}]
    /\ no = [r \in Requests |-> None]
    /\ locked = [r \in Requests |-> None]
    /\ \E p \in Beforehand \cup {None} :
         /\ rows = [n \in Numbers |-> IF n = 1 /\ p # None THEN ReadyCase(p) ELSE None]
         /\ files = [n \in Numbers |-> IF n = 1 /\ p # None THEN Ready(p) ELSE None]
    /\ serial = 1
    /\ calm = TRUE
    /\ faults = 0

Op(r) == job[r].op
Point(r) == job[r].points[at[r]]
InFlight(r) == pc[r] \notin {"idle", "done"}
Goto(r, label) == pc' = [pc EXCEPT ![r] = label]

(* What the request writes: a generation for its point, an edit for the point  *)
(* of the case; a case that is created by hand has none.                       *)
Mine(r) == [point |-> CASE Op(r) = "generate" -> Point(r)
                        [] Op(r) = "create"   -> None
                        [] OTHER              -> loaded[r].script.point,
            by |-> r]

Stored == {n \in Numbers : rows[n] # None}
OnDisk == {n \in Numbers : files[n] # None}
CasesOf(p) == {n \in Stored : rows[n].script.point = p}

(* The row that the session has loaded is still there: an UPDATE by its        *)
(* primary key finds it, and a foreign key may point to it.                    *)
Present(r) == rows[number[r]] # None /\ rows[number[r]].id = loaded[r].id

(* next_case_sequence, _next_version_no: one more than the highest.            *)
Follows(n, S) == (\A m \in S : m < n) /\ (n = 1 \/ n - 1 \in S)

(* Mutant: a handler that ends leaves its session open, and its locks held.    *)
LeaveOpen(r) == UNCHANGED locked

(* get_db closes the session however the handler ends, which rolls back.       *)
Release(r) == locked' = [locked EXCEPT ![r] = None]

End(r, value) ==
    /\ Goto(r, "done")
    /\ answer' = [answer EXCEPT ![r] = value]
    /\ Release(r)

(* A generation goes on to its next point; it answers 422 when nothing was     *)
(* generated.                                                                  *)
NextPoint(r, done) ==
    /\ made' = [made EXCEPT ![r] = done]
    /\ IF at[r] < Len(job[r].points)
       THEN at' = [at EXCEPT ![r] = at[r] + 1] /\ Goto(r, "lookup") /\ Release(r) /\ UNCHANGED answer
       ELSE UNCHANGED at /\ End(r, IF done THEN "ok" ELSE "nothing")

FirstLabel(op) ==
    CASE op = "generate" -> "lookup" [] op = "create" -> "resolve" [] OTHER -> "load"

Begin(r) ==
    /\ pc[r] = "idle"
    /\ Goto(r, FirstLabel(Op(r)))
    /\ calm' = (calm /\ \A q \in Requests : ~InFlight(q))
    /\ UNCHANGED <<job, answer, at, made, choice, session, database, files, faults>>
-------------------------------------------------------------------------------
(* Generation: the number of the case, and its file.                           *)

(* Mutant: every generation asks for a new number.                             *)
LookupNothing(r) ==
    /\ pc[r] = "lookup"
    /\ wanted' = [wanted EXCEPT ![r] = None]
    /\ Goto(r, "collect")
    /\ UNCHANGED <<job, answer, at, made, known, number, path, session, database, files, history>>

(* _existing_case_id_for_source_intent.                                        *)
Lookup(r) ==
    /\ pc[r] = "lookup"
    /\ \/ CasesOf(Point(r)) = {} /\ wanted' = [wanted EXCEPT ![r] = None]
       \/ \E n \in CasesOf(Point(r)) : wanted' = [wanted EXCEPT ![r] = n]
    /\ Goto(r, "collect")
    /\ UNCHANGED <<job, answer, at, made, known, number, path, session, database, files, history>>

(* collect_existing_case_ids, once before the case is generated.               *)
Collect(r) ==
    /\ pc[r] = "collect"
    /\ known' = [known EXCEPT ![r] = Stored \cup OnDisk]
    /\ Goto(r, "compile")
    /\ UNCHANGED <<job, answer, at, made, wanted, number, path, session, database, files, history>>

(* A case that cannot be compiled, or that the quality gate rejects, is        *)
(* recorded, and the generation goes on with the next point.                   *)
Reject(r) ==
    /\ pc[r] \in {"compile", "write"}
    /\ NextPoint(r, made[r])
    /\ UNCHANGED <<job, choice, loaded, covered, no, database, files, history>>

(* allocate_case_id: the number of the case there is, or the next one.  The    *)
(* point has steps, so its case is compiled from them and brings no number.    *)
Allocate(r) ==
    /\ pc[r] = "compile"
    /\ \E n \in Numbers :
         /\ IF wanted[r] # None THEN n = wanted[r] ELSE Follows(n, known[r] \cup OnDisk)
         /\ number' = [number EXCEPT ![r] = n]
         /\ path' = [path EXCEPT ![r] = n]
    /\ Goto(r, "write")
    /\ UNCHANGED <<job, answer, at, made, wanted, known, session, database, files, history>>

WriteFile(r) ==
    /\ pc[r] \in {"write", "sync"}
    /\ files' = [files EXCEPT ![path[r]] = Mine(r)]
    /\ Goto(r, IF pc[r] = "write" THEN "match" ELSE IF loaded[r] = None THEN "insert" ELSE "deleteSteps")
    /\ UNCHANGED <<job, answer, at, made, choice, session, database, history>>

(* upsert_test_case_from_workbench: the case that has this number, or else the *)
(* one of the same source, or else a new one.  The file keeps its name.        *)
Match(r) ==
    /\ pc[r] = "match"
    /\ LET same == IF number[r] \in Stored THEN {number[r]} ELSE CasesOf(Point(r))
       IN  \/ same = {} /\ loaded' = [loaded EXCEPT ![r] = None] /\ UNCHANGED number
           \/ \E n \in same : /\ loaded' = [loaded EXCEPT ![r] = rows[n]]
                              /\ number' = [number EXCEPT ![r] = n]
    /\ Goto(r, "sync")
    /\ UNCHANGED <<job, answer, at, made, wanted, known, path, covered, no, locked, database, files, history>>
-------------------------------------------------------------------------------
(* The case center: a request loads the row it is about.                       *)

Load(r) ==
    /\ pc[r] = "load"
    /\ number' = [number EXCEPT ![r] = job[r].number]
    /\ loaded' = [loaded EXCEPT ![r] = rows[job[r].number]]
    /\ IF rows[job[r].number] = None
       THEN Goto(r, "done") /\ answer' = [answer EXCEPT ![r] = "not_found"]
       ELSE Goto(r, IF Op(r) \in {"edit", "status"} THEN "number" ELSE "deleteSteps") /\ UNCHANGED answer
    /\ UNCHANGED <<job, at, made, wanted, known, path, covered, no, locked, database, files, history>>

(* create_test_case with the number that its payload names.                    *)
Resolve(r) ==
    /\ pc[r] = "resolve"
    /\ number' = [number EXCEPT ![r] = job[r].number]
    /\ IF job[r].number \in Stored \cup OnDisk
       THEN Goto(r, "done") /\ answer' = [answer EXCEPT ![r] = "conflict"]
       ELSE Goto(r, "insert") /\ UNCHANGED answer
    /\ UNCHANGED <<job, at, made, wanted, known, path, session, database, files, history>>

ReadVersionNo(r) ==
    /\ pc[r] = "number"
    /\ \E n \in 1..MaxVersion :
         /\ Follows(n, IF Present(r) THEN {v.no : v \in rows[number[r]].versions} ELSE {})
         /\ no' = [no EXCEPT ![r] = n]
    /\ Goto(r, CASE Op(r) = "edit" -> "deleteSteps" [] Op(r) = "generate" -> "addVersion" [] OTHER -> "commit")
    /\ UNCHANGED <<job, answer, at, made, choice, loaded, covered, locked, database, files, history>>
-------------------------------------------------------------------------------
(* _sync_test_case_steps: its DELETE runs at once, its INSERTs at the commit.  *)

Holders(r) == {q \in Requests \ {r} : locked[q] = loaded[r].id}

Deleted(r, S) ==
    /\ locked' = [locked EXCEPT ![r] = IF Present(r) /\ rows[number[r]].steps \cap S # {}
                                      THEN loaded[r].id ELSE None]
    /\ Goto(r, IF Op(r) = "script" THEN "number" ELSE "commit")

(* A DELETE finds the rows that are committed when it starts, and waits for    *)
(* the session that has locked them.                                           *)
DeleteSteps(r) ==
    /\ pc[r] = "deleteSteps"
    /\ LET found == IF Present(r) THEN rows[number[r]].steps ELSE {}
       IN  /\ covered' = [covered EXCEPT ![r] = found]
           /\ IF Holders(r) # {} THEN Goto(r, "blocked") /\ UNCHANGED locked ELSE Deleted(r, found)
    /\ UNCHANGED <<job, answer, at, made, choice, loaded, no, database, files, history>>

(* When that session has ended, what is left of the rows is deleted.           *)
Unblock(r) ==
    /\ pc[r] = "blocked" /\ Holders(r) = {}
    /\ Deleted(r, covered[r])
    /\ UNCHANGED <<job, answer, at, made, choice, loaded, covered, no, database, files, history>>
-------------------------------------------------------------------------------
(* The commits.                                                                *)

(* A new row and its steps.  The number is unique.                             *)
InsertCase(r) ==
    /\ pc[r] = "insert"
    /\ IF number[r] \in Stored
       THEN End(r, "error") /\ UNCHANGED <<loaded, no, database>>
       ELSE LET new == [id |-> serial + 1, script |-> Mine(r), steps |-> {Written(Mine(r))}, versions |-> {}]
            IN  /\ rows' = [rows EXCEPT ![number[r]] = new]
                /\ serial' = serial + 1
                /\ loaded' = [loaded EXCEPT ![r] = new]
                /\ no' = [no EXCEPT ![r] = 1]
                /\ Goto(r, "refreshNew")
                /\ UNCHANGED <<answer, locked>>
    /\ UNCHANGED <<job, at, made, choice, covered, files, history>>

(* What the session writes to the row it has loaded: the script and its steps, *)
(* with a version in the same transaction if an edit writes it; a retagged     *)
(* case keeps its script, and gets the steps that were loaded with it.         *)
Script(r) == IF Op(r) \in {"generate", "script", "edit"} THEN Mine(r) ELSE rows[number[r]].script

(* Mutant: an edit stores the steps before it has derived them from its script. *)
UnderivedSteps(r) == [of |-> IF loaded[r] = None THEN Mine(r) ELSE loaded[r].script, by |-> r]

NewSteps(r) == [of |-> IF Op(r) = "retag" THEN loaded[r].script ELSE Mine(r), by |-> r]

(* Mutant: every version stores the script of the row, as that of a status does. *)
VersionOfRow(r) == [no |-> no[r], script |-> loaded[r].script, by |-> r]

NewVersion(r) ==
    [no |-> no[r], script |-> IF Op(r) \in {"script", "edit"} THEN Mine(r) ELSE loaded[r].script, by |-> r]

StepsLeft(r) == rows[number[r]].steps \ covered[r]

(* Mutant: test_case_steps without uq_test_case_steps_identity.                *)
NeverCollides(r) == FALSE

(* A step's index is unique in its case: the INSERT of new steps fails next to *)
(* steps that the DELETE did not find.                                         *)
Collides(r) == Op(r) # "status" /\ StepsLeft(r) # {}

Updated(r) ==
    LET old == rows[number[r]] IN
    [id |-> old.id, script |-> Script(r),
     steps |-> IF Op(r) = "status" THEN old.steps ELSE StepsLeft(r) \cup {NewSteps(r)},
     versions |-> IF Op(r) \in {"script", "edit", "status"} THEN old.versions \cup {NewVersion(r)}
                  ELSE old.versions]

CommitUpdate(r) ==
    /\ pc[r] = "commit" /\ Op(r) # "delete"
    /\ IF ~Present(r) \/ Collides(r)
       THEN End(r, "error") /\ UNCHANGED rows
       ELSE /\ rows' = [rows EXCEPT ![number[r]] = Updated(r)]
            /\ IF Op(r) = "generate" THEN Goto(r, "refresh") /\ Release(r) /\ UNCHANGED answer
               ELSE End(r, "ok")
    /\ UNCHANGED <<job, at, made, choice, loaded, covered, no, serial, files, history>>

(* The version of a case that was generated or created is a transaction of its *)
(* own, with the script that it finds in the row by then.                      *)
Refresh(r) ==
    /\ pc[r] \in {"refresh", "refreshNew"}
    /\ IF ~Present(r)
       THEN End(r, "error") /\ UNCHANGED loaded
       ELSE /\ loaded' = [loaded EXCEPT ![r] = rows[number[r]]]
            /\ Goto(r, IF pc[r] = "refresh" THEN "number" ELSE "addVersion")
            /\ UNCHANGED <<answer, locked>>
    /\ UNCHANGED <<job, at, made, choice, covered, no, database, files, history>>

AddVersion(r) ==
    /\ pc[r] = "addVersion"
    /\ IF ~Present(r)
       THEN End(r, "error") /\ UNCHANGED <<at, made, rows>>
       ELSE /\ rows' = [rows EXCEPT ![number[r]].versions = @ \cup {NewVersion(r)}]
            /\ IF Op(r) = "generate" THEN NextPoint(r, TRUE) ELSE End(r, "ok") /\ UNCHANGED <<at, made>>
    /\ UNCHANGED <<job, choice, loaded, covered, no, serial, files, history>>

(* Mutant: a deleted case is kept without its script.                          *)
EmptyRow(r) ==
    /\ pc[r] = "commit" /\ Op(r) = "delete"
    /\ rows' = IF Present(r) THEN [rows EXCEPT ![number[r]].script = None] ELSE rows
    /\ Goto(r, "unlink") /\ Release(r)
    /\ UNCHANGED <<job, answer, at, made, choice, loaded, covered, no, serial, files, history>>

(* batch_delete_test_cases: the row by its primary key, and what refers to it; *)
(* and then the file by its name.                                              *)
CommitDelete(r) ==
    /\ pc[r] = "commit" /\ Op(r) = "delete"
    /\ rows' = IF Present(r) THEN [rows EXCEPT ![number[r]] = None] ELSE rows
    /\ Goto(r, "unlink") /\ Release(r)
    /\ UNCHANGED <<job, answer, at, made, choice, loaded, covered, no, serial, files, history>>

Unlink(r) ==
    /\ pc[r] = "unlink"
    /\ files' = [files EXCEPT ![number[r]] = None]
    /\ End(r, "ok")
    /\ UNCHANGED <<job, at, made, choice, loaded, covered, no, database, history>>
-------------------------------------------------------------------------------
(* Faults.                                                                     *)

Fault == faults < MaxFaults /\ faults' = faults + 1 /\ calm' = FALSE

(* A call of the database or of the file system fails: the request answers     *)
(* 500, but an error of the second write of a file is swallowed.               *)
Fails(r) ==
    /\ InFlight(r) /\ Fault
    /\ IF pc[r] = "sync"
       THEN Goto(r, IF loaded[r] = None THEN "insert" ELSE "deleteSteps") /\ UNCHANGED <<answer, locked>>
       ELSE End(r, "error")
    /\ UNCHANGED <<job, at, made, choice, loaded, covered, no, database, files>>

Crash ==
    /\ Fault /\ \E r \in Requests : InFlight(r)
    /\ pc' = [r \in Requests |-> IF InFlight(r) THEN "done" ELSE pc[r]]
    /\ answer' = [r \in Requests |-> IF InFlight(r) THEN "lost" ELSE answer[r]]
    /\ locked' = [r \in Requests |-> None]
    /\ UNCHANGED <<job, at, made, choice, loaded, covered, no, database, files>>
-------------------------------------------------------------------------------
Step(r) ==
    \/ Lookup(r) \/ Collect(r) \/ Reject(r) \/ Allocate(r) \/ WriteFile(r) \/ Match(r)
    \/ Load(r) \/ Resolve(r) \/ ReadVersionNo(r) \/ DeleteSteps(r) \/ Unblock(r)
    \/ InsertCase(r) \/ CommitUpdate(r) \/ Refresh(r) \/ AddVersion(r)
    \/ CommitDelete(r) \/ Unlink(r) \/ Fails(r)

Next == Crash \/ \E r \in Requests : Begin(r) \/ Step(r)

Spec == Init /\ [][Next]_vars

(* A request that arrived goes on; its thread is not stopped.                  *)
FairSpec == Spec /\ \A r \in Requests : WF_vars(Step(r))
-------------------------------------------------------------------------------
Labels == {"idle", "lookup", "collect", "compile", "write", "match", "sync", "load", "resolve",
           "number", "deleteSteps", "blocked", "insert", "commit", "refresh", "refreshNew",
           "addVersion", "unlink", "done"}

TypeOK ==
    /\ job \in [Requests -> Jobs] /\ pc \in [Requests -> Labels]
    /\ answer \in [Requests -> {None, "ok", "nothing", "not_found", "conflict", "error", "lost"}]
    /\ at \in [Requests -> Nat \ {0}] /\ made \in [Requests -> BOOLEAN]
    /\ wanted \in [Requests -> Numbers \cup {None}] /\ known \in [Requests -> SUBSET Numbers]
    /\ number \in [Requests -> Numbers \cup {None}] /\ path \in [Requests -> Numbers \cup {None}]
    /\ loaded \in [Requests -> Case \cup {None}]
    /\ covered \in [Requests -> SUBSET StepRows]
    /\ no \in [Requests -> 1..MaxVersion \cup {None}]
    /\ rows \in [Numbers -> Case \cup {None}] /\ serial \in Nat
    /\ files \in [Numbers -> Content \cup {None}]
    /\ locked \in [Requests -> Nat \cup {None}]
    /\ calm \in BOOLEAN /\ faults \in 0..MaxFaults

Quiet == \A r \in Requests : ~InFlight(r)

(* However sessions interleave, the rows of steps of a case come from one      *)
(* script and one flush: those of two editors never stand side by side.        *)
StepsFromOneFlush == \A n \in Stored : \E s \in StepRows : rows[n].steps = {s}

(* A client that was told that its script is stored finds it in the version    *)
(* history of the case, whatever others do to the case and whenever, for as    *)
(* long as the case lives.                                                     *)
EditsAreKept ==
    \A r \in Requests :
        answer[r] = "ok" /\ Op(r) \in {"script", "edit"} /\ Present(r) =>
            \E v \in rows[number[r]].versions : v.script = Mine(r)

(* As long as requests do not overlap and nothing fails, the steps of a case   *)
(* are those of its script, its versions are numbered without gap or repeat,   *)
(* and the last one is its script.                                             *)
CalmHistory ==
    calm /\ Quiet => \A n \in Stored :
        LET vs == rows[n].versions IN
        /\ \A s \in rows[n].steps : s.of = rows[n].script
        /\ {v.no : v \in vs} = 1..Cardinality(vs)
        /\ \E v \in vs : v.no = Cardinality(vs) /\ v.script = rows[n].script

(* ... and every point has at most one case, with a file of its number that is *)
(* for the same point; and no file is left without its case.                   *)
CalmCases ==
    calm /\ Quiet =>
        /\ \A p \in Points : Cardinality(CasesOf(p)) <= 1
        /\ \A n \in Stored : rows[n].script.point # None =>
               files[n] # None /\ files[n].point = rows[n].script.point
        /\ OnDisk \subseteq Stored

(* Every request that arrived is answered, whatever rows it waits for.         *)
EveryRequestEnds == \A r \in Requests : InFlight(r) ~> pc[r] = "done"

(* "The same source_asset_id + intent_id does not generate several cases any   *)
(* more": no test point has two cases.                                         *)
OneCasePerPoint == \A p \in Points : Cardinality(CasesOf(p)) <= 1

===============================================================================
