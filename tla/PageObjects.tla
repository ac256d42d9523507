------------------------------ MODULE PageObjects ------------------------------
(* One page object: its elements, the version history of each, the counters    *)
(* that the page's row keeps of them, and the requests that create, edit,      *)
(* import, purge and delete them.  Requests run in threads of their own, each  *)
(* with a session at READ COMMITTED that writes to rows when it is flushed;    *)
(* what it has written stays locked, and unseen by others, until the commit.   *)
EXTENDS PageLocators, Integers, FiniteSets, Sequences

CONSTANTS
    Requests, Codes,
    Jobs,                           \* what a request may ask, see JobShape
    Beforehand,                     \* the elements there may be at first
    Page,                           \* the row of the page, as something to lock
    MaxFaults                       \* bound on the calls that fail and the crashes

Edits == {"edit", "rename", "approve"}
Operations ==
    Edits \cup {"createPage", "create", "version", "delete", "purge", "drop", "dropEmpty", "import"}
(* An element that a job is about, and the columns of its locator or the code  *)
(* that it gets.  (A value given as an empty text counts as not given.)        *)
Items == [code : Codes, to : Given \cup Codes]
JobShape == [op : Operations, items : Seq(Items)]

(* An element is known by the request that created it, and under which code.   *)
Ids == (Requests \cup {None}) \X Codes
Versions == [no : Nat, locator : Locators]
Element == [code : Codes, locator : Locators, approved : BOOLEAN,
            version : Nat, versions : SUBSET Versions]
Counters == [elements : Nat, approved : Nat]
PageRow == [by : Requests \cup {None}, published : BOOLEAN, counters : Counters]
(* What a session has flushed to an element: the columns it sets (None: not    *)
(* this one) and the versions it adds.                                         *)
Flushed == [code : Codes \cup {None}, locator : Given, approved : BOOLEAN,
            version : Nat, versions : SUBSET Versions]
Resources == Ids \cup Codes \cup {Page}

ASSUME PageAssumption ==
    /\ IsFiniteSet(Requests) /\ IsFiniteSet(Codes)
    /\ Jobs \subseteq JobShape
    /\ \A j \in Jobs :
         /\ j.op \notin {"createPage", "purge", "drop", "dropEmpty"} => j.items # << >>
         /\ \A i \in DOMAIN j.items : j.items[i].to \in IF j.op = "rename" THEN Codes ELSE Given
         /\ \A i, k \in DOMAIN j.items : j.items[i].code = j.items[k].code => i = k
    /\ Beforehand \subseteq [Codes -> Locators \cup {None}]
    /\ MaxFaults \in Nat
    /\ None \notin Ids \cup Requests \cup Codes \cup Locators
    /\ None \notin Element \cup PageRow \cup Flushed \cup Counters \cup Nat

VARIABLES
    job, pc, answer,                \* the requests and their threads
    at,                             \* the item it is at
    seen, loaded,                   \* the page and the element in its session, as they were read
    target, chosen,                 \* the element it writes; those it deletes
    no, counted,                    \* the version number, the counters it has read
    flushed, holds,                 \* its writes that are not committed; its locks
    page, elements,                 \* the database
    alone, faults                   \* the last request, if it runs alone; faults so far

session == <<at, seen, loaded, target, chosen, no, counted>>
writes == <<flushed, holds>>
database == <<page, elements>>
history == <<alone, faults>>
vars == <<job, pc, answer, session, writes, database, history>>

Nothing == [id \in Ids |-> None]
NewElement(code, locator) ==
    [code |-> code, locator |-> locator, approved |-> FALSE, version |-> 1,
     versions |-> {[no |-> 1, locator |-> locator]}]
NewPage(r, published) ==
    [by |-> r, published |-> published, counters |-> [elements |-> 0, approved |-> 0]]

Tally(es) ==
    [elements |-> Cardinality({id \in Ids : es[id] # None}),
     approved |-> Cardinality({id \in Ids : es[id] # None /\ es[id].approved})]

(* Earlier requests that overlapped may have left the counters wrong.          *)
Init ==
    /\ job \in [Requests -> Jobs]
    /\ pc = [r \in Requests |-> "idle"]
    /\ answer = [r \in Requests |-> None]
    /\ at = [r \in Requests |-> 1]
    /\ seen = [r \in Requests |-> None]
    /\ loaded = [r \in Requests |-> None]
    /\ target = [r \in Requests |-> None]
    /\ chosen = [r \in Requests |-> {}]
    /\ no = [r \in Requests |-> None]
    /\ counted = [r \in Requests |-> None]
    /\ flushed = [r \in Requests |-> Nothing]
    /\ holds = [r \in Requests |-> {}]
    /\ \/ page = None /\ elements = Nothing
       \/ /\ \E b \in Beforehand :
               elements = [id \in Ids |->
                   IF id[1] # None \/ b[id[2]] = None THEN None
                   ELSE NewElement(id[2], b[id[2]])]
          /\ \E right \in BOOLEAN :
               page = IF right THEN [NewPage(None, FALSE) EXCEPT !.counters = Tally(elements)]
                      ELSE NewPage(None, FALSE)
    /\ alone = None
    /\ faults = 0

Op(r) == job[r].op
Item(r) == job[r].items[at[r]]
InFlight(r) == pc[r] \notin {"idle", "done"}
Quiet == \A r \in Requests : ~InFlight(r)
Goto(r, label) == pc' = [pc EXCEPT ![r] = label]

Stored == {id \in Ids : elements[id] # None}
WithCode(c) == {id \in Stored : elements[id].code = c}

(* The page that r works on is still there, or is one that r is creating.      *)
StillThere(r) == page # None /\ page.by = seen[r].by
Present(r) == seen[r].by = r \/ StillThere(r)
OfPage(r) == IF Present(r) THEN Stored ELSE {}

(* Mutant: the flush writes all columns, those that are not set as well.       *)
RowOfAll(old, f) ==
    [code |-> f.code, locator |-> f.locator, approved |-> f.approved, version |-> f.version,
     versions |-> f.versions \cup IF old = None THEN {} ELSE old.versions]

(* A row with what was flushed to it.                                          *)
Row(old, f) ==
    [code |-> IF f.code # None THEN f.code ELSE old.code,
     locator |-> IF old = None THEN f.locator ELSE With(old.locator, f.locator),
     approved |-> f.approved \/ (old # None /\ old.approved),
     version |-> f.version,
     versions |-> f.versions \cup IF old = None THEN {} ELSE old.versions]

(* The elements as the session of r sees them.                                 *)
Seen(r) == [id \in Ids |-> IF flushed[r][id] = None THEN elements[id] ELSE Row(elements[id], flushed[r][id])]

(* Mutant: a handler that ends leaves its session open, and its locks held.    *)
LeaveOpen(r) == flushed' = [flushed EXCEPT ![r] = Nothing] /\ UNCHANGED holds

(* The end of a transaction; get_db closes the session however the handler     *)
(* ends, which rolls back.                                                     *)
Release(r) ==
    /\ flushed' = [flushed EXCEPT ![r] = Nothing]
    /\ holds' = [holds EXCEPT ![r] = {}]

End(r, value) ==
    /\ Goto(r, "done")
    /\ answer' = [answer EXCEPT ![r] = value]
    /\ Release(r)
-------------------------------------------------------------------------------
(* Locks.                                                                      *)

(* An import publishes the page; the change is flushed with the first element. *)
Dirty(r) == Op(r) = "import" /\ ~seen[r].published

(* _sync_page_object_metrics writes the counters that differ from the loaded.  *)
WritesPage(r) == Dirty(r) \/ (counted[r] # None /\ counted[r] # seen[r].counters)

Needs(r) ==
    CASE pc[r] = "insertPage" -> {Page}
      [] pc[r] = "insert" -> {Item(r).code} \cup IF Dirty(r) THEN {Page} ELSE {}
      [] pc[r] = "flush"  -> {target[r]} \cup (IF Dirty(r) THEN {Page} ELSE {})
                             \cup IF Op(r) = "rename" THEN {loaded[r].code, Item(r).to} ELSE {}
      [] pc[r] = "delete" -> chosen[r] \cap Stored
      [] pc[r] = "drop"   -> IF Page \in holds[r] THEN {Page} \cup OfPage(r) ELSE {Page}
      [] pc[r] = "commit" -> IF WritesPage(r) THEN {Page} ELSE {}
      [] OTHER -> {}

Inserted(r) == \E c \in Codes : flushed[r][<<r, c>>] # None

(* A new element refers to its page: the page cannot be deleted under it, and  *)
(* it cannot be inserted while the page is being deleted.                      *)
Blocks(q, r) ==
    /\ q # r
    /\ \/ holds[q] \cap (Needs(r) \ holds[r]) # {}
       \/ pc[r] = "drop" /\ Inserted(q)
       \/ pc[r] = "insert" /\ pc[q] = "drop" /\ Page \in holds[q]

Acquire(r) ==
    /\ \E x \in Needs(r) \ holds[r] :
         /\ \A q \in Requests \ {r} : x \notin holds[q]
         /\ x = Page /\ pc[r] = "drop" => \A q \in Requests \ {r} : ~Inserted(q)
         /\ holds' = [holds EXCEPT ![r] = @ \cup {x}]
    /\ UNCHANGED <<job, pc, answer, session, flushed, database, history>>

Locked(r) == Needs(r) \subseteq holds[r] /\ \A q \in Requests : ~Blocks(q, r)

(* Sessions that wait for each other: the database ends one of them.           *)
Stuck(S) == S # {} /\ \A r \in S : \E q \in S : Blocks(q, r)

BreakDeadlock(r) ==
    /\ \E S \in SUBSET Requests : r \in S /\ Stuck(S) /\ \A T \in SUBSET S : Stuck(T) => T = S
    /\ End(r, "error")
    /\ UNCHANGED <<job, session, database, history>>
-------------------------------------------------------------------------------
(* What a request finds when it begins.                                        *)

Begin(r) ==
    /\ pc[r] = "idle"
    /\ Goto(r, IF Op(r) \in {"createPage", "import"} THEN "check" ELSE "load")
    /\ alone' = IF Quiet THEN r ELSE None
    /\ UNCHANGED <<job, answer, session, writes, database, faults>>

(* create_page_object, and the pages of apply_import.                          *)
CheckPage(r) ==
    /\ pc[r] = "check"
    /\ seen' = [seen EXCEPT ![r] = page]
    /\ CASE page = None -> Goto(r, "insertPage") /\ UNCHANGED <<answer, writes>>
         [] page # None /\ Op(r) = "import" -> Goto(r, "item") /\ UNCHANGED <<answer, writes>>
         [] OTHER -> End(r, "conflict")
    /\ UNCHANGED <<job, at, loaded, target, chosen, no, counted, database, history>>

InsertPage(r) ==
    /\ pc[r] = "insertPage" /\ Locked(r)
    /\ IF page # None
       THEN End(r, "error") /\ UNCHANGED <<seen, page>>
       ELSE IF Op(r) = "import"
            THEN /\ seen' = [seen EXCEPT ![r] = NewPage(r, TRUE)]
                 /\ Goto(r, "item")
                 /\ UNCHANGED <<answer, writes, page>>
            ELSE /\ page' = NewPage(r, FALSE)
                 /\ End(r, "ok")
                 /\ UNCHANGED seen
    /\ UNCHANGED <<job, at, loaded, target, chosen, no, counted, elements, history>>

(* The element as an edit or an import leaves it.                              *)
Changed(r, e) ==
    CASE Op(r) = "edit"    -> [e EXCEPT !.locator = With(@, Item(r).to)]
      [] Op(r) = "rename"  -> [e EXCEPT !.code = Item(r).to]
      [] Op(r) = "approve" -> [e EXCEPT !.approved = TRUE]
      [] Op(r) = "import"  -> [e EXCEPT !.locator = With(@, Item(r).to), !.approved = TRUE]
      [] OTHER -> e

LocatorOf(es) == [id \in {i \in Ids : es[i] # None} |-> es[id].locator]

(* Mutant: the rule for locators of type role is dropped.                      *)
DuplicatesByIdentity ==
    {D \in SUBSET Stored :
        \A id \in Stored : \E q \in Stored \ D :
            {k \in Stored \ D : elements[k].locator = elements[id].locator} = {q}}

(* _purge_duplicate_page_elements: PagePurge is its loop.                      *)
Duplicates == Purges(Stored, LocatorOf(elements))

(* The requests about an element that is there.                                *)
LoadElement(r, id) ==
    /\ target' = [target EXCEPT ![r] = id]
    /\ loaded' = [loaded EXCEPT ![r] = elements[id]]
    /\ CASE Op(r) = "version" -> Goto(r, "number") /\ UNCHANGED <<answer, writes>>
         [] Op(r) = "rename" /\ WithCode(Item(r).to) \ {id} # {} -> End(r, "conflict")
         [] Op(r) # "version" /\ Changed(r, elements[id]) = elements[id] -> End(r, "nothing")
         [] OTHER -> Goto(r, "flush") /\ UNCHANGED <<answer, writes>>
    /\ UNCHANGED chosen

(* Those that delete some.                                                     *)
Choose(r, S) ==
    /\ chosen' = [chosen EXCEPT ![r] = S]
    /\ CASE S = {} /\ Op(r) = "delete" /\ Len(job[r].items) = 1 -> End(r, "not_found")
         [] S = {} /\ Op(r) = "delete" /\ Len(job[r].items) # 1 -> End(r, "nothing")
         [] S = {} /\ Op(r) = "purge" -> End(r, "nothing")
         [] S = {} /\ Op(r) \in {"drop", "dropEmpty"} -> Goto(r, "flushPage") /\ UNCHANGED <<answer, writes>>
         [] S # {} /\ Op(r) = "dropEmpty" -> End(r, "conflict")
         [] OTHER -> Goto(r, "delete") /\ UNCHANGED <<answer, writes>>
    /\ UNCHANGED <<target, loaded>>

Load(r) ==
    /\ pc[r] = "load"
    /\ seen' = [seen EXCEPT ![r] = page]
    /\ \/ /\ page = None \/ (Op(r) \in Edits \cup {"version"} /\ WithCode(Item(r).code) = {})
          /\ End(r, "not_found")
          /\ UNCHANGED <<target, loaded, chosen>>
       \/ /\ page # None /\ Op(r) = "create"
          /\ IF WithCode(Item(r).code) # {} THEN End(r, "conflict")
             ELSE Goto(r, "insert") /\ UNCHANGED <<answer, writes>>
          /\ UNCHANGED <<target, loaded, chosen>>
       \/ /\ page # None /\ Op(r) \in Edits \cup {"version"}
          /\ \E id \in WithCode(Item(r).code) : LoadElement(r, id)
       \/ /\ page # None
          /\ CASE Op(r) = "delete" ->
                    Choose(r, {id \in Stored : \E i \in DOMAIN job[r].items :
                                   elements[id].code = job[r].items[i].code})
               [] Op(r) = "purge" -> \E S \in Duplicates : Choose(r, S)
               [] Op(r) \in {"drop", "dropEmpty"} -> Choose(r, Stored)
               [] OTHER -> FALSE
    /\ UNCHANGED <<job, at, no, counted, database, history>>

(* apply_import looks each element up.  The session still has the one of the   *)
(* item before, with the columns it had then.  A column that is not modelled   *)
(* may be what has to be upgraded.                                             *)
LookUp(r) ==
    /\ pc[r] = "item" /\ at[r] <= Len(job[r].items)
    /\ \/ /\ OfPage(r) \cap WithCode(Item(r).code) = {}
          /\ Goto(r, "insert")
          /\ target' = [target EXCEPT ![r] = None]
          /\ UNCHANGED <<at, loaded>>
       \/ \E id \in OfPage(r) \cap WithCode(Item(r).code) :
            /\ loaded' = [loaded EXCEPT ![r] = IF target[r] = id THEN @ ELSE Seen(r)[id]]
            /\ target' = [target EXCEPT ![r] = id]
            /\ \/ Goto(r, "flush") /\ UNCHANGED at
               \/ /\ Changed(r, loaded'[r]) = loaded'[r]
                  /\ at' = [at EXCEPT ![r] = @ + 1]
                  /\ UNCHANGED pc
    /\ UNCHANGED <<job, answer, seen, chosen, no, counted, writes, database, history>>

LastItem(r) ==
    /\ pc[r] = "item" /\ at[r] > Len(job[r].items)
    /\ Goto(r, "count")
    /\ UNCHANGED <<job, answer, session, writes, database, history>>
-------------------------------------------------------------------------------
(* Writing an element and its next version: _snapshot_element.                 *)

NumbersOf(e) == IF e = None THEN {} ELSE {v.no : v \in e.versions}

(* _next_element_version_no: one more than the highest.                        *)
NextNumbers(e) == {n \in {1} \cup {m + 1 : m \in NumbersOf(e)} : \A m \in NumbersOf(e) : m < n}

(* create_page_element_version reads the number before it has locked the row.  *)
ReadNumber(r) ==
    /\ pc[r] = "number"
    /\ \E n \in NextNumbers(elements[target[r]]) : no' = [no EXCEPT ![r] = n]
    /\ Goto(r, "flush")
    /\ UNCHANGED <<job, answer, at, seen, loaded, target, chosen, counted, writes, database, history>>

FlushElement(r, id, f) ==
    /\ flushed' = [flushed EXCEPT ![r][id] = f]
    /\ Goto(r, CASE Op(r) = "import" -> "item" [] Op(r) = "version" -> "commit" [] OTHER -> "count")
    /\ at' = IF Op(r) = "import" THEN [at EXCEPT ![r] = @ + 1] ELSE at
    /\ UNCHANGED <<answer, holds>>

(* What the session has flushed to its element already: an import comes back   *)
(* to one that was renamed meanwhile.                                          *)
Before(r) ==
    IF flushed[r][target[r]] # None THEN flushed[r][target[r]]
    ELSE [code |-> None, locator |-> Unset, approved |-> FALSE, version |-> 0, versions |-> {}]

(* Mutant: the version is taken before the change is made.                     *)
VersionBefore(r, n) ==
    LET old == loaded[r]
        new == Changed(r, old)
    IN  [code |-> IF new.code # old.code THEN new.code ELSE Before(r).code,
         locator |-> With(Before(r).locator, Differing(new.locator, old.locator)),
         approved |-> Before(r).approved \/ (new.approved /\ ~old.approved),
         version |-> n,
         versions |-> Before(r).versions \cup {[no |-> n, locator |-> old.locator]}]

(* The columns that differ from the loaded ones, and a version of the element  *)
(* as the session has it.                                                      *)
Update(r, n) ==
    LET old == loaded[r]
        new == Changed(r, old)
    IN  [code |-> IF new.code # old.code THEN new.code ELSE Before(r).code,
         locator |-> With(Before(r).locator, Differing(new.locator, old.locator)),
         approved |-> Before(r).approved \/ (new.approved /\ ~old.approved),
         version |-> n,
         versions |-> Before(r).versions \cup {[no |-> n, locator |-> new.locator]}]

(* Mutant: page_element_versions without uq_page_element_versions_identity.    *)
NeverTaken(r, n) == FALSE

(* Another session has stored this number since it was read.                   *)
NumberTaken(r, n) == n \in NumbersOf(Seen(r)[target[r]])

Flush(r) ==
    /\ pc[r] = "flush" /\ Locked(r)
    /\ IF \/ elements[target[r]] = None
          \/ Op(r) = "rename" /\ WithCode(Item(r).to) \ {target[r]} # {}
          \/ Op(r) = "version" /\ NumberTaken(r, no[r])
       THEN End(r, "error") /\ UNCHANGED <<at, loaded>>
       ELSE /\ \E n \in IF Op(r) = "version" THEN {no[r]} ELSE NextNumbers(Seen(r)[target[r]]) :
                 FlushElement(r, target[r], Update(r, n))
            /\ loaded' = [loaded EXCEPT ![r] = Changed(r, @)]
    /\ UNCHANGED <<job, seen, target, chosen, no, counted, database, history>>

Insert(r) ==
    /\ pc[r] = "insert" /\ Locked(r)
    /\ IF ~Present(r) \/ WithCode(Item(r).code) # {}
       THEN End(r, "error") /\ UNCHANGED at
       ELSE FlushElement(r, <<r, Item(r).code>>,
                [NewElement(Item(r).code, With(Blank, Item(r).to)) EXCEPT !.approved = Op(r) = "import"])
    /\ UNCHANGED <<job, seen, loaded, target, chosen, no, counted, database, history>>
-------------------------------------------------------------------------------
(* Deleting, and the end of a request.                                         *)

(* delete_page_element, batch_delete_page_elements, a purge: the rows that are *)
(* still there, in a transaction of their own; or the first part of            *)
(* delete_page_object.                                                         *)
Delete(r) ==
    /\ pc[r] = "delete" /\ Locked(r)
    /\ IF Op(r) = "drop"
       THEN Goto(r, "flushPage") /\ UNCHANGED <<writes, elements>>
       ELSE /\ elements' = [id \in Ids |-> IF id \in chosen[r] THEN None ELSE elements[id]]
            /\ Goto(r, "reload") /\ Release(r)
    /\ UNCHANGED <<job, answer, session, page, history>>

(* After its commit the session reads the page again.                          *)
Reload(r) ==
    /\ pc[r] = "reload"
    /\ IF ~StillThere(r)
       THEN End(r, "error") /\ UNCHANGED seen
       ELSE seen' = [seen EXCEPT ![r] = page] /\ Goto(r, "count") /\ UNCHANGED <<answer, writes>>
    /\ UNCHANGED <<job, at, loaded, target, chosen, no, counted, database, history>>

(* The flush that deletes the page reads its elements; those that are left it  *)
(* would detach, which a column that is never null forbids.                    *)
FlushPage(r) ==
    /\ pc[r] = "flushPage"
    /\ IF OfPage(r) \subseteq chosen[r]
       THEN Goto(r, "drop") /\ UNCHANGED <<answer, writes>>
       ELSE End(r, "error")
    /\ UNCHANGED <<job, session, database, history>>

(* With the page go the elements that refer to it by then.                     *)
Drop(r) ==
    /\ pc[r] = "drop" /\ Locked(r)
    /\ IF Present(r)
       THEN page' = None /\ elements' = Nothing
       ELSE UNCHANGED database
    /\ End(r, "ok")
    /\ UNCHANGED <<job, session, history>>

(* Mutant: an element is counted in or out instead of counting them.           *)
CountByDifference(r) ==
    LET now == Tally(IF Present(r) THEN Seen(r) ELSE Nothing)
        before == Tally(elements)
    IN  [c \in {"elements", "approved"} |-> seen[r].counters[c] + now[c] - before[c]]

Count(r) == Tally(IF Present(r) THEN Seen(r) ELSE Nothing)

CountElements(r) ==
    /\ pc[r] = "count"
    /\ counted' = [counted EXCEPT ![r] = Count(r)]
    /\ Goto(r, "commit")
    /\ UNCHANGED <<job, answer, at, seen, loaded, target, chosen, no, writes, database, history>>

Newer(new, old, stored) == IF new # old THEN new ELSE stored

WrittenPage(r) ==
    LET row == IF seen[r].by = r THEN seen[r] ELSE page IN
    [by |-> row.by,
     published |-> row.published \/ Dirty(r),
     counters |-> IF counted[r] = None THEN row.counters ELSE
        [elements |-> Newer(counted[r].elements, seen[r].counters.elements, row.counters.elements),
         approved |-> Newer(counted[r].approved, seen[r].counters.approved, row.counters.approved)]]

Commit(r) ==
    /\ pc[r] = "commit" /\ Locked(r)
    /\ IF WritesPage(r) /\ ~Present(r)
       THEN End(r, "error") /\ UNCHANGED database
       ELSE /\ elements' = Seen(r)
            /\ page' = IF WritesPage(r) \/ seen[r].by = r THEN WrittenPage(r) ELSE page
            /\ IF Op(r) = "import" THEN Goto(r, "status") /\ Release(r) /\ UNCHANGED answer
               ELSE End(r, "ok")
    /\ UNCHANGED <<job, session, history>>

(* The file of the import is marked as applied after the commit.               *)
WriteStatus(r) ==
    /\ pc[r] = "status"
    /\ End(r, "ok")
    /\ UNCHANGED <<job, session, database, history>>
-------------------------------------------------------------------------------
(* Faults.                                                                     *)

Fault == faults < MaxFaults /\ faults' = faults + 1 /\ alone' = None

Fails(r) ==
    /\ InFlight(r) /\ Fault
    /\ End(r, "error")
    /\ UNCHANGED <<job, session, database>>

Crash ==
    /\ Fault /\ \E r \in Requests : InFlight(r)
    /\ pc' = [r \in Requests |-> IF InFlight(r) THEN "done" ELSE pc[r]]
    /\ answer' = [r \in Requests |-> IF InFlight(r) THEN "lost" ELSE answer[r]]
    /\ flushed' = [r \in Requests |-> Nothing]
    /\ holds' = [r \in Requests |-> {}]
    /\ UNCHANGED <<job, session, database>>
-------------------------------------------------------------------------------
Step(r) ==
    \/ CheckPage(r) \/ InsertPage(r) \/ Load(r) \/ LookUp(r) \/ LastItem(r)
    \/ Acquire(r) \/ BreakDeadlock(r) \/ ReadNumber(r) \/ Flush(r) \/ Insert(r)
    \/ Delete(r) \/ Reload(r) \/ FlushPage(r) \/ Drop(r)
    \/ CountElements(r) \/ Commit(r) \/ WriteStatus(r) \/ Fails(r)

Next == Crash \/ \E r \in Requests : Begin(r) \/ Step(r)

Spec == Init /\ [][Next]_vars

(* A request that arrived goes on; its thread is not stopped.                  *)
FairSpec == Spec /\ \A r \in Requests : WF_vars(Step(r))
-------------------------------------------------------------------------------
Labels == {"idle", "check", "load", "insertPage", "item", "number", "insert", "flush", "delete",
           "reload", "flushPage", "drop", "count", "commit", "status", "done"}

TypeOK ==
    /\ job \in [Requests -> Jobs] /\ pc \in [Requests -> Labels]
    /\ answer \in [Requests -> {None, "ok", "nothing", "not_found", "conflict", "error", "lost"}]
    /\ at \in [Requests -> Nat \ {0}]
    /\ seen \in [Requests -> PageRow \cup {None}]
    /\ loaded \in [Requests -> Element \cup {None}]
    /\ target \in [Requests -> Ids \cup {None}] /\ chosen \in [Requests -> SUBSET Ids]
    /\ no \in [Requests -> Nat \cup {None}] /\ counted \in [Requests -> Counters \cup {None}]
    /\ flushed \in [Requests -> [Ids -> Flushed \cup {None}]]
    /\ holds \in [Requests -> SUBSET Resources]
    /\ page \in PageRow \cup {None} /\ elements \in [Ids -> Element \cup {None}]
    /\ alone \in Requests \cup {None} /\ faults \in 0..MaxFaults

(* Whoever writes an element, and although some read its last version number   *)
(* before they lock it: its versions are numbered without gap or repeat, and   *)
(* the number in its row is the last one.                                      *)
HistoryIsWhole ==
    \A id \in Stored :
        LET vs == elements[id].versions IN
        /\ {v.no : v \in vs} = 1..elements[id].version
        /\ \A v, w \in vs : v.no = w.no => v = w

(* What the runs will use to find an element is in its version history: each   *)
(* column of its locator, although a version is a copy of what its session has *)
(* loaded, which may be older than the row that it is written next to.  (Not   *)
(* all of them in one version: two edits of different columns may overlap.)    *)
LocatorIsRecorded ==
    \A id \in Stored : \A c \in Columns :
        \E v \in elements[id].versions : v.locator[c] = elements[id].locator[c]

(* Requests that overlap or fail may leave the counters of the page wrong; the *)
(* next request that writes elements while no other runs sets them right.      *)
CountersRecover ==
    \A r \in Requests :
        alone = r /\ pc[r] = "done" /\ answer[r] = "ok" /\ counted[r] # None /\ page # None
            => page.counters = Tally(elements)

(* A purge that runs alone, whatever ran before, when it has deleted or finds  *)
(* nothing to delete: what it leaves is as it was, each element that it takes  *)
(* out has another that stands for it, with a role if it had one, and no two   *)
(* are left that a later purge would take for one.  (A link may stand for a    *)
(* button: its role does not tell an element of locator type role apart.)      *)
PurgeKeepsOneEach ==
    [][\A r \in Requests :
         alone' = r /\ Op(r) = "purge" /\ page # None
           /\ pc[r] \in {"load", "delete"} /\ pc'[r] \in {"reload", "done"} =>
            /\ \A id \in Stored' : elements'[id] = elements[id]
            /\ \A id \in Stored : \E k \in Stored' :
                   StandsFor(elements[k].locator, elements[id].locator)
            /\ \A i, k \in Stored' : Rivals(elements[i].locator, elements[k].locator) => i = k]_vars

(* Every request that arrived is answered, whatever rows it waits for.         *)
EveryRequestEnds == \A r \in Requests : InFlight(r) ~> pc[r] = "done"

===============================================================================
