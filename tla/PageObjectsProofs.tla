--------------------------- MODULE PageObjectsProofs ---------------------------
(* Proofs about PageObjects, for every set of requests, codes, texts and jobs: *)
(* types, whole version histories, locators recorded column by column, and     *)
(* what a request that runs alone does to the counters and the elements.       *)
EXTENDS PageObjects, FiniteSetTheorems, TLAPS

Answers == {None, "ok", "nothing", "not_found", "conflict", "error", "lost"}

(* What a request has in its session at each point.                            *)
Situated(r) ==
    /\ pc[r] \notin {"idle", "check", "load", "insertPage", "done"} => seen[r] # None
    /\ pc[r] \in {"number", "flush"} => target[r] # None
    /\ target[r] # None => loaded[r] # None
    /\ pc[r] = "number" => Op(r) = "version"
    /\ pc[r] = "insert" => Op(r) \in {"create", "import"}
    /\ pc[r] = "item" => Op(r) = "import"
    /\ pc[r] = "flush" => Op(r) \in Edits \cup {"version", "import"}
    /\ pc[r] = "flush" /\ Op(r) = "version" => no[r] # None
    /\ Op(r) # "import" => at[r] = 1
    /\ pc[r] \in {"insert", "flush"} => at[r] <= Len(job[r].items)

(* An element that others can see was created by a request that has committed. *)
Old(id) == id[1] = None \/ pc[id[1]] \in {"status", "done"}

Elders ==
    /\ \A id \in Stored : Old(id)
    /\ \A r \in Requests : target[r] # None => Old(target[r])

LocksApart == \A q, r \in Requests : q # r => holds[q] \cap holds[r] = {}

(* What a session has flushed it has locked, or it is new.                     *)
FlushedIsHeld ==
    /\ \A r \in Requests : pc[r] \in {"status", "done"} => flushed[r] = Nothing
    /\ \A r \in Requests : \A id \in Ids :
         flushed[r][id] # None =>
            \/ id \in holds[r] /\ elements[id] # None
            \/ /\ id[1] = r /\ elements[id] = None
               /\ flushed[r][id].code # None /\ flushed[r][id].locator \in Locators

(* The history of one element, as the database or as a session has it.         *)
Whole(e) ==
    /\ {v.no : v \in e.versions} = 1..e.version
    /\ \A v, w \in e.versions : v.no = w.no => v = w
    /\ \A c \in Columns : \E v \in e.versions : v.locator[c] = e.locator[c]

AllWhole ==
    /\ \A id \in Stored : Whole(elements[id])
    /\ \A r \in Requests : \A id \in Ids : flushed[r][id] # None => Whole(Row(elements[id], flushed[r][id]))

(* A number that was read without a lock is not beyond the next one.           *)
Numbered(r) ==
    pc[r] = "flush" /\ Op(r) = "version" /\ elements[target[r]] # None =>
        no[r] \in 1..(elements[target[r]].version + 1)

TypeInv == TypeOK /\ \A r \in Requests : Situated(r)
Rows == Elders /\ LocksApart /\ FlushedIsHeld /\ AllWhole
Inv == TypeInv /\ Rows /\ \A r \in Requests : Numbered(r)
-------------------------------------------------------------------------------
(* The item that a request writes, and the element that it makes of another.   *)
LEMMA JobType ==
    ASSUME TypeInv, NEW r \in Requests
    PROVE  /\ job[r].items \in Seq(Items) /\ Op(r) \in Operations
           /\ Op(r) \notin {"createPage", "purge", "drop", "dropEmpty"} => 1 <= Len(job[r].items)
           /\ \A i \in DOMAIN job[r].items : job[r].items[i].to \in IF Op(r) = "rename" THEN Codes ELSE Given
<1>1. job[r] \in Jobs /\ job[r] \in JobShape
  BY PageAssumption DEF TypeInv, TypeOK
<1>2. job[r].items \in Seq(Items) /\ Op(r) \in Operations
  BY <1>1 DEF JobShape, Op
<1>3. Op(r) \notin {"createPage", "purge", "drop", "dropEmpty"} => job[r].items # << >>
  BY <1>1, PageAssumption DEF Op
<1>4. Op(r) \notin {"createPage", "purge", "drop", "dropEmpty"} => 1 <= Len(job[r].items)
  BY <1>2, <1>3
<1> QED BY <1>1, <1>2, <1>4, PageAssumption DEF Op

LEMMA ItemType ==
    ASSUME TypeInv, NEW r \in Requests, at[r] <= Len(job[r].items)
    PROVE  /\ Item(r).code \in Codes
           /\ Item(r).to \in IF Op(r) = "rename" THEN Codes ELSE Given
<1>1. at[r] \in DOMAIN job[r].items
  BY JobType DEF TypeInv, TypeOK
<1>2. Item(r) \in Items
  BY <1>1, JobType DEF Item
<1> QED BY <1>1, <1>2, JobType DEF Item, Items

(* Columns that are given replace those of a locator.                          *)
LEMMA WithType ==
    /\ \A l \in Locators, g \in Given : With(l, g) \in Locators
    /\ \A g, h \in Given : With(g, h) \in Given
    /\ \A l, m \in Locators : Differing(l, m) \in Given
    /\ Unset \in Given /\ Blank \in Locators /\ Locators \subseteq Given
BY LocatorAssumption DEF With, Differing, Locators, Given, Unset, Blank

LEMMA ChangedType ==
    ASSUME TypeInv, NEW r \in Requests, NEW e \in Element,
           Op(r) \in {"edit", "rename", "import"} => at[r] <= Len(job[r].items)
    PROVE  Changed(r, e) \in Element
<1>1. CASE Op(r) = "rename"
  BY <1>1, ItemType DEF Changed, Element
<1>2. CASE Op(r) \in {"edit", "import"}
  BY <1>2, ItemType, WithType DEF Changed, Element
<1>3. CASE Op(r) \notin {"edit", "rename", "import"}
  BY <1>3 DEF Changed, Element
<1> QED BY <1>1, <1>2, <1>3

LEMMA TallyType ==
    ASSUME NEW es
    PROVE  Tally(es) \in Counters
<1>1. IsFiniteSet(Requests \cup {None})
  BY PageAssumption, FS_AddElement
<1>2. IsFiniteSet(Ids)
  BY <1>1, PageAssumption, FS_Product DEF Ids
<1>3. \A S \in SUBSET Ids : Cardinality(S) \in Nat
  BY <1>2, FS_Subset, FS_CardinalityType
<1>4. /\ {id \in Ids : es[id] # None} \in SUBSET Ids
      /\ {id \in Ids : es[id] # None /\ es[id].approved} \in SUBSET Ids
  OBVIOUS
<1> QED BY <1>3, <1>4 DEF Tally, Counters

LEMMA RowType ==
    ASSUME NEW e \in Element \cup {None}, NEW f \in Flushed,
           e = None => f.code # None /\ f.locator \in Locators
    PROVE  Row(e, f) \in Element
BY WithType DEF Row, Element, Flushed

LEMMA SeenType ==
    ASSUME Inv, NEW r \in Requests, NEW id \in Ids
    PROVE  Seen(r)[id] \in Element \cup {None} /\ (Seen(r)[id] # None => Whole(Seen(r)[id]))
<1>1. elements[id] \in Element \cup {None} /\ flushed[r][id] \in Flushed \cup {None}
  BY DEF Inv, TypeInv, TypeOK
<1>2. CASE flushed[r][id] = None
  BY <1>1, <1>2 DEF Seen, Inv, Rows, AllWhole, Stored
<1>3. CASE flushed[r][id] # None
  <2>1. Seen(r)[id] = Row(elements[id], flushed[r][id])
    BY <1>3 DEF Seen
  <2>2. elements[id] = None => flushed[r][id].code # None /\ flushed[r][id].locator \in Locators
    BY <1>3 DEF Inv, Rows, FlushedIsHeld
  <2> QED BY <1>1, <1>3, <2>1, <2>2, RowType DEF Inv, Rows, AllWhole
<1> QED BY <1>2, <1>3

(* One more version makes a history of the next length.                        *)
LEMMA OneMoreVersion ==
    ASSUME NEW e \in Element, NEW f \in Element, Whole(e), NEW v \in Versions,
           v.no = e.version + 1, f.version = v.no, f.versions = e.versions \cup {v},
           \A c \in Columns : f.locator[c] \in {e.locator[c], v.locator[c]}
    PROVE  Whole(f)
<1>1. e.version \in Nat /\ \A w \in e.versions : w \in Versions
  BY DEF Element
<1>2. {w.no : w \in f.versions} = {w.no : w \in e.versions} \cup {v.no}
  OBVIOUS
<1>3. {w.no : w \in f.versions} = 1..f.version
  BY <1>1, <1>2 DEF Whole
<1>4. \A w \in e.versions : w.no \in 1..e.version
  BY DEF Whole
<1>5. \A w \in e.versions : w.no # v.no
  BY <1>1, <1>4
<1>6. \A w, x \in f.versions : w.no = x.no => w = x
  BY <1>5 DEF Whole
<1> QED BY <1>3, <1>6 DEF Whole

LEMMA NextIsOneMore ==
    ASSUME NEW e \in Element, Whole(e), NEW n \in NextNumbers(e), None \notin Element
    PROVE  n = e.version + 1
<1>1. NumbersOf(e) = 1..e.version /\ e.version \in Nat
  BY DEF NumbersOf, Whole, Element
<1>2. n \in {1} \cup {m + 1 : m \in 1..e.version} /\ \A m \in 1..e.version : m < n
  BY <1>1 DEF NextNumbers
<1>3. CASE e.version = 0
  BY <1>2, <1>3
<1>4. CASE e.version # 0
  BY <1>1, <1>2, <1>4
<1> QED BY <1>3, <1>4
-------------------------------------------------------------------------------
(* What a step of one request leaves alone.                                    *)
USE DEF session, writes, database, history

Others(r) ==
    \A q \in Requests \ {r} :
        /\ pc'[q] = pc[q] /\ at'[q] = at[q] /\ seen'[q] = seen[q] /\ loaded'[q] = loaded[q]
        /\ target'[q] = target[q] /\ no'[q] = no[q]
        /\ flushed'[q] = flushed[q] /\ holds'[q] = holds[q]

LEMMA OthersSituated ==
    ASSUME Inv, NEW r \in Requests, Others(r), UNCHANGED job, Situated(r)'
    PROVE  \A q \in Requests : Situated(q)'
BY DEF Inv, TypeInv, Situated, Others, Op

LEMMA OldStaysOld ==
    ASSUME Inv, NEW r \in Requests, Others(r), NEW id \in Ids, Old(id),
           pc[r] \in {"status", "done"} => pc'[r] \in {"status", "done"}
    PROVE  Old(id)'
<1>1. id[1] \in Requests \cup {None}
  BY DEF Ids
<1> QED BY <1>1 DEF Old, Others

(* A step that writes no element: the request goes on with what it holds, or   *)
(* ends with nothing.                                                          *)
LEMMA RowsStay ==
    ASSUME Inv, NEW r \in Requests, Others(r), UNCHANGED elements,
           \/ /\ flushed'[r] = flushed[r] /\ holds'[r] = holds[r]
              /\ pc[r] \notin {"status", "done"} /\ pc'[r] \notin {"status", "done"}
           \/ flushed'[r] = Nothing /\ holds'[r] = {} /\ pc'[r] \in {"status", "done"},
           target'[r] = target[r] \/ target'[r] \in Stored \cup {None},
           target' \in [Requests -> Ids \cup {None}]
    PROVE  Rows'
<1>1. \A id \in Ids : Old(id) => Old(id)'
  BY OldStaysOld
<1>2. \A id \in Stored : Old(id) /\ id \in Ids
  BY DEF Inv, Rows, Elders, Stored
<1>3. \A q \in Requests : target'[q] # None => target'[q] \in Ids /\ Old(target'[q])
  BY <1>2 DEF Others, Inv, Rows, Elders
<1>4. Elders'
  BY <1>1, <1>2, <1>3 DEF Elders, Stored, Old
<1>5. LocksApart'
  BY DEF LocksApart, Others, Inv, Rows
<1>6. \A q \in Requests : flushed'[q] = flushed[q] \/ flushed'[q] = Nothing
  BY DEF Others
<1>7. AllWhole'
  BY <1>6 DEF AllWhole, Inv, Rows, Stored, Nothing, Row
<1>8. FlushedIsHeld'
  BY DEF FlushedIsHeld, Inv, Rows, Others, Nothing
<1> QED BY <1>4, <1>5, <1>7, <1>8 DEF Rows

LEMMA NumberedStays ==
    ASSUME Inv, NEW r \in Requests, Others(r), UNCHANGED <<elements, job>>, Numbered(r)'
    PROVE  \A q \in Requests : Numbered(q)'
BY DEF Inv, Numbered, Others, Op

LEMMA QuietStep ==
    ASSUME Inv, NEW r \in Requests, Others(r), UNCHANGED <<job, elements>>,
           TypeOK', Situated(r)', Numbered(r)',
           \/ /\ flushed'[r] = flushed[r] /\ holds'[r] = holds[r]
              /\ pc[r] \notin {"status", "done"} /\ pc'[r] \notin {"status", "done"}
           \/ flushed'[r] = Nothing /\ holds'[r] = {} /\ pc'[r] \in {"status", "done"},
           target'[r] = target[r] \/ target'[r] \in Stored \cup {None}
    PROVE  Inv'
<1>1. target' \in [Requests -> Ids \cup {None}]
  BY DEF TypeOK
<1>2. Rows'
  BY <1>1, RowsStay
<1> QED BY <1>2, OthersSituated, NumberedStays DEF Inv, TypeInv

LEMMA LoadedType ==
    ASSUME TypeOK, NEW r \in Requests,
           \/ UNCHANGED <<target, loaded>>
           \/ target' = [target EXCEPT ![r] = None] /\ UNCHANGED loaded
           \/ \E id \in Stored, e \in Element : /\ target' = [target EXCEPT ![r] = id]
                                               /\ loaded' = [loaded EXCEPT ![r] = e]
    PROVE  target' \in [Requests -> Ids \cup {None}] /\ loaded' \in [Requests -> Element \cup {None}]
<1>1. CASE UNCHANGED <<target, loaded>>
  BY <1>1 DEF TypeOK
<1>3. CASE target' = [target EXCEPT ![r] = None] /\ UNCHANGED loaded
  BY <1>3 DEF TypeOK
<1>2. ASSUME NEW id \in Stored, NEW e \in Element, target' = [target EXCEPT ![r] = id],
             loaded' = [loaded EXCEPT ![r] = e]
      PROVE  target' \in [Requests -> Ids \cup {None}] /\ loaded' \in [Requests -> Element \cup {None}]
  <2>1. id \in Ids
    BY DEF Stored
  <2> QED BY <1>2, <2>1 DEF TypeOK
<1> QED BY <1>1, <1>2, <1>3

LEMMA EndStep ==
    ASSUME Inv, NEW r \in Requests, NEW value \in Answers, End(r, value),
           UNCHANGED <<job, at, no, counted, elements>>,
           page' \in PageRow \cup {None}, alone' \in Requests \cup {None}, faults' \in 0..MaxFaults,
           chosen' \in [Requests -> SUBSET Ids],
           seen' = seen \/ seen' = [seen EXCEPT ![r] = page],
           \/ UNCHANGED <<target, loaded>>
           \/ \E id \in Stored, e \in Element : /\ target' = [target EXCEPT ![r] = id]
                                               /\ loaded' = [loaded EXCEPT ![r] = e]
    PROVE  Inv'
<1>0. TypeOK
  BY DEF Inv, TypeInv
<1>1. /\ pc' \in [Requests -> Labels] /\ answer' \in [Requests -> Answers]
      /\ flushed' = [flushed EXCEPT ![r] = Nothing] /\ holds' = [holds EXCEPT ![r] = {}]
      /\ pc' = [pc EXCEPT ![r] = "done"]
  BY <1>0 DEF End, Goto, Release, TypeOK, Labels, Answers
<1>2. flushed' \in [Requests -> [Ids -> Flushed \cup {None}]] /\ holds' \in [Requests -> SUBSET Resources]
  <2>1. Nothing \in [Ids -> Flushed \cup {None}]
    BY DEF Nothing
  <2> QED BY <1>0, <1>1, <2>1 DEF TypeOK
<1>3. /\ target' \in [Requests -> Ids \cup {None}] /\ loaded' \in [Requests -> Element \cup {None}]
      /\ seen' \in [Requests -> PageRow \cup {None}]
  <2>1. target' \in [Requests -> Ids \cup {None}] /\ loaded' \in [Requests -> Element \cup {None}]
    BY <1>0, LoadedType
  <2>2. seen' \in [Requests -> PageRow \cup {None}]
    BY <1>0 DEF TypeOK
  <2> QED BY <2>1, <2>2
<1>4. TypeOK'
  BY <1>0, <1>1, <1>2, <1>3 DEF TypeOK, Answers
<1>5. Situated(r)' /\ Numbered(r)'
  BY <1>0, <1>1, PageAssumption DEF Situated, Numbered, Inv, TypeInv, TypeOK, Op
<1>6. Others(r)
  BY <1>0, <1>1 DEF Others, TypeOK
<1>7. flushed'[r] = Nothing /\ holds'[r] = {} /\ pc'[r] \in {"status", "done"}
  BY <1>0, <1>1 DEF TypeOK
<1>8. target'[r] = target[r] \/ target'[r] \in Stored
  BY <1>0 DEF TypeOK
<1> QED BY <1>4, <1>5, <1>6, <1>7, <1>8, QuietStep

(* A request that goes on, and whose writes and locks are what they were.      *)
LEMMA GoOn ==
    ASSUME Inv, NEW r \in Requests, NEW label \in Labels \ {"status", "done"}, Goto(r, label),
           pc[r] \notin {"status", "done"},
           UNCHANGED <<job, answer, writes, elements>>,
           at' \in [Requests -> Nat \ {0}] /\ \A q \in Requests \ {r} : at'[q] = at[q],
           no' \in [Requests -> Nat \cup {None}] /\ \A q \in Requests \ {r} : no'[q] = no[q],
           counted' \in [Requests -> Counters \cup {None}],
           page' \in PageRow \cup {None}, alone' \in Requests \cup {None}, faults' \in 0..MaxFaults,
           chosen' \in [Requests -> SUBSET Ids],
           seen' \in [Requests -> PageRow \cup {None}] /\ \A q \in Requests \ {r} : seen'[q] = seen[q],
           \/ UNCHANGED <<target, loaded>>
           \/ target' = [target EXCEPT ![r] = None] /\ UNCHANGED loaded
           \/ \E id \in Stored, e \in Element : /\ target' = [target EXCEPT ![r] = id]
                                               /\ loaded' = [loaded EXCEPT ![r] = e],
           Situated(r)', Numbered(r)'
    PROVE  Inv'
<1>0. TypeOK
  BY DEF Inv, TypeInv
<1>1. pc' \in [Requests -> Labels] /\ pc' = [pc EXCEPT ![r] = label]
  BY <1>0 DEF Goto, TypeOK
<1>3. target' \in [Requests -> Ids \cup {None}] /\ loaded' \in [Requests -> Element \cup {None}]
  BY <1>0, LoadedType
<1>4. TypeOK'
  BY <1>0, <1>1, <1>3 DEF TypeOK
<1>5. Others(r)
  BY <1>0, <1>1 DEF Others, TypeOK
<1>6. pc'[r] \notin {"status", "done"}
  BY <1>0, <1>1 DEF TypeOK
<1>7. target'[r] = target[r] \/ target'[r] \in Stored \cup {None}
  BY <1>0 DEF TypeOK
<1> QED BY <1>4, <1>5, <1>6, <1>7, QuietStep
-------------------------------------------------------------------------------
(* One lemma per action.                                                       *)
LEMMA BeginKeeps ==
    ASSUME Inv, NEW r \in Requests, Begin(r)
    PROVE  Inv'
<1>1. TypeOK /\ Situated(r)
  BY DEF Inv, TypeInv
<1>2. PICK label \in {"check", "load"} : Goto(r, label)
  BY DEF Begin
<1>3. label \in Labels \ {"status", "done"} /\ pc'[r] = label
  BY <1>1, <1>2 DEF Goto, Labels, TypeOK
<1>4. Situated(r)' /\ Numbered(r)'
  BY <1>1, <1>3 DEF Begin, Situated, Numbered, Op
<1> QED BY <1>1, <1>2, <1>3, <1>4, GoOn DEF Begin, TypeOK

LEMMA CheckPageKeeps ==
    ASSUME Inv, NEW r \in Requests, CheckPage(r)
    PROVE  Inv'
<1>1. TypeOK /\ Situated(r)
  BY DEF Inv, TypeInv
<1>2. seen' \in [Requests -> PageRow \cup {None}] /\ seen'[r] = page
  BY <1>1 DEF CheckPage, TypeOK
<1>3. CASE End(r, "conflict") /\ page # None
  BY <1>1, <1>3, EndStep DEF CheckPage, TypeOK, Answers
<1>4. CASE Goto(r, "insertPage") /\ UNCHANGED <<answer, writes>>
  <2>1. Situated(r)' /\ Numbered(r)'
    BY <1>1, <1>4 DEF CheckPage, Situated, Numbered, Op, Goto, TypeOK
  <2> QED BY <1>1, <1>2, <1>4, <2>1, GoOn DEF CheckPage, TypeOK, Labels
<1>5. CASE page # None /\ Op(r) = "import" /\ Goto(r, "item") /\ UNCHANGED <<answer, writes>>
  <2>1. Situated(r)' /\ Numbered(r)'
    BY <1>1, <1>2, <1>5 DEF CheckPage, Situated, Numbered, Op, Goto, TypeOK
  <2> QED BY <1>1, <1>2, <1>5, <2>1, GoOn DEF CheckPage, TypeOK, Labels
<1> QED BY <1>3, <1>4, <1>5 DEF CheckPage

LEMMA InsertPageKeeps ==
    ASSUME Inv, NEW r \in Requests, InsertPage(r)
    PROVE  Inv'
<1>1. TypeOK /\ Situated(r)
  BY DEF Inv, TypeInv
<1>2. NewPage(r, TRUE) \in PageRow /\ NewPage(r, FALSE) \in PageRow
  BY DEF NewPage, PageRow, Counters
<1>3. CASE page # None
  BY <1>1, <1>3, EndStep DEF InsertPage, TypeOK, Answers
<1>4. CASE page = None /\ Op(r) = "import"
  <2>1. seen' \in [Requests -> PageRow \cup {None}] /\ seen'[r] = NewPage(r, TRUE)
    BY <1>1, <1>2, <1>4 DEF InsertPage, TypeOK
  <2>2. Situated(r)' /\ Numbered(r)'
    BY <1>1, <1>2, <1>4, <2>1, PageAssumption DEF InsertPage, Situated, Numbered, Op, Goto, TypeOK
  <2> QED BY <1>1, <1>2, <1>4, <2>1, <2>2, GoOn DEF InsertPage, TypeOK, Labels
<1>5. CASE page = None /\ Op(r) # "import"
  BY <1>1, <1>2, <1>5, EndStep DEF InsertPage, TypeOK, Answers
<1> QED BY <1>3, <1>4, <1>5

LEMMA LoadKeeps ==
    ASSUME Inv, NEW r \in Requests, Load(r)
    PROVE  Inv'
<1>1. TypeOK /\ Situated(r)
  BY DEF Inv, TypeInv
<1>2. seen' \in [Requests -> PageRow \cup {None}] /\ seen'[r] = page
  BY <1>1 DEF Load, TypeOK
<1>3. ASSUME NEW value \in Answers, End(r, value), UNCHANGED <<target, loaded, chosen>>
      PROVE  Inv'
  BY <1>1, <1>3, EndStep DEF Load, TypeOK
<1>4. CASE page # None /\ Op(r) = "create" /\ Goto(r, "insert") /\ UNCHANGED <<answer, writes>>
           /\ UNCHANGED <<target, loaded, chosen>>
  <2>1. Situated(r)' /\ Numbered(r)'
    BY <1>1, <1>2, <1>4, JobType DEF Inv, Load, Situated, Numbered, Op, Goto, TypeOK
  <2> QED BY <1>1, <1>2, <1>4, <2>1, GoOn DEF Load, TypeOK, Labels
<1>5. ASSUME page # None, Op(r) \in Edits \cup {"version"}, NEW id \in WithCode(Item(r).code),
             LoadElement(r, id)
      PROVE  Inv'
  <2>1. id \in Stored /\ id \in Ids /\ elements[id] # None /\ elements[id] \in Element
    BY <1>1 DEF WithCode, Stored, TypeOK
  <2>2. target'[r] = id /\ loaded'[r] = elements[id]
    BY <1>1, <1>5 DEF LoadElement, TypeOK
  <2>3. \E i \in Stored, e \in Element : target' = [target EXCEPT ![r] = i] /\ loaded' = [loaded EXCEPT ![r] = e]
    BY <1>5, <2>1 DEF LoadElement
  <2>4. ASSUME NEW value \in Answers, End(r, value)
        PROVE  Inv'
    BY <1>1, <1>5, <2>3, <2>4, EndStep DEF Load, LoadElement, TypeOK
  <2>5. ASSUME NEW label \in {"number", "flush"}, Goto(r, label), UNCHANGED <<answer, writes>>,
               label = "number" <=> Op(r) = "version"
        PROVE  Inv'
    <3>1. at[r] <= Len(job[r].items)
      BY <1>1, <1>5, JobType DEF Inv, Situated, Edits
    <3>3. id # None
      BY <2>1, PageAssumption
    <3>4. Situated(r)' /\ Numbered(r)'
      BY <1>1, <1>2, <1>5, <2>1, <2>2, <2>5, <3>1, <3>3 DEF Load, Situated, Numbered, Op, Goto,
                                                            TypeOK, Edits
    <3> QED BY <1>1, <1>2, <1>5, <2>3, <2>5, <3>4, GoOn DEF Load, LoadElement, TypeOK, Labels
  <2> QED BY <1>5, <2>4, <2>5 DEF LoadElement, Answers
<1>6. ASSUME page # None, NEW S \in SUBSET Stored, Choose(r, S)
      PROVE  Inv'
  <2>1. chosen' \in [Requests -> SUBSET Ids]
    BY <1>1, <1>6 DEF Choose, TypeOK, Stored
  <2>2. ASSUME NEW value \in Answers, End(r, value)
        PROVE  Inv'
    BY <1>1, <1>6, <2>1, <2>2, EndStep DEF Load, Choose, TypeOK
  <2>3. ASSUME NEW label \in {"delete", "flushPage"}, Goto(r, label), UNCHANGED <<answer, writes>>
        PROVE  Inv'
    <3>2. UNCHANGED <<target, loaded, job, at, no>>
      BY <1>6 DEF Choose, Load
    <3>1. Situated(r)' /\ Numbered(r)'
      BY <1>1, <1>2, <1>6, <2>3, <3>2 DEF Load, Situated, Numbered, Op, Goto, TypeOK
    <3> QED BY <1>1, <1>2, <1>6, <2>1, <2>3, <3>1, GoOn DEF Load, Choose, TypeOK, Labels
  <2> QED BY <1>6, <2>2, <2>3 DEF Choose, Answers
<1>7. ASSUME NEW S \in Duplicates
      PROVE  S \in SUBSET Stored
  BY <1>7 DEF Duplicates, Purges
<1>8. CASE page # None /\ Op(r) = "create"
  BY <1>3, <1>4, <1>8 DEF Load, Answers, Edits
<1>9. CASE page # None /\ Op(r) \in Edits \cup {"version"}
  BY <1>3, <1>5, <1>9 DEF Load, Answers, Edits
<1>10. CASE page # None /\ Op(r) \notin Edits \cup {"version", "create"}
  <2>1. CASE Op(r) = "delete"
    BY <1>3, <1>6, <1>10, <2>1 DEF Load, Answers
  <2>2. CASE Op(r) = "purge"
    BY <1>3, <1>6, <1>7, <1>10, <2>2 DEF Load, Answers
  <2>3. CASE Op(r) \notin {"delete", "purge"}
    BY <1>3, <1>6, <1>10, <2>3 DEF Load, Answers
  <2> QED BY <2>1, <2>2, <2>3
<1>11. CASE page = None
  BY <1>3, <1>11 DEF Load, Answers
<1> QED BY <1>8, <1>9, <1>10, <1>11

LEMMA LookUpKeeps ==
    ASSUME Inv, NEW r \in Requests, LookUp(r)
    PROVE  Inv'
<1>1. TypeOK /\ Situated(r) /\ Op(r) = "import" /\ seen[r] # None
  BY DEF Inv, TypeInv, Situated, LookUp
<1>2. CASE Goto(r, "insert") /\ target' = [target EXCEPT ![r] = None] /\ UNCHANGED <<at, loaded>>
  <2>1. Situated(r)' /\ Numbered(r)'
    BY <1>1, <1>2 DEF LookUp, Situated, Numbered, Op, Goto, TypeOK
  <2> QED BY <1>1, <1>2, <2>1, GoOn DEF LookUp, TypeOK, Labels
<1>3. ASSUME NEW id \in OfPage(r) \cap WithCode(Item(r).code),
             loaded' = [loaded EXCEPT ![r] = IF target[r] = id THEN @ ELSE Seen(r)[id]], target' = [target EXCEPT ![r] = id],
             NEW label \in {"flush", "item"}, Goto(r, label),
             \/ UNCHANGED at
             \/ label = "item" /\ at' = [at EXCEPT ![r] = @ + 1]
      PROVE  Inv'
  <2>1. id \in Stored /\ id \in Ids /\ id # None /\ elements[id] # None
    BY PageAssumption DEF WithCode, Stored
  <2>2. Seen(r)[id] \in Element
    <3>1. CASE flushed[r][id] = None
      BY <2>1, <3>1, SeenType DEF Seen
    <3>2. CASE flushed[r][id] # None
      BY <1>1, <2>1, <3>2, RowType DEF Seen, TypeOK
    <3> QED BY <3>1, <3>2
  <2> DEFINE had == IF target[r] = id THEN loaded[r] ELSE Seen(r)[id]
  <2>10. had \in Element /\ loaded' = [loaded EXCEPT ![r] = had]
    BY <1>1, <1>3, <2>1, <2>2 DEF Situated, TypeOK
  <2> HIDE DEF had
  <2>3. target'[r] = id /\ loaded'[r] \in Element /\ loaded'[r] # None
    BY <1>1, <1>3, <2>10, PageAssumption DEF TypeOK
  <2>4. Situated(r)' /\ Numbered(r)'
    BY <1>1, <1>3, <2>1, <2>3 DEF LookUp, Situated, Numbered, Op, Goto, TypeOK
  <2>5. \E i \in Stored, e \in Element : target' = [target EXCEPT ![r] = i] /\ loaded' = [loaded EXCEPT ![r] = e]
    BY <1>3, <2>1, <2>10
  <2>6. at' \in [Requests -> Nat \ {0}] /\ \A q \in Requests \ {r} : at'[q] = at[q]
    <3>0. at \in [Requests -> Nat \ {0}]
      BY <1>1 DEF TypeOK
    <3>1. CASE UNCHANGED at
      BY <3>0, <3>1
    <3>2. CASE at' = [at EXCEPT ![r] = @ + 1]
      BY <3>0, <3>2
    <3> QED BY <1>3, <3>1, <3>2
  <2>7. label \in Labels \ {"status", "done"} /\ pc[r] \notin {"status", "done"}
    BY <1>3 DEF Labels, LookUp
  <2>8. UNCHANGED <<job, answer, writes, elements>>
    BY DEF LookUp
  <2>9. /\ no' = no /\ counted' = counted /\ page' = page /\ alone' = alone /\ faults' = faults
        /\ chosen' = chosen /\ seen' = seen
    BY DEF LookUp
  <2> QED BY <1>1, <1>3, <2>4, <2>5, <2>6, <2>7, <2>8, <2>9, GoOn DEF TypeOK
<1>4. pc' = pc => Goto(r, "item")
  BY <1>1 DEF LookUp, Goto, TypeOK
<1> QED BY <1>2, <1>3, <1>4 DEF LookUp

LEMMA LastItemKeeps ==
    ASSUME Inv, NEW r \in Requests, LastItem(r)
    PROVE  Inv'
<1>1. TypeOK /\ Situated(r)
  BY DEF Inv, TypeInv
<1>2. Situated(r)' /\ Numbered(r)'
  BY <1>1 DEF LastItem, Situated, Numbered, Op, Goto, TypeOK
<1> QED BY <1>1, <1>2, GoOn DEF LastItem, TypeOK, Labels

LEMMA ReadNumberKeeps ==
    ASSUME Inv, NEW r \in Requests, ReadNumber(r)
    PROVE  Inv'
<1>1. TypeOK /\ Situated(r) /\ Op(r) = "version" /\ target[r] \in Ids
  BY DEF Inv, TypeInv, TypeOK, Situated, ReadNumber
<1>2. PICK n \in NextNumbers(elements[target[r]]) : no' = [no EXCEPT ![r] = n]
  BY DEF ReadNumber
<1>3. elements[target[r]] \in Element \cup {None}
  BY <1>1 DEF TypeOK
<1>4. n \in Nat \ {0} /\ (elements[target[r]] # None => n = elements[target[r]].version + 1)
  <2>1. CASE elements[target[r]] = None
    BY <1>2, <2>1 DEF NextNumbers, NumbersOf
  <2>2. CASE elements[target[r]] # None
    <3>1. elements[target[r]] \in Element /\ Whole(elements[target[r]])
      BY <1>1, <1>3, <2>2 DEF Inv, Rows, AllWhole, Stored
    <3>2. n = elements[target[r]].version + 1
      BY <1>2, <3>1, NextIsOneMore, PageAssumption
    <3> QED BY <3>1, <3>2 DEF Element
  <2> QED BY <2>1, <2>2
<1>5. at[r] <= Len(job[r].items)
  BY <1>1, JobType DEF Inv, Situated
<1>6. no' \in [Requests -> Nat \cup {None}] /\ no'[r] = n /\ n # None
  BY <1>1, <1>2, <1>4, PageAssumption DEF TypeOK
<1>7. Situated(r)'
  BY <1>1, <1>5, <1>6 DEF ReadNumber, Situated, Op, Goto, TypeOK
<1>8. elements[target[r]] # None => elements[target[r]].version \in Nat
  BY <1>3 DEF Element
<1>9. Numbered(r)'
  BY <1>1, <1>4, <1>6, <1>8 DEF ReadNumber, Numbered, Op
<1> QED BY <1>1, <1>2, <1>6, <1>7, <1>9, GoOn DEF ReadNumber, TypeOK, Labels

LEMMA CountElementsKeeps ==
    ASSUME Inv, NEW r \in Requests, CountElements(r)
    PROVE  Inv'
<1>1. TypeOK /\ Situated(r)
  BY DEF Inv, TypeInv
<1>2. counted' \in [Requests -> Counters \cup {None}]
  BY <1>1, TallyType DEF CountElements, Count, TypeOK
<1>3. Situated(r)' /\ Numbered(r)'
  BY <1>1 DEF CountElements, Situated, Numbered, Op, Goto, TypeOK
<1> QED BY <1>1, <1>2, <1>3, GoOn DEF CountElements, TypeOK, Labels

LEMMA ReloadKeeps ==
    ASSUME Inv, NEW r \in Requests, Reload(r)
    PROVE  Inv'
<1>1. TypeOK /\ Situated(r)
  BY DEF Inv, TypeInv
<1>2. CASE ~StillThere(r)
  BY <1>1, <1>2, EndStep DEF Reload, TypeOK, Answers
<1>3. CASE StillThere(r)
  <2>1. seen' \in [Requests -> PageRow \cup {None}] /\ seen'[r] = page
    BY <1>1, <1>3 DEF Reload, TypeOK
  <2>2. Numbered(r)' /\ (page # None => Situated(r)')
    BY <1>1, <1>3, <2>1 DEF Reload, Situated, Numbered, Op, Goto, TypeOK
  <2>3. page # None
    BY <1>3 DEF StillThere
  <2> QED BY <1>1, <1>3, <2>1, <2>2, <2>3, GoOn DEF Reload, TypeOK, Labels
<1> QED BY <1>2, <1>3

LEMMA FlushPageKeeps ==
    ASSUME Inv, NEW r \in Requests, FlushPage(r)
    PROVE  Inv'
<1>1. TypeOK /\ Situated(r)
  BY DEF Inv, TypeInv
<1>2. CASE OfPage(r) \subseteq chosen[r]
  <2>1. Situated(r)' /\ Numbered(r)'
    BY <1>1, <1>2 DEF FlushPage, Situated, Numbered, Op, Goto, TypeOK
  <2> QED BY <1>1, <1>2, <2>1, GoOn DEF FlushPage, TypeOK, Labels
<1>3. CASE ~(OfPage(r) \subseteq chosen[r])
  BY <1>1, <1>3, EndStep DEF FlushPage, TypeOK, Answers
<1> QED BY <1>2, <1>3

LEMMA EndsKeep ==
    ASSUME Inv, NEW r \in Requests, BreakDeadlock(r) \/ WriteStatus(r) \/ Fails(r)
    PROVE  Inv'
<1>1. TypeOK /\ Situated(r)
  BY DEF Inv, TypeInv
<1>2. alone' \in Requests \cup {None} /\ faults' \in 0..MaxFaults
  <2>1. CASE UNCHANGED history
    BY <1>1, <2>1 DEF TypeOK
  <2>2. CASE faults < MaxFaults /\ faults' = faults + 1 /\ alone' = None
    <3>1. faults \in Nat /\ faults + 1 <= MaxFaults /\ MaxFaults \in Nat
      BY <1>1, <2>2, PageAssumption DEF TypeOK
    <3>2. faults' \in 0..MaxFaults
      BY <2>2, <3>1
    <3>3. alone' \in Requests \cup {None}
      BY <2>2, Zenon
    <3> QED BY <3>2, <3>3
  <2>3. BreakDeadlock(r) => UNCHANGED history
    BY DEF BreakDeadlock
  <2>4. WriteStatus(r) => UNCHANGED history
    BY DEF WriteStatus
  <2>5. Fails(r) => faults < MaxFaults /\ faults' = faults + 1 /\ alone' = None
    BY DEF Fails, Fault
  <2> QED BY <2>1, <2>2, <2>3, <2>4, <2>5
<1>3. PICK value \in Answers : End(r, value)
  BY DEF BreakDeadlock, WriteStatus, Fails, Answers
<1> QED BY <1>1, <1>2, <1>3, EndStep DEF BreakDeadlock, WriteStatus, Fails, TypeOK
-------------------------------------------------------------------------------
(* Locks and flushes.                                                          *)
LEMMA NeedsType ==
    ASSUME Inv, NEW r \in Requests
    PROVE  Needs(r) \subseteq Resources
<1>1. TypeOK /\ Situated(r)
  BY DEF Inv, TypeInv
<1>2. CASE pc[r] = "insert"
  BY <1>1, <1>2, ItemType DEF Inv, Needs, Resources, Situated
<1>3. CASE pc[r] = "flush"
  <2>1. target[r] \in Ids /\ loaded[r].code \in Codes
    BY <1>1, <1>3 DEF Situated, TypeOK, Element
  <2>2. Op(r) = "rename" => Item(r).to \in Codes
    BY <1>1, <1>3, ItemType DEF Inv, Situated
  <2> QED BY <1>3, <2>1, <2>2 DEF Needs, Resources
<1>4. CASE pc[r] \notin {"insert", "flush"}
  BY <1>4 DEF Needs, Resources, OfPage, Stored
<1> QED BY <1>2, <1>3, <1>4

LEMMA AcquireKeeps ==
    ASSUME Inv, NEW r \in Requests, Acquire(r)
    PROVE  Inv'
<1>1. TypeOK /\ Situated(r)
  BY DEF Inv, TypeInv
<1>2. PICK x \in Needs(r) \ holds[r] : /\ \A q \in Requests \ {r} : x \notin holds[q]
                                     /\ holds' = [holds EXCEPT ![r] = @ \cup {x}]
  BY DEF Acquire
<1>3. holds' \in [Requests -> SUBSET Resources]
  BY <1>1, <1>2, NeedsType DEF TypeOK
<1>4. holds'[r] = holds[r] \cup {x} /\ \A q \in Requests \ {r} : holds'[q] = holds[q]
  BY <1>1, <1>2 DEF TypeOK
<1>5. TypeOK'
  BY <1>1, <1>3 DEF Acquire, TypeOK
<1>6. LocksApart'
  BY <1>2, <1>4 DEF LocksApart, Inv, Rows
<1>7. FlushedIsHeld' /\ Elders' /\ AllWhole'
  BY <1>4 DEF Acquire, FlushedIsHeld, Elders, AllWhole, Inv, Rows, Stored, Old, Row, Whole
<1>8. \A q \in Requests : Situated(q)' /\ Numbered(q)'
  BY DEF Acquire, Situated, Numbered, Inv, TypeInv, Op
<1> QED BY <1>5, <1>6, <1>7, <1>8 DEF Inv, TypeInv, Rows

(* A flush of columns and versions to an element that is locked, or new.       *)
LEMMA FlushStep ==
    ASSUME Inv, NEW r \in Requests, NEW id \in Ids, NEW f \in Flushed, FlushElement(r, id, f),
           pc[r] \in {"flush", "insert"},
           UNCHANGED <<job, seen, target, chosen, no, counted, database, history>>,
           UNCHANGED loaded \/ \E e \in Element : loaded' = [loaded EXCEPT ![r] = e],
           \/ id \in holds[r] /\ elements[id] # None
           \/ id[1] = r /\ elements[id] = None /\ f.code # None /\ f.locator \in Locators,
           Whole(Row(elements[id], f))
    PROVE  Inv'
<1>1. TypeOK /\ Situated(r)
  BY DEF Inv, TypeInv
<1>2. PICK label \in {"item", "commit", "count"} : Goto(r, label) /\ (label = "item" <=> Op(r) = "import")
  BY DEF FlushElement
<1>3. pc' \in [Requests -> Labels] /\ pc'[r] = label /\ \A q \in Requests \ {r} : pc'[q] = pc[q]
  BY <1>1, <1>2 DEF Goto, TypeOK, Labels
<1>4. at' \in [Requests -> Nat \ {0}] /\ (Op(r) # "import" => at' = at)
      /\ \A q \in Requests \ {r} : at'[q] = at[q]
  BY <1>1 DEF FlushElement, TypeOK
<1>5. /\ flushed' \in [Requests -> [Ids -> Flushed \cup {None}]]
      /\ flushed'[r] = [flushed[r] EXCEPT ![id] = f] /\ flushed'[r][id] = f
      /\ \A q \in Requests \ {r} : flushed'[q] = flushed[q]
      /\ \A i \in Ids \ {id} : flushed'[r][i] = flushed[r][i]
  BY <1>1 DEF FlushElement, TypeOK
<1>13. /\ loaded' \in [Requests -> Element \cup {None}] /\ \A q \in Requests \ {r} : loaded'[q] = loaded[q]
       /\ loaded[r] # None => loaded'[r] # None
  <2>1. loaded \in [Requests -> Element \cup {None}] /\ None \notin Element
    BY <1>1, PageAssumption DEF TypeOK
  <2>2. CASE UNCHANGED loaded
    BY <2>1, <2>2
  <2>3. ASSUME NEW e \in Element, loaded' = [loaded EXCEPT ![r] = e]
        PROVE  /\ loaded' \in [Requests -> Element \cup {None}] /\ loaded'[r] # None
               /\ \A q \in Requests \ {r} : loaded'[q] = loaded[q]
    BY <2>1, <2>3
  <2> QED BY <2>2, <2>3
<1>6. TypeOK'
  BY <1>1, <1>3, <1>4, <1>5, <1>13 DEF FlushElement, TypeOK
<1>7. Others(r)
  BY <1>3, <1>4, <1>5, <1>13 DEF Others, FlushElement
<1>8. Situated(r)' /\ Numbered(r)'
  BY <1>1, <1>2, <1>3, <1>4, <1>13 DEF FlushElement, Situated, Numbered, Op
<1>9. Elders'
  <2>1. \A i \in Ids : Old(i) => Old(i)'
    BY <1>7, OldStaysOld
  <2>2. \A q \in Requests : target[q] # None => target[q] \in Ids
    BY <1>1 DEF TypeOK
  <2> QED BY <2>1, <2>2 DEF Elders, Inv, Rows, Stored, Old
<1>10. LocksApart'
  BY DEF FlushElement, LocksApart, Inv, Rows
<1>11. FlushedIsHeld'
  <2>1. \A q \in Requests : pc'[q] \in {"status", "done"} => flushed'[q] = Nothing
    BY <1>2, <1>3, <1>5 DEF FlushedIsHeld, Inv, Rows
  <2>2. Nothing' = Nothing /\ holds' = holds
    BY DEF Nothing, FlushElement
  <2> QED BY <1>5, <2>1, <2>2 DEF FlushedIsHeld, Inv, Rows
<1>12. AllWhole'
  <2>1. elements' = elements
    OBVIOUS
  <2>2. \A i \in Stored : Whole(elements[i])
    BY DEF Inv, Rows, AllWhole
  <2>3. ASSUME NEW q \in Requests, NEW i \in Ids, flushed'[q][i] # None
        PROVE  Whole(Row(elements[i], flushed'[q][i]))
    <3>1. CASE q = r /\ i = id
      BY <1>5, <3>1
    <3>2. CASE ~(q = r /\ i = id)
      BY <1>5, <2>3, <3>2 DEF Inv, Rows, AllWhole
    <3> QED BY <3>1, <3>2
  <2>5. (\A i \in Stored : Whole(elements[i]))'
    BY <2>1, <2>2 DEF Stored, Whole
  <2>6. (\A q \in Requests : \A i \in Ids : flushed[q][i] # None => Whole(Row(elements[i], flushed[q][i])))'
    BY <2>1, <2>3 DEF Whole, Row
  <2> QED BY <2>5, <2>6 DEF AllWhole
<1> QED BY <1>6, <1>7, <1>8, <1>9, <1>10, <1>11, <1>12, OthersSituated, NumberedStays DEF Inv,
           TypeInv, Rows

LEMMA InsertKeeps ==
    ASSUME Inv, NEW r \in Requests, Insert(r)
    PROVE  Inv'
<1>1. TypeOK /\ Situated(r) /\ Op(r) # "rename" /\ at[r] <= Len(job[r].items) /\ pc[r] = "insert"
  BY DEF Inv, TypeInv, Situated, Insert
<1>2. CASE ~Present(r) \/ WithCode(Item(r).code) # {}
  BY <1>1, <1>2, EndStep DEF Insert, TypeOK, Answers
<1> DEFINE id == <<r, Item(r).code>>
           l == With(Blank, Item(r).to)
           f == [NewElement(Item(r).code, l) EXCEPT !.approved = Op(r) = "import"]
<1>3. CASE Present(r) /\ WithCode(Item(r).code) = {}
  <2>1. Item(r).code \in Codes /\ l \in Locators /\ l \in Given
    BY <1>1, ItemType, WithType DEF Inv
  <2> HIDE DEF l
  <2>2. id \in Ids /\ id[1] = r
    BY <2>1 DEF Ids
  <2>7. f = [code |-> Item(r).code, locator |-> l, approved |-> Op(r) = "import",
             version |-> 1, versions |-> {[no |-> 1, locator |-> l]}]
    BY DEF NewElement
  <2>8. {[no |-> 1, locator |-> l]} \in SUBSET Versions
    BY <2>1 DEF Versions
  <2>9. (Op(r) = "import") \in BOOLEAN
    OBVIOUS
  <2>3. f \in Flushed /\ f.code # None /\ f.locator \in Locators
    <3> DEFINE approved == Op(r) = "import"
               versions == {[no |-> 1, locator |-> l]}
    <3>1. approved \in BOOLEAN /\ versions \in SUBSET Versions
      BY <2>8, <2>9
    <3>2. f = [code |-> Item(r).code, locator |-> l, approved |-> approved, version |-> 1, versions |-> versions]
      BY <2>7
    <3>3. Item(r).code # None
      BY <2>1, PageAssumption
    <3> HIDE DEF approved, versions, f
    <3>4. f \in Flushed
      BY <2>1, <3>1, <3>2 DEF Flushed
    <3> QED BY <2>1, <3>2, <3>3, <3>4
  <2>4. elements[id] = None
    BY <1>1, <2>2, PageAssumption DEF Inv, Rows, Elders, Stored, Old
  <2>5. Whole(Row(elements[id], f))
    <3>1. Row(None, f).versions = f.versions /\ Row(None, f).version = 1 /\ Row(None, f).locator = l
      BY <2>7 DEF Row
    <3>5. f.versions = {[no |-> 1, locator |-> l]}
      BY <2>7
    <3> DEFINE first == [no |-> 1, locator |-> l]
    <3>6. first.no = 1 /\ first.locator = l /\ f.versions = {first}
      BY <3>5
    <3> HIDE DEF f, first
    <3>2. {v.no : v \in f.versions} = 1..1
      <4>1. {v.no : v \in f.versions} = {1}
        BY <3>6
      <4> QED BY <4>1
    <3>3. \A v, w \in f.versions : v = w
      BY <3>6
    <3>4. \A c \in Columns : \E v \in f.versions : v.locator[c] = l[c]
      BY <3>6
    <3> QED BY <2>4, <3>1, <3>2, <3>3, <3>4 DEF Whole
  <2>6. FlushElement(r, id, f)
    BY <1>3 DEF Insert, l
  <2> HIDE DEF id, f
  <2> QED BY <1>1, <2>2, <2>3, <2>4, <2>5, <2>6, FlushStep DEF Insert
<1> QED BY <1>2, <1>3

(* What the session of r has of an element extends what the database has.      *)
LEMMA SeenGrows ==
    ASSUME Inv, NEW r \in Requests, NEW id \in Ids, elements[id] # None
    PROVE  /\ Seen(r)[id] \in Element /\ elements[id] \in Element
           /\ elements[id].versions \subseteq Seen(r)[id].versions
           /\ elements[id].version <= Seen(r)[id].version
<1>1. Seen(r)[id] # None
  <2>1. CASE flushed[r][id] = None
    BY <2>1 DEF Seen
  <2>2. CASE flushed[r][id] # None
    <3>1. Row(elements[id], flushed[r][id]) \in Element
      BY <2>2, RowType DEF Inv, TypeInv, TypeOK
    <3> QED BY <2>2, <3>1, PageAssumption DEF Seen
  <2> QED BY <2>1, <2>2
<1>2. Seen(r)[id] \in Element /\ elements[id] \in Element
  BY <1>1, SeenType DEF Inv, TypeInv, TypeOK
<1>3. elements[id].versions \subseteq Seen(r)[id].versions
  BY DEF Seen, Row
<1>4. Whole(elements[id]) /\ Whole(Seen(r)[id])
  BY <1>1, SeenType DEF Inv, Rows, AllWhole, Stored
<1>5. 1..elements[id].version \subseteq 1..Seen(r)[id].version
  BY <1>3, <1>4 DEF Whole
<1>6. elements[id].version \in Nat /\ Seen(r)[id].version \in Nat
  BY <1>2 DEF Element
<1>7. elements[id].version <= Seen(r)[id].version
  BY <1>5, <1>6
<1> QED BY <1>2, <1>3, <1>7

LEMMA FlushKeeps ==
    ASSUME Inv, NEW r \in Requests, Flush(r)
    PROVE  Inv'
<1> DEFINE id == target[r]
           e == Seen(r)[id]
           new == Changed(r, loaded[r])
<1>1. TypeOK /\ Situated(r) /\ pc[r] = "flush" /\ id \in Ids /\ loaded[r] \in Element
      /\ at[r] <= Len(job[r].items) /\ (Op(r) = "version" => no[r] \in Nat)
  BY DEF Inv, TypeInv, TypeOK, Situated, Flush
<1>2. CASE End(r, "error") /\ UNCHANGED <<at, loaded>>
  BY <1>1, <1>2, EndStep DEF Flush, TypeOK, Answers
<1>3. ASSUME elements[id] # None, NEW n,
             FlushElement(r, id, Update(r, n)), loaded' = [loaded EXCEPT ![r] = new],
             IF Op(r) = "version" THEN n = no[r] /\ ~NumberTaken(r, n) ELSE n \in NextNumbers(e)
      PROVE  Inv'
  <2>1. new \in Element
    BY <1>1, ChangedType DEF Inv
  <2>2. e \in Element /\ Whole(e) /\ elements[id] \in Element /\ elements[id].version <= e.version
    BY <1>1, <1>3, SeenGrows, SeenType, PageAssumption
  <2>3. e.version \in Nat /\ elements[id].version \in Nat /\ NumbersOf(e) = 1..e.version
    BY <2>2, PageAssumption DEF Element, NumbersOf, Whole
  <2>4. n = e.version + 1
    <3>1. CASE Op(r) = "version"
      <4>1. n \in Nat /\ n \in 1..(elements[id].version + 1)
        BY <1>1, <1>3, <3>1 DEF Inv, Numbered
      <4>2. n \notin 1..e.version
        BY <1>3, <2>3, <3>1 DEF NumberTaken
      <4> QED BY <2>2, <2>3, <4>1, <4>2
    <3>2. CASE Op(r) # "version"
      BY <1>3, <2>2, <3>2, NextIsOneMore, PageAssumption
    <3> QED BY <3>1, <3>2
  <2> DEFINE v == [no |-> n, locator |-> new.locator]
             f == Update(r, n)
             b == Before(r)
             g == Row(elements[id], f)
  <2>5. v \in Versions /\ v.no = n /\ v.locator = new.locator
    BY <2>1, <2>3, <2>4 DEF Versions, Element
  <2>6. b \in Flushed
    <3>1. CASE flushed[r][target[r]] # None
      BY <1>1, <1>3, <3>1 DEF Before, TypeOK
    <3>2. [code |-> None, locator |-> Unset, approved |-> FALSE, version |-> 0, versions |-> {}] \in Flushed
      BY WithType DEF Flushed
    <3> QED BY <3>1, <3>2 DEF Before
  <2>7. f \in Flushed
    <3>1. n \in Nat
      BY <2>3, <2>4
    <3>2. b.versions \cup {v} \subseteq Versions
      BY <2>5, <2>6 DEF Flushed
    <3>3. /\ (IF new.code # loaded[r].code THEN new.code ELSE b.code) \in Codes \cup {None}
          /\ With(b.locator, Differing(new.locator, loaded[r].locator)) \in Given
          /\ (b.approved \/ (new.approved /\ ~loaded[r].approved)) \in BOOLEAN
      BY <1>1, <2>1, <2>6, WithType DEF Flushed, Element
    <3> QED BY <3>1, <3>2, <3>3 DEF Update, Flushed
  <2>8. g \in Element
    BY <2>2, <2>7, <1>3, RowType
  <2>9. f.version = n /\ f.versions = b.versions \cup {v}
        /\ f.locator = With(b.locator, Differing(new.locator, loaded[r].locator))
    BY DEF Update
  <2>10. g.version = n /\ g.versions = e.versions \cup {v}
    <3>1. g.version = n /\ g.versions = b.versions \cup {v} \cup elements[id].versions
      BY <2>9, <1>3 DEF Row
    <3>2. e.versions = b.versions \cup elements[id].versions
      BY <1>1, <1>3 DEF Before, Seen, Row
    <3> HIDE DEF e, b, v, g, f
    <3> QED BY <3>1, <3>2
  <2>11. \A c \in Columns : g.locator[c] \in {e.locator[c], v.locator[c]}
    <3> SUFFICES ASSUME NEW c \in Columns
                 PROVE  g.locator[c] \in {e.locator[c], v.locator[c]}
      OBVIOUS
    <3>1. g.locator = With(elements[id].locator, f.locator)
      BY <1>3 DEF Row
    <3>2. e.locator[c] = IF b.locator[c] # None THEN b.locator[c] ELSE elements[id].locator[c]
      <4>1. CASE flushed[r][id] # None
        <5>1. e.locator = With(elements[id].locator, flushed[r][id].locator) /\ b = flushed[r][id]
          BY <1>1, <1>3, <4>1 DEF Before, Seen, Row
        <5> QED BY <5>1 DEF With
      <4>2. CASE flushed[r][id] = None
        <5>1. e = elements[id] /\ b.locator = Unset
          BY <1>1, <4>2 DEF Before, Seen
        <5> QED BY <5>1 DEF Unset
      <4> QED BY <4>1, <4>2
    <3>3. new.locator[c] # None
      BY <2>1, LocatorAssumption DEF Element, Locators
    <3> HIDE DEF e, b, g, f, new
    <3>4. f.locator[c] = IF new.locator[c] # loaded[r].locator[c] THEN new.locator[c] ELSE b.locator[c]
      BY <2>9, <3>3 DEF With, Differing
    <3>5. g.locator[c] = IF f.locator[c] # None THEN f.locator[c] ELSE elements[id].locator[c]
      BY <3>1 DEF With
    <3> QED BY <2>5, <3>2, <3>3, <3>4, <3>5
  <2>12. Whole(g)
    <3> HIDE DEF e, b, v, g, f, new
    <3> QED BY <2>2, <2>4, <2>5, <2>8, <2>10, <2>11, OneMoreVersion
  <2>13. id \in holds[r]
    BY <1>1 DEF Flush, Locked, Needs
  <2>14. UNCHANGED <<job, seen, target, chosen, no, counted, database, history>>
    BY DEF Flush
  <2>15. \E x \in Element : loaded' = [loaded EXCEPT ![r] = x]
    BY <1>3, <2>1
  <2> HIDE DEF id, f
  <2> QED BY <1>1, <1>3, <2>7, <2>12, <2>13, <2>14, <2>15, FlushStep DEF f
<1> QED BY <1>2, <1>3 DEF Flush
-------------------------------------------------------------------------------
(* The end of a transaction: the elements that it had locked and deletes, and  *)
(* those that it had flushed.                                                  *)
Deleted(r, id) == elements'[id] = None /\ elements[id] # None /\ id \in holds[r]
Stores(r, id) == elements'[id] = Seen(r)[id] /\ flushed[r][id] # None /\ pc'[r] \in {"status", "done"}

LEMMA TransactionEnds ==
    ASSUME Inv, NEW r \in Requests, Others(r), UNCHANGED <<job, target, no>>,
           TypeOK', Situated(r)', pc[r] \notin {"status", "done"}, pc'[r] # "flush",
           flushed'[r] = Nothing, holds'[r] = {},
           \A id \in Ids : elements'[id] = elements[id] \/ Deleted(r, id) \/ Stores(r, id)
    PROVE  Inv'
<1>1. TypeOK
  BY DEF Inv, TypeInv
<1>2. ASSUME NEW q \in Requests \ {r}, NEW id \in Ids, flushed[q][id] # None
      PROVE  elements'[id] = elements[id]
  <2>1. \/ id \in holds[q] /\ elements[id] # None
        \/ id[1] = q /\ elements[id] = None
    BY <1>2 DEF Inv, Rows, FlushedIsHeld
  <2>2. flushed[r][id] # None => \/ id \in holds[r] /\ elements[id] # None
                                 \/ id[1] = r /\ elements[id] = None
    BY DEF Inv, Rows, FlushedIsHeld
  <2>3. holds[q] \cap holds[r] = {}
    BY DEF Inv, Rows, LocksApart
  <2> QED BY <2>1, <2>2, <2>3 DEF Deleted, Stores
<1>3. \A id \in Ids : elements[id] = None /\ elements'[id] # None => id[1] = r /\ pc'[r] \in {"status", "done"}
  BY DEF Deleted, Stores, Inv, Rows, FlushedIsHeld
<1>4. \A id \in Ids : Old(id) => Old(id)'
  BY OldStaysOld
<1>5. Elders'
  <2>1. \A id \in Ids : elements'[id] # None => Old(id)'
    BY <1>3, <1>4 DEF Old, Inv, Rows, Elders, Stored
  <2>2. ASSUME NEW q \in Requests, target[q] # None
        PROVE  Old(target[q])'
    <3>1. target[q] \in Ids /\ Old(target[q]) /\ target' = target
      BY <1>1, <2>2 DEF Inv, Rows, Elders, TypeOK
    <3> QED BY <1>4, <3>1 DEF Old
  <2> QED BY <2>1, <2>2 DEF Elders, Stored, Old
<1>6. LocksApart'
  BY DEF LocksApart, Others, Inv, Rows
<1>7. \A q \in Requests, id \in Ids : flushed'[q][id] # None =>
          q # r /\ flushed'[q] = flushed[q] /\ elements'[id] = elements[id]
  BY <1>2 DEF Others, Nothing
<1>8. FlushedIsHeld'
  <2>1. Nothing' = Nothing
    BY DEF Nothing
  <2>2. \A q \in Requests : pc'[q] \in {"status", "done"} => flushed'[q] = Nothing
    BY DEF Others, Inv, Rows, FlushedIsHeld
  <2> QED BY <1>7, <2>1, <2>2 DEF FlushedIsHeld, Others, Inv, Rows
<1>9. AllWhole'
  <2>1. \A id \in Ids : elements'[id] # None => Whole(elements'[id])
    <3>1. \A id \in Ids : elements[id] # None => Whole(elements[id])
      BY DEF Inv, Rows, AllWhole, Stored
    <3>2. \A id \in Ids : Seen(r)[id] # None => Whole(Seen(r)[id])
      BY SeenType
    <3> QED BY <3>1, <3>2 DEF Deleted, Stores
  <2>2. \A q \in Requests, id \in Ids : flushed'[q][id] # None => Whole(Row(elements'[id], flushed'[q][id]))
    BY <1>7 DEF Inv, Rows, AllWhole
  <2> QED BY <2>1, <2>2 DEF AllWhole, Stored, Whole, Row
<1>10. \A q \in Requests : Numbered(q)'
  <2> SUFFICES ASSUME NEW q \in Requests, pc'[q] = "flush", Op(q) = "version", elements'[target[q]] # None
               PROVE  no[q] \in 1..(elements'[target[q]].version + 1)
    BY DEF Numbered, Op
  <2>1. q # r /\ pc[q] = "flush"
    BY DEF Others
  <2>2. target[q] \in Ids /\ Old(target[q])
    BY <1>1, <2>1 DEF Inv, TypeInv, TypeOK, Situated, Rows, Elders
  <2>3. elements[target[q]] # None
    BY <1>3, <2>2, PageAssumption DEF Old
  <2>4. no[q] \in 1..(elements[target[q]].version + 1)
    BY <2>1, <2>3 DEF Inv, Numbered
  <2>5. elements'[target[q]] = elements[target[q]] \/ elements'[target[q]] = Seen(r)[target[q]]
    BY <2>2 DEF Deleted, Stores
  <2>6. /\ elements[target[q]] \in Element /\ Seen(r)[target[q]] \in Element
        /\ elements[target[q]].version <= Seen(r)[target[q]].version
    BY <2>2, <2>3, SeenGrows
  <2>7. elements[target[q]].version \in Nat /\ Seen(r)[target[q]].version \in Nat
    BY <2>6 DEF Element
  <2>8. elements'[target[q]].version \in Nat /\ elements[target[q]].version <= elements'[target[q]].version
    BY <2>5, <2>6, <2>7
  <2> QED BY <2>4, <2>7, <2>8
<1> QED BY <1>5, <1>6, <1>8, <1>9, <1>10, OthersSituated DEF Inv, TypeInv, Rows

LEMMA DeleteKeeps ==
    ASSUME Inv, NEW r \in Requests, Delete(r)
    PROVE  Inv'
<1>1. TypeOK /\ Situated(r) /\ pc[r] = "delete"
  BY DEF Inv, TypeInv, Delete
<1>2. CASE Op(r) = "drop"
  <2>1. Situated(r)' /\ Numbered(r)'
    BY <1>1, <1>2 DEF Delete, Situated, Numbered, Op, Goto, TypeOK
  <2> QED BY <1>1, <1>2, <2>1, GoOn DEF Delete, TypeOK, Labels
<1>3. CASE Op(r) # "drop"
  <2>1. /\ pc' = [pc EXCEPT ![r] = "reload"]
        /\ flushed' = [flushed EXCEPT ![r] = Nothing] /\ holds' = [holds EXCEPT ![r] = {}]
        /\ elements' = [id \in Ids |-> IF id \in chosen[r] THEN None ELSE elements[id]]
        /\ UNCHANGED <<job, answer, session, page, history>>
    BY <1>3 DEF Delete, Goto, Release
  <2>2. Nothing \in [Ids -> Flushed \cup {None}] /\ "reload" \in Labels
    BY DEF Nothing, Labels
  <2>3. TypeOK'
    BY <1>1, <2>1, <2>2 DEF TypeOK
  <2>4. Others(r) /\ pc'[r] = "reload" /\ flushed'[r] = Nothing /\ holds'[r] = {}
    BY <1>1, <2>1 DEF Others, TypeOK
  <2>5. Situated(r)'
    BY <1>1, <2>1, <2>4 DEF Situated, Op
  <2>6. chosen[r] \cap Stored \subseteq holds[r]
    BY <1>1 DEF Delete, Locked, Needs
  <2>7. \A id \in Ids : elements'[id] = elements[id] \/ Deleted(r, id)
    BY <2>1, <2>6 DEF Deleted, Stored
  <2> QED BY <1>1, <2>1, <2>3, <2>4, <2>5, <2>7, TransactionEnds
<1> QED BY <1>2, <1>3

(* The answer of a request that has stored what it had to.                     *)
LEMMA DoneStep ==
    ASSUME Inv, NEW r \in Requests, End(r, "ok"), UNCHANGED <<job, session, history>>,
           pc[r] \notin {"status", "done"},
           page' \in PageRow \cup {None}, elements' \in [Ids -> Element \cup {None}],
           \A id \in Ids : elements'[id] = elements[id] \/ Deleted(r, id) \/ Stores(r, id)
    PROVE  Inv'
<1>1. TypeOK /\ Situated(r)
  BY DEF Inv, TypeInv
<1>2. /\ pc' = [pc EXCEPT ![r] = "done"] /\ answer' = [answer EXCEPT ![r] = "ok"]
      /\ flushed' = [flushed EXCEPT ![r] = Nothing] /\ holds' = [holds EXCEPT ![r] = {}]
  BY DEF End, Goto, Release
<1>3. Nothing \in [Ids -> Flushed \cup {None}] /\ "done" \in Labels
  BY DEF Nothing, Labels
<1>4. TypeOK'
  BY <1>1, <1>2, <1>3 DEF TypeOK
<1>5. Others(r) /\ pc'[r] = "done" /\ flushed'[r] = Nothing /\ holds'[r] = {}
  BY <1>1, <1>2 DEF Others, TypeOK
<1>6. Situated(r)'
  BY <1>1, <1>5 DEF Situated, Op
<1> QED BY <1>1, <1>4, <1>5, <1>6, TransactionEnds

LEMMA DropKeeps ==
    ASSUME Inv, NEW r \in Requests, Drop(r)
    PROVE  Inv'
<1>1. TypeOK /\ pc[r] = "drop"
  BY DEF Inv, TypeInv, Drop
<1>2. Present(r) => Stored \subseteq holds[r]
  <2>1. Page \in Needs(r) /\ Needs(r) \subseteq holds[r]
    BY <1>1 DEF Drop, Locked, Needs
  <2> QED BY <1>1, <2>1 DEF Needs, OfPage
<1>3. page' \in PageRow \cup {None} /\ elements' \in [Ids -> Element \cup {None}]
  BY <1>1 DEF Drop, TypeOK, Nothing
<1>4. \A id \in Ids : elements'[id] = elements[id] \/ Deleted(r, id)
  BY <1>2 DEF Drop, Nothing, Deleted, Stored
<1> QED BY <1>1, <1>3, <1>4, DoneStep DEF Drop

LEMMA WrittenPageType ==
    ASSUME TypeOK, NEW r \in Requests, seen[r] # None, Present(r)
    PROVE  WrittenPage(r) \in PageRow
<1>1. seen[r] \in PageRow /\ counted[r] \in Counters \cup {None}
  BY DEF TypeOK
<1>2. seen[r].by # r => page \in PageRow
  BY DEF Present, StillThere, TypeOK
<1> DEFINE row == IF seen[r].by = r THEN seen[r] ELSE page
<1>3. row \in PageRow
  BY <1>1, <1>2
<1>4. Dirty(r) \in BOOLEAN
  BY DEF Dirty
<1>5. CASE counted[r] = None
  BY <1>3, <1>4, <1>5 DEF WrittenPage, PageRow
<1>6. CASE counted[r] # None
  <2>1. [elements |-> Newer(counted[r].elements, seen[r].counters.elements, row.counters.elements),
         approved |-> Newer(counted[r].approved, seen[r].counters.approved, row.counters.approved)] \in Counters
    BY <1>1, <1>3, <1>6 DEF Newer, Counters, PageRow
  <2> QED BY <1>3, <1>4, <1>6, <2>1 DEF WrittenPage, PageRow
<1> QED BY <1>5, <1>6

LEMMA CommitKeeps ==
    ASSUME Inv, NEW r \in Requests, Commit(r)
    PROVE  Inv'
<1>1. TypeOK /\ Situated(r) /\ pc[r] = "commit" /\ seen[r] # None
  BY DEF Inv, TypeInv, Situated, Commit
<1>2. CASE WritesPage(r) /\ ~Present(r)
  BY <1>1, <1>2, EndStep DEF Commit, TypeOK, Answers
<1>3. CASE ~(WritesPage(r) /\ ~Present(r))
  <2>1. elements' = Seen(r) /\ elements' \in [Ids -> Element \cup {None}]
    BY <1>3, SeenType DEF Commit, Seen
  <2>2. seen[r].by = r => Present(r)
    BY DEF Present
  <2>3. page' \in PageRow \cup {None}
    BY <1>1, <1>3, <2>2, WrittenPageType DEF Commit, TypeOK
  <2>4. \A id \in Ids : elements'[id] = elements[id] \/ (elements'[id] = Seen(r)[id] /\ flushed[r][id] # None)
    BY <2>1 DEF Seen
  <2>5. CASE End(r, "ok")
    <3>1. pc'[r] = "done"
      BY <1>1, <2>5 DEF End, Goto, TypeOK
    <3> QED BY <1>1, <2>1, <2>3, <2>4, <2>5, <3>1, DoneStep DEF Commit, Stores
  <2>6. CASE Goto(r, "status") /\ Release(r) /\ UNCHANGED answer
    <3>1. /\ pc' = [pc EXCEPT ![r] = "status"]
          /\ flushed' = [flushed EXCEPT ![r] = Nothing] /\ holds' = [holds EXCEPT ![r] = {}]
          /\ UNCHANGED <<job, answer, session, history>>
      BY <2>6 DEF Commit, Goto, Release
    <3>2. Nothing \in [Ids -> Flushed \cup {None}] /\ "status" \in Labels
      BY DEF Nothing, Labels
    <3>3. TypeOK'
      BY <1>1, <2>1, <2>3, <3>1, <3>2 DEF TypeOK
    <3>4. Others(r) /\ pc'[r] = "status" /\ flushed'[r] = Nothing /\ holds'[r] = {}
      BY <1>1, <3>1 DEF Others, TypeOK
    <3>5. Situated(r)'
      BY <1>1, <3>1, <3>4 DEF Situated, Op
    <3> QED BY <1>1, <2>4, <3>1, <3>3, <3>4, <3>5, TransactionEnds DEF Stores
  <2> QED BY <1>3, <2>5, <2>6 DEF Commit
<1> QED BY <1>2, <1>3

LEMMA CrashKeeps ==
    ASSUME Inv, Crash
    PROVE  Inv'
<1>1. TypeOK
  BY DEF Inv, TypeInv
<1>2. /\ pc' = [r \in Requests |-> IF InFlight(r) THEN "done" ELSE pc[r]]
      /\ answer' = [r \in Requests |-> IF InFlight(r) THEN "lost" ELSE answer[r]]
      /\ flushed' = [r \in Requests |-> Nothing] /\ holds' = [r \in Requests |-> {}]
      /\ UNCHANGED <<job, session, database>>
  BY DEF Crash
<1>3. \A r \in Requests : pc'[r] \in {"idle", "done"} /\ (pc[r] \in {"status", "done"} => pc'[r] = "done")
  BY <1>1, <1>2 DEF InFlight
<1>4. alone' \in Requests \cup {None} /\ faults' \in 0..MaxFaults
  <2>1. faults \in Nat /\ faults + 1 <= MaxFaults /\ MaxFaults \in Nat /\ faults' = faults + 1
    BY <1>1, PageAssumption DEF Crash, Fault, TypeOK
  <2>2. faults' \in 0..MaxFaults
    BY <2>1
  <2>3. alone' \in Requests \cup {None}
    BY Zenon DEF Crash, Fault
  <2> QED BY <2>2, <2>3
<1>5. Nothing \in [Ids -> Flushed \cup {None}] /\ Nothing' = Nothing
  BY DEF Nothing
<1>6. TypeOK'
  <2>1. pc' \in [Requests -> Labels]
    BY <1>1, <1>2 DEF TypeOK, Labels
  <2>2. answer' \in [Requests -> Answers]
    BY <1>1, <1>2 DEF TypeOK, Answers
  <2> QED BY <1>1, <1>2, <1>4, <1>5, <2>1, <2>2 DEF TypeOK, Answers
<1>7. \A r \in Requests : Situated(r)' /\ Numbered(r)'
  BY <1>1, <1>2, <1>3 DEF Inv, TypeInv, Situated, Numbered, Op
<1>8. Elders'
  <2>1. \A id \in Ids : Old(id) => Old(id)'
    BY <1>3 DEF Old, Ids
  <2>2. ASSUME NEW q \in Requests, target[q] # None
        PROVE  Old(target[q])'
    <3>1. target[q] \in Ids /\ Old(target[q]) /\ target' = target
      BY <1>1, <1>2, <2>2 DEF Inv, Rows, Elders, TypeOK
    <3> QED BY <2>1, <3>1 DEF Old
  <2>3. \A id \in Stored : id \in Ids /\ Old(id)
    BY DEF Inv, Rows, Elders, Stored
  <2>4. elements' = elements /\ target' = target
    BY <1>2
  <2>5. (\A id \in Stored : Old(id))'
    BY <2>1, <2>3, <2>4 DEF Stored, Old
  <2> QED BY <2>2, <2>4, <2>5 DEF Elders
<1>9. LocksApart' /\ FlushedIsHeld'
  BY <1>2, <1>5 DEF LocksApart, FlushedIsHeld, Nothing
<1>10. AllWhole'
  BY <1>2, <1>5 DEF Inv, Rows, AllWhole, Stored, Whole, Row, Nothing
<1> QED BY <1>6, <1>7, <1>8, <1>9, <1>10 DEF Inv, TypeInv, Rows

LEMMA InvInit == Init => Inv
<1> SUFFICES ASSUME Init
             PROVE  Inv
  OBVIOUS
<1>1. ASSUME NEW id \in Ids, elements[id] # None
      PROVE  id[1] = None /\ \E l \in Locators : elements[id] = NewElement(id[2], l)
  <2>1. CASE elements = Nothing
    BY <1>1, <2>1 DEF Nothing
  <2>2. ASSUME NEW b \in Beforehand,
               elements = [i \in Ids |-> IF i[1] # None \/ b[i[2]] = None THEN None ELSE NewElement(i[2], b[i[2]])]
        PROVE  id[1] = None /\ \E l \in Locators : elements[id] = NewElement(id[2], l)
    <3>1. b \in [Codes -> Locators \cup {None}] /\ id[2] \in Codes
      BY PageAssumption DEF Ids
    <3>2. b[id[2]] # None /\ id[1] = None /\ elements[id] = NewElement(id[2], b[id[2]])
      BY <1>1, <2>2
    <3> QED BY <3>1, <3>2
  <2> QED BY <2>1, <2>2 DEF Init
<1>2. \A c \in Codes, l \in Locators : NewElement(c, l) \in Element /\ Whole(NewElement(c, l))
  <2> SUFFICES ASSUME NEW c \in Codes, NEW l \in Locators
               PROVE  NewElement(c, l) \in Element /\ Whole(NewElement(c, l))
    OBVIOUS
  <2>1. NewElement(c, l) \in Element
    BY DEF NewElement, Element, Versions
  <2>2. NewElement(c, l).versions = {[no |-> 1, locator |-> l]} /\ NewElement(c, l).version = 1
        /\ NewElement(c, l).locator = l
    BY DEF NewElement
  <2>3. {v.no : v \in NewElement(c, l).versions} = 1..1
    BY <2>2
  <2> QED BY <2>1, <2>2, <2>3 DEF Whole
<1>3. elements \in [Ids -> Element \cup {None}]
  <2>1. \A id \in Ids : id[2] \in Codes
    BY DEF Ids
  <2>2. elements = [id \in Ids |-> elements[id]]
    BY DEF Init, Nothing
  <2> QED BY <1>1, <1>2, <2>1, <2>2
<1>4. page \in PageRow \cup {None}
  <2>1. NewPage(None, FALSE) \in PageRow /\ Tally(elements) \in Counters
    BY TallyType DEF NewPage, PageRow, Counters
  <2> QED BY <2>1 DEF Init, PageRow
<1>5. TypeOK
  <2>1. Nothing \in [Ids -> Flushed \cup {None}]
    BY DEF Nothing
  <2> QED BY <1>3, <1>4, <2>1, PageAssumption DEF Init, TypeOK, Labels
<1>6. \A r \in Requests : Situated(r) /\ Numbered(r)
  BY DEF Init, Situated, Numbered
<1>7. Elders
  BY <1>1 DEF Init, Elders, Stored, Old
<1>8. LocksApart /\ FlushedIsHeld
  BY DEF Init, LocksApart, FlushedIsHeld, Nothing
<1>9. AllWhole
  <2>1. \A id \in Ids : id[2] \in Codes
    BY DEF Ids
  <2>2. \A r \in Requests, id \in Ids : flushed[r][id] = None
    BY DEF Init, Nothing
  <2> QED BY <1>1, <1>2, <2>1, <2>2 DEF AllWhole, Stored
<1> QED BY <1>5, <1>6, <1>7, <1>8, <1>9 DEF Inv, TypeInv, Rows

LEMMA InvStutter ==
    ASSUME Inv, UNCHANGED vars
    PROVE  Inv'
BY DEF Inv, TypeInv, TypeOK, Situated, Numbered, Op, Rows, Elders, Old, LocksApart, FlushedIsHeld,
       AllWhole, Stored, Whole, Row, Nothing, vars

LEMMA InvNext == Inv /\ [Next]_vars => Inv'
<1> SUFFICES ASSUME Inv, [Next]_vars
             PROVE  Inv'
  OBVIOUS
<1>1. CASE Crash
  BY <1>1, CrashKeeps
<1>2. ASSUME NEW r \in Requests, Begin(r)
      PROVE  Inv'
  BY <1>2, BeginKeeps
<1>3. ASSUME NEW r \in Requests, Step(r)
      PROVE  Inv'
  BY <1>3, CheckPageKeeps, InsertPageKeeps, LoadKeeps, LookUpKeeps, LastItemKeeps, AcquireKeeps,
     EndsKeep, ReadNumberKeeps, FlushKeeps, InsertKeeps, DeleteKeeps, ReloadKeeps, FlushPageKeeps,
     DropKeeps, CountElementsKeeps, CommitKeeps DEF Step
<1>4. CASE UNCHANGED vars
  BY <1>4, InvStutter
<1> QED BY <1>1, <1>2, <1>3, <1>4 DEF Next
-------------------------------------------------------------------------------
(* The rows of the page and of its elements, the sessions and the locks have   *)
(* their types; in particular the page row that a commit writes, whose         *)
(* counters may come from a session that is older than the row.                *)
THEOREM PageTypeCorrect == Spec => []TypeOK
<1>1. Inv => TypeOK
  BY DEF Inv, TypeInv
<1> QED BY <1>1, InvInit, InvNext, PTL DEF Spec

(* However many requests edit, import, rename and approve the elements of a    *)
(* page, wait for each other, fail and are lost: the versions of an element    *)
(* are 1, 2, 3 ... up to the number in its row, and no number is there twice.  *)
THEOREM HistoriesAreWhole == Spec => []HistoryIsWhole
<1>1. Inv => HistoryIsWhole
  BY DEF Inv, Rows, AllWhole, Whole, HistoryIsWhole
<1> QED BY <1>1, InvInit, InvNext, PTL DEF Spec

(* Each column of the locator of an element is in its version history,         *)
(* although the version that goes with a change is taken of what the session   *)
(* had loaded before it waited for the row.                                    *)
THEOREM LocatorsAreRecorded == Spec => []LocatorIsRecorded
<1>1. Inv => LocatorIsRecorded
  BY DEF Inv, Rows, AllWhole, Whole, LocatorIsRecorded
<1> QED BY <1>1, InvInit, InvNext, PTL DEF Spec
-------------------------------------------------------------------------------
(* A request that runs alone.                                                  *)
Right == page # None => page.counters = Tally(elements)
Recovered(r) == pc[r] = "done" /\ answer[r] = "ok" /\ counted[r] # None => Right

(* A session that has written nothing and counted nothing yet.                 *)
Fresh(r) ==
    /\ pc[r] \notin {"commit", "status", "done"} => counted[r] = None
    /\ pc[r] \in {"idle", "check", "load", "number"} \/ (pc[r] = "flush" /\ Op(r) = "version") =>
           flushed[r] = Nothing

(* What r has read is what there is, or it is about to create the page.        *)
Current(r) ==
    /\ pc[r] = "insertPage" => page = None
    /\ pc[r] \notin {"check", "load", "insertPage", "status"} =>
           seen[r] = page \/ (page = None /\ seen[r].by = r /\ Op(r) = "import")
    /\ pc[r] = "delete" /\ Op(r) = "purge" => chosen[r] \in Duplicates
    /\ pc[r] = "delete" => Op(r) \in {"delete", "purge", "drop"}
    /\ pc[r] = "reload" => Op(r) \in {"delete", "purge"}
    /\ pc[r] = "count" => Op(r) # "version"

Counting(r) ==
    /\ pc[r] = "commit" =>
           IF Op(r) = "version" THEN counted[r] = None ELSE counted[r] = Tally(Seen(r))
    /\ pc[r] = "status" => Right

Alone(r) == Fresh(r) /\ Current(r) /\ Counting(r)
Rests(r) == Fresh(r) /\ holds[r] = {} /\ flushed[r] = Nothing
Settled(r) == IF InFlight(r) THEN Alone(r) ELSE Recovered(r)

(* Whoever is not in flight holds nothing.  While a request runs alone nobody  *)
(* else is in flight, and since it is over nobody has been.                    *)
OneAtATime ==
    /\ \A r \in Requests : ~InFlight(r) => Rests(r)
    /\ \A r \in Requests : alone = r =>
         /\ pc[r] # "idle" /\ Settled(r)
         /\ \A q \in Requests \ {r} : ~InFlight(q)

Untouched(r) ==
    \A q \in Requests \ {r} :
        /\ pc'[q] = pc[q] /\ answer'[q] = answer[q] /\ counted'[q] = counted[q]
        /\ flushed'[q] = flushed[q] /\ holds'[q] = holds[q]

LEMMA StepUntouched ==
    ASSUME TypeOK, NEW r \in Requests, Step(r) \/ Begin(r)
    PROVE  Untouched(r) /\ UNCHANGED job
<1>1. Begin(r) => Untouched(r) /\ UNCHANGED job
  BY DEF TypeOK, Untouched, Begin, Goto
<1>2. CheckPage(r) => Untouched(r) /\ UNCHANGED job
  BY DEF TypeOK, Untouched, CheckPage, End, Goto, Release
<1>3. InsertPage(r) => Untouched(r) /\ UNCHANGED job
  BY DEF TypeOK, Untouched, InsertPage, End, Goto, Release
<1>4. Load(r) => Untouched(r) /\ UNCHANGED job
  BY DEF TypeOK, Untouched, Load, LoadElement, Choose, End, Goto, Release
<1>5. LookUp(r) => Untouched(r) /\ UNCHANGED job
  BY DEF TypeOK, Untouched, LookUp, Goto
<1>6. LastItem(r) => Untouched(r) /\ UNCHANGED job
  BY DEF TypeOK, Untouched, LastItem, Goto
<1>7. Acquire(r) => Untouched(r) /\ UNCHANGED job
  BY DEF TypeOK, Untouched, Acquire
<1>8. BreakDeadlock(r) => Untouched(r) /\ UNCHANGED job
  BY DEF TypeOK, Untouched, BreakDeadlock, End, Goto, Release
<1>9. ReadNumber(r) => Untouched(r) /\ UNCHANGED job
  BY DEF TypeOK, Untouched, ReadNumber, Goto
<1>10. Flush(r) => Untouched(r) /\ UNCHANGED job
  BY DEF TypeOK, Untouched, Flush, FlushElement, End, Goto, Release
<1>11. Insert(r) => Untouched(r) /\ UNCHANGED job
  BY DEF TypeOK, Untouched, Insert, FlushElement, End, Goto, Release
<1>12. Delete(r) => Untouched(r) /\ UNCHANGED job
  BY DEF TypeOK, Untouched, Delete, Goto, Release
<1>13. Reload(r) => Untouched(r) /\ UNCHANGED job
  BY DEF TypeOK, Untouched, Reload, End, Goto, Release
<1>14. FlushPage(r) => Untouched(r) /\ UNCHANGED job
  BY DEF TypeOK, Untouched, FlushPage, End, Goto, Release
<1>15. Drop(r) => Untouched(r) /\ UNCHANGED job
  BY DEF TypeOK, Untouched, Drop, End, Goto, Release
<1>16. CountElements(r) => Untouched(r) /\ UNCHANGED job
  BY DEF TypeOK, Untouched, CountElements, Goto
<1>17. Commit(r) => Untouched(r) /\ UNCHANGED job
  BY DEF TypeOK, Untouched, Commit, End, Goto, Release
<1>18. WriteStatus(r) => Untouched(r) /\ UNCHANGED job
  BY DEF TypeOK, Untouched, WriteStatus, End, Goto, Release
<1>19. Fails(r) => Untouched(r) /\ UNCHANGED job
  BY DEF TypeOK, Untouched, Fails, End, Goto, Release, Fault
<1> QED BY <1>1, <1>2, <1>3, <1>4, <1>5, <1>6, <1>7, <1>8, <1>9, <1>10, <1>11, <1>12, <1>13, <1>14,
           <1>15, <1>16, <1>17, <1>18, <1>19 DEF Step

(* Only a request in flight takes a step, and it lets go of all when it ends.  *)
LEMMA StepInFlight ==
    ASSUME NEW r \in Requests, Step(r)
    PROVE  InFlight(r)
<1>1. CASE Acquire(r)
  BY <1>1 DEF Acquire, Needs, InFlight
<1>2. CASE BreakDeadlock(r)
  <2>1. PICK q \in Requests : Blocks(q, r)
    BY <1>2 DEF BreakDeadlock, Stuck
  <2> QED BY <2>1 DEF Blocks, Needs, InFlight
<1>3. CASE ~(Acquire(r) \/ BreakDeadlock(r))
  BY <1>3 DEF Step, InFlight, CheckPage, InsertPage, Load, LookUp, LastItem, ReadNumber, Flush,
              Insert, Delete, Reload, FlushPage, Drop, CountElements, Commit, WriteStatus, Fails
<1> QED BY <1>1, <1>2, <1>3

LEMMA EndRests ==
    ASSUME TypeOK, NEW r \in Requests, Goto(r, "done"), Release(r)
    PROVE  Rests(r)' /\ ~InFlight(r)' /\ pc'[r] = "done"
BY DEF TypeOK, Goto, Release, Rests, Fresh, InFlight, Nothing

LEMMA StepEnds ==
    ASSUME TypeOK, NEW r \in Requests, Step(r), ~InFlight(r)'
    PROVE  Rests(r)' /\ pc'[r] = "done"
<1>1. ASSUME NEW value, End(r, value)
      PROVE  Rests(r)' /\ pc'[r] = "done"
  BY <1>1, EndRests DEF End
<1>2. ASSUME NEW label, label \notin {"idle", "done"}, Goto(r, label)
      PROVE  FALSE
  BY <1>2 DEF Goto, TypeOK, InFlight
<1>3. CASE Acquire(r) \/ BreakDeadlock(r)
  <2>1. InFlight(r)
    BY StepInFlight
  <2> QED BY <1>1, <1>3, <2>1 DEF Acquire, BreakDeadlock, InFlight
<1>4. CASE CheckPage(r) \/ InsertPage(r) \/ LastItem(r) \/ ReadNumber(r) \/ CountElements(r) \/ WriteStatus(r)
  BY <1>1, <1>2, <1>4 DEF CheckPage, InsertPage, LastItem, ReadNumber, CountElements, WriteStatus
<1>5. CASE Load(r)
  BY <1>1, <1>2, <1>5 DEF Load, LoadElement, Choose
<1>6. CASE LookUp(r)
  BY <1>2, <1>6 DEF LookUp, InFlight
<1>7. CASE Flush(r) \/ Insert(r)
  <2>1. ASSUME NEW id, NEW f, FlushElement(r, id, f)
        PROVE  FALSE
    <3>1. PICK label \in {"item", "commit", "count"} : Goto(r, label)
      BY <2>1 DEF FlushElement
    <3> QED BY <1>2, <3>1
  <2> QED BY <1>1, <1>7, <2>1 DEF Flush, Insert
<1>8. CASE Delete(r) \/ Reload(r) \/ FlushPage(r) \/ Drop(r) \/ Commit(r) \/ Fails(r)
  BY <1>1, <1>2, <1>8 DEF Delete, Reload, FlushPage, Drop, Commit, Fails
<1> QED BY <1>3, <1>4, <1>5, <1>6, <1>7, <1>8 DEF Step

LEMMA WhenAlone ==
    ASSUME Inv, OneAtATime, NEW r \in Requests, alone = r, InFlight(r)
    PROVE  TypeOK /\ Situated(r) /\ Alone(r)
BY DEF Inv, TypeInv, OneAtATime, Settled

LEMMA EndsAlone ==
    ASSUME TypeOK, NEW r \in Requests, NEW value, value # "ok", End(r, value)
    PROVE  Settled(r)'
BY EndRests DEF End, Settled, Recovered, TypeOK

LEMMA GoesOnAlone ==
    ASSUME NEW r \in Requests, pc'[r] \notin {"idle", "status", "done"}, Fresh(r)', Current(r)',
           pc'[r] = "commit" =>
               IF Op(r)' = "version" THEN counted'[r] = None ELSE counted'[r] = Tally(Seen(r)')
    PROVE  Settled(r)'
<1>1. Counting(r)'
  BY DEF Counting
<1> QED BY <1>1 DEF Settled, Alone, InFlight

LEMMA BeginAlone ==
    ASSUME Inv, OneAtATime, NEW r \in Requests, Begin(r)
    PROVE  Settled(r)'
<1>1. TypeOK /\ Rests(r)
  BY DEF Inv, TypeInv, OneAtATime, Begin, InFlight
<1>2. /\ pc[r] = "idle" /\ pc'[r] \in {"check", "load"}
      /\ UNCHANGED <<job, answer, session, writes, database, faults>>
  BY <1>1 DEF Begin, Goto, TypeOK
<1>3. Fresh(r)' /\ Current(r)'
  BY <1>1, <1>2 DEF Rests, Fresh, Current, Nothing, Op
<1> QED BY <1>2, <1>3, GoesOnAlone

LEMMA CheckPageAlone ==
    ASSUME Inv, OneAtATime, NEW r \in Requests, CheckPage(r), alone = r
    PROVE  Settled(r)'
<1>1. InFlight(r) /\ pc[r] = "check"
  BY DEF CheckPage, InFlight
<1>2. TypeOK /\ Alone(r)
  BY <1>1, WhenAlone
<1>3. CASE End(r, "conflict")
  BY <1>2, <1>3, EndsAlone
<1>4. ASSUME NEW label, Goto(r, label), UNCHANGED <<answer, writes>>,
             (label = "insertPage" /\ page = None) \/ (label = "item" /\ page # None)
      PROVE  Settled(r)'
  <2>1. pc'[r] = label /\ seen'[r] = page
    BY <1>2, <1>4 DEF CheckPage, Goto, TypeOK
  <2>2. Fresh(r)' /\ Current(r)'
    BY <1>1, <1>2, <1>4, <2>1 DEF CheckPage, Alone, Fresh, Current, Op
  <2> QED BY <1>1, <1>2, <1>4, <2>1, <2>2, GoesOnAlone DEF CheckPage
<1> QED BY <1>3, <1>4 DEF CheckPage

LEMMA InsertPageAlone ==
    ASSUME Inv, OneAtATime, NEW r \in Requests, InsertPage(r), alone = r
    PROVE  Settled(r)'
<1>1. InFlight(r) /\ pc[r] = "insertPage"
  BY DEF InsertPage, InFlight
<1>2. TypeOK /\ Alone(r) /\ page = None
  BY <1>1, WhenAlone DEF Alone, Current
<1>3. CASE Op(r) = "import"
  <2>1. pc'[r] = "item" /\ seen'[r].by = r
    BY <1>2, <1>3 DEF InsertPage, Goto, TypeOK, NewPage
  <2>2. Fresh(r)' /\ Current(r)'
    BY <1>1, <1>2, <1>3, <2>1 DEF InsertPage, Alone, Fresh, Current, Op
  <2> QED BY <1>1, <1>2, <1>3, <2>1, <2>2, GoesOnAlone DEF InsertPage
<1>4. CASE Op(r) # "import"
  <2>1. counted'[r] = None /\ pc'[r] = "done"
    BY <1>1, <1>2, <1>4 DEF InsertPage, Alone, Fresh, End, Goto, TypeOK
  <2> QED BY <2>1 DEF Settled, Recovered, InFlight
<1> QED BY <1>3, <1>4

LEMMA LoadAlone ==
    ASSUME Inv, OneAtATime, NEW r \in Requests, Load(r), alone = r
    PROVE  Settled(r)'
<1>1. InFlight(r) /\ pc[r] = "load" /\ UNCHANGED <<counted, database, job>>
  BY DEF Load, InFlight
<1>2. TypeOK /\ Alone(r) /\ seen' = [seen EXCEPT ![r] = page]
  BY <1>1, WhenAlone DEF Load
<1>3. ASSUME NEW value, value # "ok", End(r, value)
      PROVE  Settled(r)'
  BY <1>2, <1>3, EndsAlone
<1>4. ASSUME NEW label \in {"number", "flush", "insert", "delete", "flushPage"}, Goto(r, label),
             UNCHANGED <<answer, writes>>,
             label = "delete" => Op(r) \in {"delete", "purge", "drop"},
             label = "delete" /\ Op(r) = "purge" => chosen'[r] \in Duplicates
      PROVE  Settled(r)'
  <2>1. pc'[r] = label /\ seen'[r] = page
    BY <1>2, <1>4 DEF Goto, TypeOK
  <2>2. Fresh(r)'
    BY <1>1, <1>2, <1>4, <2>1 DEF Alone, Fresh, Nothing
  <2>3. Current(r)'
    BY <1>1, <1>2, <1>4, <2>1 DEF Current, Op, Duplicates, Stored
  <2> QED BY <1>1, <1>4, <2>1, <2>2, <2>3, GoesOnAlone
<1>5. ASSUME NEW id, LoadElement(r, id)
      PROVE  Settled(r)'
  BY <1>3, <1>4, <1>5 DEF LoadElement
<1>6. ASSUME NEW S, Choose(r, S), Op(r) = "purge" => S \in Duplicates,
             Op(r) \in {"delete", "purge", "drop", "dropEmpty"}
      PROVE  Settled(r)'
  <2>1. chosen'[r] = S
    BY <1>2, <1>6 DEF Choose, TypeOK
  <2> QED BY <1>3, <1>4, <1>6, <2>1 DEF Choose
<1>7. CASE Op(r) \in Edits \cup {"version", "create"} \/ page = None
  BY <1>3, <1>4, <1>5, <1>7 DEF Load, Edits
<1>8. CASE page # None /\ Op(r) \notin Edits \cup {"version", "create"}
  <2>1. CASE Op(r) = "delete"
    BY <1>6, <1>8, <2>1 DEF Load
  <2>2. CASE Op(r) = "purge"
    BY <1>6, <1>8, <2>2 DEF Load
  <2>3. CASE Op(r) \notin {"delete", "purge"}
    BY <1>6, <1>8, <2>3 DEF Load
  <2> QED BY <2>1, <2>2, <2>3
<1> QED BY <1>7, <1>8

LEMMA LookUpAlone ==
    ASSUME Inv, OneAtATime, NEW r \in Requests, LookUp(r), alone = r
    PROVE  Settled(r)'
<1>1. InFlight(r) /\ pc[r] = "item" /\ UNCHANGED <<answer, seen, chosen, counted, writes, database, job>>
  BY DEF LookUp, InFlight
<1>2. TypeOK /\ Alone(r) /\ Op(r) = "import"
  BY <1>1, WhenAlone DEF Situated
<1>3. pc'[r] \in {"item", "insert", "flush"}
  BY <1>1, <1>2 DEF LookUp, Goto, TypeOK
<1>4. Fresh(r)' /\ Current(r)'
  BY <1>1, <1>2, <1>3 DEF Alone, Fresh, Current, Op
<1> QED BY <1>1, <1>2, <1>3, <1>4, GoesOnAlone

LEMMA LastItemAlone ==
    ASSUME Inv, OneAtATime, NEW r \in Requests, LastItem(r), alone = r
    PROVE  Settled(r)'
<1>1. InFlight(r) /\ pc[r] = "item" /\ UNCHANGED <<job, answer, session, writes, database, history>>
  BY DEF LastItem, InFlight
<1>2. TypeOK /\ Alone(r) /\ Op(r) = "import"
  BY <1>1, WhenAlone DEF Situated
<1>3. pc'[r] = "count"
  BY <1>2 DEF LastItem, Goto, TypeOK
<1>4. Fresh(r)' /\ Current(r)'
  BY <1>1, <1>2, <1>3 DEF Alone, Fresh, Current, Op
<1> QED BY <1>1, <1>2, <1>3, <1>4, GoesOnAlone

LEMMA AcquireAlone ==
    ASSUME Inv, OneAtATime, NEW r \in Requests, Acquire(r), alone = r
    PROVE  Settled(r)'
<1>1. Needs(r) # {} /\ UNCHANGED <<job, pc, answer, session, flushed, database, history>>
  BY DEF Acquire
<1>2. pc[r] \notin {"idle", "status", "done"}
  BY <1>1 DEF Needs
<1>3. InFlight(r)
  BY <1>2 DEF InFlight
<1>4. Alone(r)
  BY <1>1, <1>3, WhenAlone
<1>5. Fresh(r)' /\ Current(r)'
  BY <1>1, <1>4 DEF Alone, Fresh, Current, Op, Nothing, Duplicates, Stored
<1>6. Seen(r)' = Seen(r)
  BY <1>1 DEF Seen
<1>7. pc'[r] = "commit" =>
        IF Op(r)' = "version" THEN counted'[r] = None ELSE counted'[r] = Tally(Seen(r)')
  BY <1>1, <1>4, <1>6 DEF Alone, Counting, Op
<1> QED BY <1>1, <1>2, <1>3, <1>5, <1>6, <1>7, GoesOnAlone

(* Nobody waits for a request that runs alone.                                 *)
LEMMA NoDeadlockAlone ==
    ASSUME Inv, OneAtATime, NEW r \in Requests, BreakDeadlock(r)
    PROVE  alone # r
<1> SUFFICES ASSUME alone = r
             PROVE  FALSE
  OBVIOUS
<1>1. PICK q \in Requests : Blocks(q, r)
  BY DEF BreakDeadlock, Stuck
<1>2. q # r /\ InFlight(r)
  BY <1>1 DEF Blocks, Needs, InFlight
<1>3. ~InFlight(q) /\ Rests(q)
  BY <1>2 DEF OneAtATime
<1>4. ~Inserted(q)
  <2>1. \A c \in Codes : <<q, c>> \in Ids
    BY DEF Ids
  <2> QED BY <1>3, <2>1 DEF Rests, Inserted, Nothing
<1> QED BY <1>1, <1>3, <1>4 DEF Blocks, Rests, InFlight

LEMMA ReadNumberAlone ==
    ASSUME Inv, OneAtATime, NEW r \in Requests, ReadNumber(r), alone = r
    PROVE  Settled(r)'
<1>1. InFlight(r) /\ pc[r] = "number" /\ UNCHANGED <<answer, seen, chosen, counted, writes, database, job>>
  BY DEF ReadNumber, InFlight
<1>2. TypeOK /\ Alone(r)
  BY <1>1, WhenAlone
<1>3. pc'[r] = "flush"
  BY <1>2 DEF ReadNumber, Goto, TypeOK
<1>4. Fresh(r)' /\ Current(r)'
  BY <1>1, <1>2, <1>3 DEF Alone, Fresh, Current, Op, Nothing
<1> QED BY <1>1, <1>2, <1>3, <1>4, GoesOnAlone

LEMMA InsertAlone ==
    ASSUME Inv, OneAtATime, NEW r \in Requests, Insert(r), alone = r
    PROVE  Settled(r)'
<1>1. InFlight(r) /\ pc[r] = "insert" /\ UNCHANGED <<seen, chosen, counted, database, job>>
  BY DEF Insert, InFlight
<1>2. TypeOK /\ Alone(r) /\ Op(r) \in {"create", "import"}
  BY <1>1, WhenAlone DEF Situated
<1>3. CASE End(r, "error")
  BY <1>2, <1>3, EndsAlone
<1>4. ASSUME NEW f, FlushElement(r, <<r, Item(r).code>>, f)
      PROVE  Settled(r)'
  <2>1. pc'[r] \in {"item", "count"} /\ UNCHANGED answer
    BY <1>2, <1>4 DEF FlushElement, Goto, TypeOK
  <2>2. Fresh(r)' /\ Current(r)'
    BY <1>1, <1>2, <2>1 DEF Alone, Fresh, Current, Op
  <2> QED BY <1>1, <1>2, <2>1, <2>2, GoesOnAlone
<1> QED BY <1>3, <1>4 DEF Insert

LEMMA ReloadAlone ==
    ASSUME Inv, OneAtATime, NEW r \in Requests, Reload(r), alone = r
    PROVE  Settled(r)'
<1>1. InFlight(r) /\ pc[r] = "reload" /\ UNCHANGED <<chosen, counted, database, job>>
  BY DEF Reload, InFlight
<1>2. TypeOK /\ Alone(r) /\ seen[r] # None
  BY <1>1, WhenAlone DEF Situated
<1>3. CASE StillThere(r)
  <2>1. pc'[r] = "count" /\ seen'[r] = page /\ UNCHANGED <<answer, writes>>
    BY <1>2, <1>3 DEF Reload, Goto, TypeOK
  <2>2. Fresh(r)' /\ Current(r)'
    BY <1>1, <1>2, <2>1 DEF Alone, Fresh, Current, Op
  <2> QED BY <1>1, <1>2, <2>1, <2>2, GoesOnAlone
<1>4. CASE ~StillThere(r)
  BY <1>2, <1>4, EndsAlone DEF Reload
<1> QED BY <1>3, <1>4

LEMMA FlushPageAlone ==
    ASSUME Inv, OneAtATime, NEW r \in Requests, FlushPage(r), alone = r
    PROVE  Settled(r)'
<1>1. InFlight(r) /\ pc[r] = "flushPage" /\ UNCHANGED <<job, session, database>>
  BY DEF FlushPage, InFlight
<1>2. TypeOK /\ Alone(r)
  BY <1>1, WhenAlone
<1>3. CASE End(r, "error")
  BY <1>2, <1>3, EndsAlone
<1>4. CASE Goto(r, "drop") /\ UNCHANGED <<answer, writes>>
  <2>1. pc'[r] = "drop"
    BY <1>2, <1>4 DEF Goto, TypeOK
  <2>2. Fresh(r)' /\ Current(r)'
    BY <1>1, <1>2, <1>4, <2>1 DEF Alone, Fresh, Current, Op
  <2> QED BY <1>1, <1>2, <1>4, <2>1, <2>2, GoesOnAlone
<1> QED BY <1>3, <1>4 DEF FlushPage

LEMMA FlushAlone ==
    ASSUME Inv, OneAtATime, NEW r \in Requests, Flush(r), alone = r
    PROVE  Settled(r)'
<1>1. InFlight(r) /\ pc[r] = "flush" /\ UNCHANGED <<seen, chosen, counted, database, job>>
  BY DEF Flush, InFlight
<1>2. TypeOK /\ Alone(r)
  BY <1>1, WhenAlone
<1>3. CASE End(r, "error")
  BY <1>2, <1>3, EndsAlone
<1>4. ASSUME NEW n, FlushElement(r, target[r], Update(r, n)), elements[target[r]] # None
      PROVE  Settled(r)'
  <2>1. /\ pc'[r] = CASE Op(r) = "import" -> "item" [] Op(r) = "version" -> "commit" [] OTHER -> "count"
        /\ flushed' = [flushed EXCEPT ![r][target[r]] = Update(r, n)] /\ UNCHANGED answer
    BY <1>2, <1>4 DEF FlushElement, Goto, TypeOK
  <2>2. Op(r)' = Op(r) /\ pc'[r] \in {"item", "commit", "count"}
    BY <1>1, <2>1 DEF Op
  <2>3. Fresh(r)' /\ Current(r)'
    BY <1>1, <1>2, <2>1, <2>2 DEF Alone, Fresh, Current
  <2>4. CASE Op(r) = "version"
    <3>1. counted[r] = None
      BY <1>1, <1>2 DEF Alone, Fresh
    <3> QED BY <1>1, <2>1, <2>2, <2>3, <2>4, <3>1, GoesOnAlone
  <2>5. CASE Op(r) # "version"
    <3>1. pc'[r] # "commit"
      BY <2>1, <2>5
    <3> QED BY <1>1, <1>2, <2>1, <2>2, <2>3, <3>1, GoesOnAlone
  <2> QED BY <2>4, <2>5
<1> QED BY <1>3, <1>4 DEF Flush

LEMMA DeleteAlone ==
    ASSUME Inv, OneAtATime, NEW r \in Requests, Delete(r), alone = r
    PROVE  Settled(r)'
<1>1. InFlight(r) /\ pc[r] = "delete" /\ UNCHANGED <<seen, chosen, counted, page, job, answer>>
  BY DEF Delete, InFlight
<1>2. TypeOK /\ Alone(r)
  BY <1>1, WhenAlone
<1>3. CASE Op(r) = "drop"
  <2>1. pc'[r] = "flushPage" /\ UNCHANGED <<writes, elements>>
    BY <1>2, <1>3 DEF Delete, Goto, TypeOK
  <2>2. Fresh(r)' /\ Current(r)'
    BY <1>1, <1>2, <2>1 DEF Alone, Fresh, Current, Op
  <2> QED BY <1>1, <1>2, <1>3, <2>1, <2>2, GoesOnAlone
<1>4. CASE Op(r) # "drop"
  <2>1. /\ pc'[r] = "reload"
        /\ elements' = [id \in Ids |-> IF id \in chosen[r] THEN None ELSE elements[id]]
    BY <1>2, <1>4 DEF Delete, Goto, TypeOK
  <2>2. Op(r)' = Op(r) /\ Op(r) \in {"delete", "purge"}
    BY <1>1, <1>2, <1>4 DEF Alone, Current, Op
  <2>3. Alone(r)'
    BY <1>1, <1>2, <2>1, <2>2 DEF Alone, Fresh, Current, Counting
  <2> QED BY <2>1, <2>3 DEF Settled, InFlight
<1> QED BY <1>3, <1>4

LEMMA DropAlone ==
    ASSUME Inv, OneAtATime, NEW r \in Requests, Drop(r), alone = r
    PROVE  Settled(r)'
<1>1. InFlight(r) /\ pc[r] = "drop"
  BY DEF Drop, InFlight
<1>2. TypeOK /\ Alone(r) /\ seen[r] # None
  BY <1>1, WhenAlone DEF Situated
<1>3. Present(r)
  BY <1>1, <1>2 DEF Alone, Current, Present, StillThere
<1>4. pc'[r] = "done" /\ page' = None
  BY <1>2, <1>3 DEF Drop, End, Goto, TypeOK
<1> QED BY <1>4 DEF Settled, InFlight, Recovered, Right

LEMMA CountElementsAlone ==
    ASSUME Inv, OneAtATime, NEW r \in Requests, CountElements(r), alone = r
    PROVE  Settled(r)'
<1>1. /\ InFlight(r) /\ pc[r] = "count"
      /\ UNCHANGED <<job, answer, at, seen, loaded, target, chosen, no, writes, database, history>>
  BY DEF CountElements, InFlight
<1>2. TypeOK /\ Alone(r) /\ seen[r] # None
  BY <1>1, WhenAlone DEF Situated
<1>3. Present(r)
  BY <1>1, <1>2 DEF Alone, Current, Present, StillThere
<1>4. pc'[r] = "commit" /\ counted'[r] = Tally(Seen(r))
  BY <1>2, <1>3 DEF CountElements, Count, Goto, TypeOK
<1>5. Seen(r)' = Seen(r) /\ Op(r)' = Op(r) /\ Op(r) # "version"
  BY <1>1, <1>2 DEF Seen, Op, Alone, Current
<1>6. Fresh(r)' /\ Current(r)'
  BY <1>1, <1>2, <1>4, <1>5 DEF Alone, Fresh, Current
<1> QED BY <1>1, <1>4, <1>5, <1>6, GoesOnAlone

LEMMA CommitAlone ==
    ASSUME Inv, OneAtATime, NEW r \in Requests, Commit(r), alone = r
    PROVE  Settled(r)'
<1>1. InFlight(r) /\ pc[r] = "commit" /\ UNCHANGED <<job, session>>
  BY DEF Commit, InFlight
<1>2. TypeOK /\ Alone(r) /\ seen[r] \in PageRow /\ seen[r] # None
  BY <1>1, WhenAlone DEF Situated, TypeOK
<1>3. Present(r) /\ (seen[r] = page \/ (page = None /\ seen[r].by = r /\ Op(r) = "import"))
  BY <1>1, <1>2 DEF Alone, Current, Present, StillThere
<1>4. /\ elements' = Seen(r)
      /\ page' = IF WritesPage(r) \/ seen[r].by = r THEN WrittenPage(r) ELSE page
  BY <1>3 DEF Commit
<1>5. page' # None
  <2>1. WrittenPage(r) # None
    BY <1>2, <1>3, WrittenPageType, PageAssumption
  <2> QED BY <1>2, <1>3, <1>4, <2>1
<1>6. CASE Op(r) # "version"
  <2>1. counted[r] = Tally(Seen(r)) /\ counted[r] \in Counters /\ counted[r] # None
    BY <1>1, <1>2, <1>6, TallyType, PageAssumption DEF Alone, Counting
  <2>2. WrittenPage(r).counters = counted[r]
    BY <1>2, <1>3, <2>1 DEF WrittenPage, Newer, Counters, PageRow
  <2>3. page'.counters = counted[r]
    BY <1>3, <1>4, <2>1, <2>2 DEF WritesPage
  <2>4. Right'
    BY <1>4, <2>1, <2>3 DEF Right
  <2>5. pc'[r] = "done" \/ (pc'[r] = "status" /\ flushed'[r] = Nothing)
    BY <1>2, <1>3 DEF Commit, End, Goto, Release, TypeOK
  <2>6. pc'[r] = "status" => Alone(r)'
    BY <2>4, <2>5 DEF Alone, Fresh, Current, Counting, Nothing
  <2> QED BY <2>4, <2>5, <2>6 DEF Settled, InFlight, Recovered
<1>7. CASE Op(r) = "version"
  <2>1. counted'[r] = None
    BY <1>1, <1>2, <1>7 DEF Alone, Counting
  <2>2. pc'[r] = "done"
    BY <1>2, <1>3, <1>7 DEF Commit, End, Goto, TypeOK
  <2> QED BY <2>1, <2>2 DEF Settled, InFlight, Recovered
<1> QED BY <1>6, <1>7

LEMMA WriteStatusAlone ==
    ASSUME Inv, OneAtATime, NEW r \in Requests, WriteStatus(r), alone = r
    PROVE  Settled(r)'
<1>1. InFlight(r) /\ pc[r] = "status" /\ UNCHANGED database
  BY DEF WriteStatus, InFlight
<1>2. TypeOK /\ Right
  BY <1>1, WhenAlone DEF Alone, Counting
<1>3. pc'[r] = "done"
  BY <1>2 DEF WriteStatus, End, Goto, TypeOK
<1>4. Right'
  BY <1>1, <1>2 DEF Right
<1> QED BY <1>3, <1>4 DEF Settled, InFlight, Recovered

LEMMA OneAtATimeInit == Init => OneAtATime
<1> SUFFICES ASSUME Init
             PROVE  OneAtATime
  OBVIOUS
<1>1. \A r \in Requests : Rests(r)
  BY DEF Init, Rests, Fresh, Nothing
<1>2. \A r \in Requests : alone # r
  BY PageAssumption DEF Init
<1> QED BY <1>1, <1>2 DEF OneAtATime

LEMMA OneAtATimeNext == Inv /\ OneAtATime /\ [Next]_vars => OneAtATime'
<1> SUFFICES ASSUME Inv, OneAtATime, [Next]_vars
             PROVE  OneAtATime'
  OBVIOUS
<1>0. TypeOK
  BY DEF Inv, TypeInv
<1>1. CASE Crash
  <2>1. \A r \in Requests : flushed'[r] = Nothing /\ holds'[r] = {} /\ pc'[r] \in {"idle", "done"}
    BY <1>0, <1>1 DEF Crash, InFlight
  <2>2. \A r \in Requests : pc'[r] = "idle" => pc[r] = "idle" /\ counted'[r] = counted[r]
    BY <1>0, <1>1 DEF Crash
  <2>3. \A r \in Requests : Rests(r)'
    BY <2>1, <2>2 DEF OneAtATime, Rests, Fresh, InFlight, Nothing
  <2>4. \A r \in Requests : alone' # r
    BY <1>1, PageAssumption DEF Crash, Fault
  <2> QED BY <2>3, <2>4 DEF OneAtATime
<1>2. ASSUME NEW r \in Requests, Begin(r)
      PROVE  OneAtATime'
  <2>1. Untouched(r) /\ UNCHANGED job
    BY <1>0, <1>2, StepUntouched
  <2>2. pc'[r] \in {"check", "load"} /\ alone' = IF Quiet THEN r ELSE None
    BY <1>0, <1>2 DEF Begin, Goto, TypeOK
  <2>3. \A q \in Requests \ {r} : (InFlight(q)' <=> InFlight(q)) /\ (Rests(q)' <=> Rests(q))
    BY <2>1 DEF Untouched, InFlight, Rests, Fresh, Op, Nothing
  <2>4. \A q \in Requests : ~InFlight(q)' => Rests(q)'
    BY <2>2, <2>3 DEF OneAtATime, InFlight
  <2>5. ASSUME NEW q \in Requests, alone' = q
        PROVE  pc'[q] # "idle" /\ Settled(q)' /\ \A x \in Requests \ {q} : ~InFlight(x)'
    <3>1. q = r /\ Quiet
      BY <2>2, <2>5, PageAssumption
    <3>2. Settled(r)'
      BY <1>2, BeginAlone
    <3> QED BY <2>2, <2>3, <3>1, <3>2 DEF Quiet
  <2> QED BY <2>4, <2>5 DEF OneAtATime
<1>3. ASSUME NEW r \in Requests, Step(r)
      PROVE  OneAtATime'
  <2>1. Untouched(r) /\ UNCHANGED job /\ InFlight(r)
    BY <1>0, <1>3, StepUntouched, StepInFlight
  <2>2. \A q \in Requests \ {r} : (InFlight(q)' <=> InFlight(q)) /\ (Rests(q)' <=> Rests(q))
    BY <2>1 DEF Untouched, InFlight, Rests, Fresh, Op, Nothing
  <2>3. \A q \in Requests : ~InFlight(q)' => Rests(q)'
    BY <1>0, <1>3, <2>2, StepEnds DEF OneAtATime
  <2>4. alone' = alone \/ (Fails(r) /\ alone' = None)
    BY <1>3 DEF Step, CheckPage, InsertPage, Load, LookUp, LastItem, Acquire, BreakDeadlock, ReadNumber,
                Flush, Insert, Delete, Reload, FlushPage, Drop, CountElements, Commit, WriteStatus,
                Fails, Fault
  <2>5. ASSUME NEW q \in Requests, alone' = q
        PROVE  pc'[q] # "idle" /\ Settled(q)' /\ \A x \in Requests \ {q} : ~InFlight(x)'
    <3>1. alone = q /\ ~Fails(r)
      <4>1. alone' # None
        BY <2>5, PageAssumption
      <4>2. Fails(r) => alone' = None
        BY DEF Fails, Fault
      <4> QED BY <2>4, <2>5, <4>1, <4>2
    <3>2. q = r
      BY <2>1, <3>1 DEF OneAtATime
    <3>3. ~BreakDeadlock(r)
      BY <3>1, <3>2, NoDeadlockAlone
    <3>4. Settled(r)'
      BY <1>3, <3>1, <3>2, <3>3, CheckPageAlone, InsertPageAlone, LoadAlone, LookUpAlone, LastItemAlone,
         AcquireAlone, ReadNumberAlone, FlushAlone, InsertAlone, DeleteAlone, ReloadAlone, FlushPageAlone,
         DropAlone, CountElementsAlone, CommitAlone, WriteStatusAlone DEF Step
    <3>5. pc'[r] # "idle"
      <4>1. CASE InFlight(r)'
        BY <4>1 DEF InFlight
      <4>2. CASE ~InFlight(r)'
        BY <1>0, <1>3, <4>2, StepEnds
      <4> QED BY <4>1, <4>2
    <3> QED BY <2>2, <3>1, <3>2, <3>4, <3>5 DEF OneAtATime
  <2> QED BY <2>3, <2>5 DEF OneAtATime
<1>4. CASE UNCHANGED vars
  <2>1. UNCHANGED <<job, pc, answer, seen, chosen, counted, flushed, holds, page, elements, alone>>
    BY <1>4 DEF vars, session, writes, database, history
  <2>2. Duplicates' = Duplicates
    BY <2>1 DEF Duplicates, LocatorOf, Stored
  <2>3. Right' <=> Right
    BY <2>1 DEF Right
  <2>4. ASSUME NEW r \in Requests
        PROVE  /\ InFlight(r)' <=> InFlight(r)
               /\ Rests(r)' <=> Rests(r)
               /\ Settled(r)' <=> Settled(r)
    <3>1. (InFlight(r)' <=> InFlight(r)) /\ (Fresh(r)' <=> Fresh(r)) /\ (Recovered(r)' <=> Recovered(r))
      BY <2>1, <2>3 DEF InFlight, Fresh, Recovered, Nothing, Op
    <3>2. Current(r)' <=> Current(r)
      BY <2>1, <2>2 DEF Current, Op
    <3>3. Seen(r)' = Seen(r)
      BY <2>1 DEF Seen
    <3>4. Counting(r)' <=> Counting(r)
      BY <2>1, <2>3, <3>3 DEF Counting, Op
    <3> QED BY <2>1, <3>1, <3>2, <3>4 DEF Rests, Settled, Alone, Nothing
  <2> QED BY <2>1, <2>4 DEF OneAtATime
<1> QED BY <1>1, <1>2, <1>3, <1>4 DEF Next
-------------------------------------------------------------------------------
(* Requests that overlap or fail may leave the counters of a page wrong; the   *)
(* next one that runs alone and writes elements leaves the counters of what    *)
(* the page holds then, whether or not they were right before.                 *)
THEOREM CountersAreRecovered == Spec => []CountersRecover
<1>1. OneAtATime => CountersRecover
  BY DEF OneAtATime, CountersRecover, Settled, Recovered, Right, InFlight
<1>2. Spec => [](Inv /\ OneAtATime)
  BY InvInit, InvNext, OneAtATimeInit, OneAtATimeNext, PTL DEF Spec
<1> QED BY <1>1, <1>2, PTL

(* What a purge deletes leaves one element of rivals, that stands for them.    *)
OneOfEach ==
    /\ \A id \in Stored' : elements'[id] = elements[id]
    /\ \A id \in Stored : \E k \in Stored' : StandsFor(elements[k].locator, elements[id].locator)
    /\ \A i, k \in Stored' : Rivals(elements[i].locator, elements[k].locator) => i = k

LEMMA DuplicatesOnly ==
    ASSUME NEW D \in Duplicates, \A id \in Ids : elements'[id] = IF id \in D THEN None ELSE elements[id]
    PROVE  OneOfEach
<1> DEFINE locator == LocatorOf(elements)
<1>1. \A id \in Stored : locator[id] = elements[id].locator
  BY DEF LocatorOf, Stored
<1>2. Stored' = Stored \ D /\ \A id \in Stored \ D : elements'[id] = elements[id]
  BY DEF Stored
<1>3. /\ \A i, k \in Stored \ D : Rivals(locator[i], locator[k]) => i = k
      /\ \A i \in D : \E k \in Stored \ D : StandsFor(locator[k], locator[i])
      /\ D \subseteq Stored
  BY DEF Duplicates, Purges
<1> HIDE DEF locator
<1>4. \A id \in Stored : StandsFor(elements[id].locator, elements[id].locator)
  BY DEF StandsFor, Rivals
<1>5. ASSUME NEW id \in Stored
      PROVE  \E k \in Stored' : StandsFor(elements[k].locator, elements[id].locator)
  <2>1. CASE id \in D
    <3>1. PICK k \in Stored \ D : StandsFor(locator[k], locator[id])
      BY <1>3, <2>1
    <3> QED BY <1>1, <1>2, <3>1
  <2>2. CASE id \notin D
    BY <1>2, <1>4, <2>2
  <2> QED BY <2>1, <2>2
<1> QED BY <1>1, <1>2, <1>3, <1>5 DEF OneOfEach

(* A purge that runs alone, on whatever page: it keeps an element for each     *)
(* that it takes out, with a role if that had one, changes none, and leaves no *)
(* two that the rule takes for one, also when it finds nothing to delete.      *)
THEOREM PurgesKeepOneEach == Spec => PurgeKeepsOneEach
<1>1. ASSUME Inv, OneAtATime, [Next]_vars, NEW r \in Requests, alone' = r, Op(r) = "purge", page # None,
             pc[r] \in {"load", "delete"}, pc'[r] \in {"reload", "done"}
      PROVE  OneOfEach
  <2>1. TypeOK /\ InFlight(r)
    BY <1>1 DEF Inv, TypeInv, InFlight
  <2>2. Step(r)
    <3>1. ~Crash /\ ~UNCHANGED vars
      BY <1>1, PageAssumption DEF Crash, Fault, vars, InFlight
    <3>2. PICK q \in Requests : Begin(q) \/ Step(q)
      BY <1>1, <3>1 DEF Next
    <3>3. q = r
      BY <1>1, <2>1, <3>2, StepUntouched DEF Untouched
    <3> QED BY <1>1, <3>2, <3>3 DEF Begin
  <2>3. ~Fails(r)
    BY <1>1, PageAssumption DEF Fails, Fault
  <2>4. pc'[r] # pc[r]
    BY <1>1
  <2>5. Load(r) \/ Delete(r) \/ BreakDeadlock(r)
    BY <1>1, <2>2, <2>3, <2>4 DEF Step, CheckPage, InsertPage, LookUp, LastItem, Acquire, ReadNumber, Flush,
                Insert, Reload, FlushPage, Drop, CountElements, Commit, WriteStatus
  <2>6. alone = r
    BY <1>1, <2>5 DEF Load, Delete, BreakDeadlock
  <2>7. CASE Delete(r)
    <3>1. chosen[r] \in Duplicates
      BY <1>1, <2>1, <2>6, <2>7, WhenAlone DEF Alone, Current, Delete
    <3>2. \A id \in Ids : elements'[id] = IF id \in chosen[r] THEN None ELSE elements[id]
      BY <1>1, <2>7 DEF Delete
    <3> QED BY <3>1, <3>2, DuplicatesOnly
  <2>8. CASE Load(r)
    <3>1. PICK S \in Duplicates : Choose(r, S)
      <4>1. pc'[r] # "load" /\ pc'[r] # "insert"
        BY <1>1
      <4> QED BY <1>1, <2>8 DEF Load, Edits
    <3>2. S = {}
      BY <1>1, <2>1, <3>1 DEF Choose, Goto, TypeOK
    <3>3. \A id \in Ids : elements'[id] = IF id \in S THEN None ELSE elements[id]
      BY <2>8, <3>2 DEF Load
    <3> QED BY <3>1, <3>3, DuplicatesOnly
  <2>9. ~BreakDeadlock(r)
    BY <1>1, <2>6, NoDeadlockAlone
  <2> QED BY <2>5, <2>7, <2>8, <2>9
<1>2. Inv /\ OneAtATime /\ [Next]_vars =>
        [\A r \in Requests :
           alone' = r /\ Op(r) = "purge" /\ page # None
             /\ pc[r] \in {"load", "delete"} /\ pc'[r] \in {"reload", "done"} =>
              /\ \A id \in Stored' : elements'[id] = elements[id]
              /\ \A id \in Stored : \E k \in Stored' :
                     StandsFor(elements[k].locator, elements[id].locator)
              /\ \A i, k \in Stored' : Rivals(elements[i].locator, elements[k].locator) => i = k]_vars
  BY <1>1 DEF OneOfEach
<1>3. Spec => [](Inv /\ OneAtATime)
  BY InvInit, InvNext, OneAtATimeInit, OneAtATimeNext, PTL DEF Spec
<1> QED BY <1>2, <1>3, PTL DEF Spec, PurgeKeepsOneEach
===============================================================================
