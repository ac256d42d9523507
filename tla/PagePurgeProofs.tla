--------------------------- MODULE PagePurgeProofs ----------------------------
(* Proofs about PagePurge, for any rows in any order: types, and what the loop *)
(* has chosen when it ends, from what holds of the rows that it has passed.    *)
EXTENDS PagePurge, TLAPS

Passed == 1..(at - 1)

(* Each row that was passed was kept or is a duplicate; each one, and each key *)
(* that was noted, has a row that is kept and stands for it.                   *)
Accounted ==
    /\ keep = Passed \ duplicates /\ duplicates \subseteq Passed
    /\ \A i \in Passed : \E k \in keep : StandsFor(rows[k], rows[i])
    /\ \A l \in identities : \E k \in keep : StandsFor(rows[k], l)

(* The rows that are kept are found again by the keys that were noted.         *)
Noted ==
    /\ \A k \in keep : rows[k] \in identities
    /\ \A k \in keep : rows[k]["type"] = ByRole => keeper[rows[k]["value"]] = k
    /\ \A v \in Texts : keeper[v] # 0 =>
         keeper[v] \in keep /\ rows[keeper[v]]["type"] = ByRole /\ rows[keeper[v]]["value"] = v

Latest ==
    \A k \in keep : \A i \in 1..(k - 1) :
        Rivals(rows[i], rows[k]) => Roleless(rows[i]) /\ ~Roleless(rows[k])

LoopInv == TypeOK /\ Accounted /\ Noted /\ Latest
-------------------------------------------------------------------------------
(* Rivals are alike.                                                           *)
LEMMA RivalsAlike ==
    ASSUME NEW l, NEW m, NEW n
    PROVE  /\ Rivals(l, l) /\ StandsFor(l, l)
           /\ Rivals(l, m) => Rivals(m, l)
           /\ Rivals(l, m) /\ Rivals(m, n) => Rivals(l, n)
           /\ StandsFor(l, m) /\ StandsFor(m, n) => StandsFor(l, n)
BY DEF Rivals, StandsFor

LEMMA RowsAreLocators ==
    ASSUME TypeOK
    PROVE  /\ rows \in Seq(Locators) /\ Len(rows) \in Nat /\ DOMAIN rows = 1..Len(rows)
           /\ \A i \in 1..Len(rows) : rows[i] \in Locators /\ rows[i]["value"] \in Texts
<1>1. rows \in Seq(Locators)
  BY DEF TypeOK
<1> QED BY <1>1 DEF Locators, Columns

(* No two of the rows that are kept are rivals.                                *)
LEMMA KeptApart ==
    ASSUME LoopInv
    PROVE  \A i, k \in keep : Rivals(rows[i], rows[k]) => i = k
<1> SUFFICES ASSUME NEW i \in keep, NEW k \in keep, Rivals(rows[i], rows[k])
             PROVE  i = k
  OBVIOUS
<1>0. Len(rows) \in Nat /\ at \in 1..(Len(rows) + 1) /\ keep \subseteq Passed
  BY RowsAreLocators DEF LoopInv, Accounted, TypeOK
<1>1. i \in Nat /\ k \in Nat /\ i >= 1 /\ k >= 1
  BY <1>0 DEF Passed
<1>2. CASE rows[i]["type"] = ByRole
  <2>1. rows[k]["type"] = ByRole /\ rows[k]["value"] = rows[i]["value"]
    BY <1>2 DEF Rivals
  <2> QED BY <1>2, <2>1 DEF LoopInv, Noted
<1>3. CASE rows[i]["type"] # ByRole
  <2>1. rows[i] = rows[k]
    BY <1>3 DEF Rivals
  <2>2. ~(i < k) /\ ~(k < i)
    BY <1>1, <2>1 DEF LoopInv, Latest, Rivals, Roleless
  <2> QED BY <1>1, <2>2
<1> QED BY <1>2, <1>3

LEMMA LoopInit == Init => LoopInv
<1> SUFFICES ASSUME Init PROVE LoopInv
  OBVIOUS
<1>1. rows \in Seq(Locators) /\ Len(rows) \in Nat
  BY DEF Init
<1>2. TypeOK
  BY <1>1 DEF Init, TypeOK
<1>3. Passed = {}
  BY DEF Init, Passed
<1> QED BY <1>2, <1>3 DEF LoopInv, Init, Accounted, Noted, Latest

(* What every branch does: the row is passed.                                  *)
LEMMA RowPassed ==
    ASSUME LoopInv, Running, GoOn
    PROVE  /\ rows' = rows /\ Passed' = Passed \cup {at} /\ at \notin Passed
           /\ at \in DOMAIN rows /\ at \in Nat \ {0} /\ Passed \subseteq DOMAIN rows
           /\ at' \in 1..(Len(rows) + 1)
           /\ This \in Locators /\ This["value"] \in Texts
BY RowsAreLocators DEF LoopInv, TypeOK, Running, GoOn, Passed, This

(* A row that is a duplicate has another that stands for it.                   *)
LEMMA DuplicatePassed ==
    ASSUME LoopInv, Running, GoOn, NEW k \in keep, StandsFor(rows[k], This),
           duplicates' = duplicates \cup {at}, UNCHANGED <<keep, identities, keeper>>
    PROVE  LoopInv'
<1>1. TypeOK'
  BY RowPassed DEF LoopInv, TypeOK
<1>2. Accounted'
  <2>1. keep' = Passed' \ duplicates' /\ duplicates' \subseteq Passed'
    BY RowPassed DEF LoopInv, Accounted
  <2>2. \A i \in Passed' : \E q \in keep' : StandsFor(rows'[q], rows'[i])
    BY RowPassed DEF LoopInv, Accounted, This
  <2>3. \A l \in identities' : \E q \in keep' : StandsFor(rows'[q], l)
    BY RowPassed DEF LoopInv, Accounted
  <2> QED BY <2>1, <2>2, <2>3 DEF Accounted
<1>3. Noted' /\ Latest'
  BY RowPassed DEF LoopInv, Noted, Latest
<1> QED BY <1>1, <1>2, <1>3 DEF LoopInv

(* A row of a new identity is kept in place of the rows in gone, which it      *)
(* stands for, if all earlier rivals of it have no role and it has one.        *)
LEMMA KeptPassed ==
    ASSUME LoopInv, Running, GoOn, NEW gone \in SUBSET keep,
           \A g \in gone : StandsFor(This, rows[g]),
           \A k \in keep \ gone : ~Rivals(rows[k], This),
           \A i \in Passed : Rivals(rows[i], This) => Roleless(rows[i]) /\ ~Roleless(This),
           keep' = (keep \ gone) \cup {at}, duplicates' = duplicates \cup gone,
           identities' = identities \cup {This},
           keeper' = IF OfRole THEN [keeper EXCEPT ![This["value"]] = at] ELSE keeper
    PROVE  LoopInv'
<1>1. keep \subseteq Passed /\ duplicates \subseteq Passed
  BY DEF LoopInv, Accounted
<1>2. TypeOK'
  <2>1. keep' \subseteq DOMAIN rows /\ duplicates' \subseteq DOMAIN rows /\ identities' \subseteq Locators
    BY <1>1, RowPassed DEF LoopInv, TypeOK
  <2>2. keeper' \in [Texts -> Nat]
    BY RowPassed DEF LoopInv, TypeOK
  <2> QED BY <2>1, <2>2, RowPassed DEF LoopInv, TypeOK
<1>3. Accounted'
  <2>1. keep' = Passed' \ duplicates' /\ duplicates' \subseteq Passed'
    BY <1>1, RowPassed DEF LoopInv, Accounted
  <2>2. \A l : (\E k \in keep : StandsFor(rows[k], l)) => \E q \in keep' : StandsFor(rows[q], l)
    <3> SUFFICES ASSUME NEW l, NEW k \in keep, StandsFor(rows[k], l)
                 PROVE  \E q \in keep' : StandsFor(rows[q], l)
      OBVIOUS
    <3>1. CASE k \in gone
      <4>1. StandsFor(This, l)
        BY <3>1, RivalsAlike
      <4> QED BY <4>1 DEF This
    <3> QED BY <3>1
  <2>3. \A i \in Passed' : \E q \in keep' : StandsFor(rows'[q], rows'[i])
    <3>1. StandsFor(rows[at], rows[at])
      BY RivalsAlike
    <3> QED BY <2>2, <3>1, RowPassed DEF LoopInv, Accounted
  <2>4. \A l \in identities' : \E q \in keep' : StandsFor(rows'[q], l)
    <3>1. StandsFor(rows[at], This)
      BY RivalsAlike DEF This
    <3> QED BY <2>2, <3>1, RowPassed DEF LoopInv, Accounted
  <2> QED BY <2>1, <2>3, <2>4 DEF Accounted
<1>4. Noted'
  <2>1. \A k \in keep' : rows'[k] \in identities'
    BY RowPassed DEF LoopInv, Noted, This
  <2>2. ASSUME NEW k \in keep', rows'[k]["type"] = ByRole
        PROVE  keeper'[rows'[k]["value"]] = k
    <3>1. CASE k = at
      BY <2>2, <3>1, RowPassed DEF This, OfRole, LoopInv, TypeOK
    <3>2. CASE k # at
      <4>1. k \in keep \ gone /\ k \in DOMAIN rows /\ keeper[rows[k]["value"]] = k
        BY <1>1, <2>2, <3>2, RowPassed DEF LoopInv, Noted
      <4>2. OfRole => rows[k]["value"] # This["value"]
        BY <2>2, <4>1, RowPassed DEF Rivals, OfRole
      <4>3. rows[k]["value"] \in Texts
        BY <4>1, RowsAreLocators DEF LoopInv
      <4> QED BY <4>1, <4>2, <4>3, RowPassed DEF LoopInv, TypeOK
    <3> QED BY <3>1, <3>2
  <2>3. ASSUME NEW v \in Texts, keeper'[v] # 0
        PROVE  /\ keeper'[v] \in keep' /\ rows'[keeper'[v]]["type"] = ByRole
               /\ rows'[keeper'[v]]["value"] = v
    <3>1. CASE OfRole /\ v = This["value"]
      <4>1. keeper'[v] = at
        BY <3>1, RowPassed DEF LoopInv, TypeOK
      <4> QED BY <3>1, <4>1, RowPassed DEF This, OfRole
    <3>2. CASE ~(OfRole /\ v = This["value"])
      <4>1. keeper'[v] = keeper[v]
        BY <3>2 DEF LoopInv, TypeOK
      <4>2. keeper[v] \in keep /\ rows[keeper[v]]["type"] = ByRole /\ rows[keeper[v]]["value"] = v
        BY <2>3, <4>1 DEF LoopInv, Noted
      <4>3. keeper[v] \notin gone
        <5>1. ASSUME keeper[v] \in gone PROVE FALSE
          <6>1. StandsFor(This, rows[keeper[v]]) => Rivals(This, rows[keeper[v]])
            BY DEF StandsFor
          <6>2. OfRole /\ v = This["value"]
            BY <4>2, <5>1, <6>1 DEF Rivals, OfRole
          <6> QED BY <3>2, <6>2
        <5> QED BY <5>1
      <4> QED BY <4>1, <4>2, <4>3, RowPassed
    <3> QED BY <3>1, <3>2
  <2> QED BY <2>1, <2>2, <2>3 DEF Noted
<1>5. Latest'
  <2> SUFFICES ASSUME NEW k \in keep', NEW i \in 1..(k - 1), Rivals(rows[i], rows[k])
               PROVE  Roleless(rows[i]) /\ ~Roleless(rows[k])
    BY RowPassed DEF Latest
  <2>1. CASE k = at
    BY <2>1 DEF Passed, This
  <2>2. CASE k # at
    BY <2>2 DEF LoopInv, Latest
  <2> QED BY <2>1, <2>2
<1> QED BY <1>2, <1>3, <1>4, <1>5 DEF LoopInv

LEMMA LoopStep == LoopInv /\ [Next]_vars => LoopInv'
<1> SUFFICES ASSUME LoopInv, [Next]_vars PROVE LoopInv'
  OBVIOUS
<1> USE DEF LoopInv
<1>1. CASE Repeats
  <2>1. PICK k \in keep : StandsFor(rows[k], This)
    BY <1>1 DEF Repeats, Accounted
  <2> QED BY <1>1, <2>1, DuplicatePassed DEF Repeats
<1>2. CASE New
  <2>1. \A i \in Passed : ~Rivals(rows[i], This)
    <3> SUFFICES ASSUME NEW i \in Passed, Rivals(rows[i], This) PROVE FALSE
      OBVIOUS
    <3>1. rows[i] = This
      BY <1>2 DEF New, OfRole, Rivals
    <3>2. PICK k \in keep : StandsFor(rows[k], rows[i])
      BY DEF Accounted
    <3>3. rows[k] = This
      BY <1>2, <3>1, <3>2 DEF New, OfRole, StandsFor, Rivals
    <3> QED BY <1>2, <3>3 DEF New, Noted
  <2>2. \A k \in keep : ~Rivals(rows[k], This)
    BY <2>1 DEF Accounted
  <2>3. /\ keep' = (keep \ {}) \cup {at} /\ duplicates' = duplicates \cup {}
        /\ identities' = identities \cup {This} /\ {} \in SUBSET keep
        /\ keeper' = IF OfRole THEN [keeper EXCEPT ![This["value"]] = at] ELSE keeper
    BY <1>2 DEF New, Keep
  <2>4. Running /\ GoOn
    BY <1>2 DEF New
  <2> QED BY <2>1, <2>2, <2>3, <2>4, KeptPassed
<1>3. CASE NewRole
  <2>1. \A k \in keep : ~Rivals(rows[k], This)
    <3> SUFFICES ASSUME NEW k \in keep, Rivals(rows[k], This) PROVE FALSE
      OBVIOUS
    <3>1. rows[k]["type"] = ByRole /\ rows[k]["value"] = This["value"]
      BY <1>3 DEF NewRole, OfRole, Rivals
    <3>2. k = 0
      BY <1>3, <3>1 DEF NewRole, Rival, Noted
    <3> QED BY <3>2 DEF Accounted, Passed, TypeOK
  <2>2. \A i \in Passed : ~Rivals(rows[i], This)
    BY <2>1, RivalsAlike DEF Accounted, StandsFor
  <2>3. Running /\ GoOn /\ OfRole
    BY <1>3 DEF NewRole
  <2>4. /\ keep' = (keep \ {}) \cup {at} /\ duplicates' = duplicates \cup {}
        /\ identities' = identities \cup {This} /\ {} \in SUBSET keep
        /\ keeper' = IF OfRole THEN [keeper EXCEPT ![This["value"]] = at] ELSE keeper
    BY <1>3 DEF NewRole, Keep
  <2> QED BY <2>1, <2>2, <2>3, <2>4, KeptPassed
<1>4. CASE TakesOver
  <2>1. Running /\ GoOn /\ OfRole /\ Rival # 0 /\ Roleless(rows[Rival]) /\ ~Roleless(This)
    BY <1>4 DEF TakesOver
  <2>2. Rival \in keep /\ Rivals(rows[Rival], This)
    BY <2>1, RowPassed DEF Rival, Noted, Rivals, OfRole
  <2>3. \A k \in keep \ {Rival} : ~Rivals(rows[k], This)
    BY <2>2, RivalsAlike, KeptApart
  <2>4. \A i \in Passed : Rivals(rows[i], This) => Roleless(rows[i])
    <3> SUFFICES ASSUME NEW i \in Passed, Rivals(rows[i], This) PROVE Roleless(rows[i])
      OBVIOUS
    <3>1. PICK k \in keep : StandsFor(rows[k], rows[i])
      BY DEF Accounted
    <3>2. Rivals(rows[k], This)
      BY <3>1, RivalsAlike DEF StandsFor
    <3>3. k = Rival
      BY <2>3, <3>2
    <3> QED BY <2>1, <3>1, <3>3, RivalsAlike DEF StandsFor, Rivals
  <2>5. StandsFor(This, rows[Rival])
    BY <2>1, <2>2, RivalsAlike DEF StandsFor
  <2>6. /\ keep' = (keep \ {Rival}) \cup {at} /\ duplicates' = duplicates \cup {Rival}
        /\ identities' = identities \cup {This} /\ keeper' = [keeper EXCEPT ![This["value"]] = at]
    BY <1>4 DEF TakesOver, Keep
  <2> QED BY <2>1, <2>2, <2>3, <2>4, <2>5, <2>6, KeptPassed
<1>5. CASE GivesWay
  <2>1. Running /\ GoOn /\ OfRole /\ Rival # 0 /\ (Roleless(rows[Rival]) => Roleless(This))
    BY <1>5 DEF GivesWay
  <2>2. Rival \in keep /\ StandsFor(rows[Rival], This)
    BY <2>1, RowPassed DEF Rival, Noted, Rivals, StandsFor, OfRole
  <2> QED BY <1>5, <2>1, <2>2, DuplicatePassed DEF GivesWay
<1>6. CASE UNCHANGED vars
  BY <1>6 DEF vars, TypeOK, Accounted, Passed, Noted, Latest
<1> QED BY <1>1, <1>2, <1>3, <1>4, <1>5, <1>6 DEF Next

LEMMA LoopInvariant == Spec => []LoopInv
BY LoopInit, LoopStep, PTL DEF Spec
-------------------------------------------------------------------------------
(* What the loop deletes of a page, of any number of rows in any order, is     *)
(* what PageObjects lets a purge delete; it counts each row once.              *)
THEOREM LoopPurgesDuplicates == Spec => []PurgesDuplicates
<1>1. LoopInv => PurgesDuplicates
  <2> SUFFICES ASSUME LoopInv, ~Running
               PROVE  duplicates \in Purges(DOMAIN rows, rows) /\ keep = DOMAIN rows \ duplicates
    BY DEF PurgesDuplicates
  <2>1. Passed = DOMAIN rows
    BY RowsAreLocators DEF LoopInv, TypeOK, Running, Passed
  <2>2. keep = DOMAIN rows \ duplicates /\ duplicates \subseteq DOMAIN rows
    BY <2>1 DEF LoopInv, Accounted
  <2>3. \A i \in duplicates : \E k \in keep : StandsFor(rows[k], rows[i])
    BY <2>1, <2>2 DEF LoopInv, Accounted
  <2> QED BY <2>2, <2>3, KeptApart DEF Purges
<1> QED BY <1>1, LoopInvariant, PTL

(* Of any rivals the last updated is kept, or the last updated that has a role *)
(* where the last updated has none.                                            *)
THEOREM LoopKeepsTheLatest == Spec => []KeepsTheLatest
<1>1. LoopInv => KeepsTheLatest
  BY DEF LoopInv, Latest, KeepsTheLatest
<1> QED BY <1>1, LoopInvariant, PTL

===============================================================================
