------------------------------- MODULE PagePurge -------------------------------
(* The loop of _purge_duplicate_page_elements over the rows of a page, the     *)
(* last updated first.  A row is known by its place.                           *)
EXTENDS PageLocators, Sequences

VARIABLES
    rows, at,                       \* the rows; the one the loop is at
    keep, duplicates,               \* keep_ids and duplicate_id_set
    identities,                     \* seen_locator_keys
    keeper                          \* seen_role_locator_keys: by value, 0 for none

vars == <<rows, at, keep, duplicates, identities, keeper>>

Init ==
    /\ rows \in Seq(Locators)
    /\ at = 1
    /\ keep = {} /\ duplicates = {}
    /\ identities = {}
    /\ keeper = [v \in Texts |-> 0]

Running == at <= Len(rows)
This == rows[at]
Rival == keeper[This["value"]]
OfRole == This["type"] = ByRole

GoOn == at' = at + 1 /\ UNCHANGED rows

Keep(kept) == keep' = kept \cup {at} /\ identities' = identities \cup {This}

(* The same type, value and role as a row that was kept, be it only then.      *)
Repeats ==
    /\ Running /\ This \in identities
    /\ duplicates' = duplicates \cup {at}
    /\ UNCHANGED <<keep, identities, keeper>>
    /\ GoOn

New ==
    /\ Running /\ This \notin identities /\ ~OfRole
    /\ Keep(keep)
    /\ UNCHANGED <<duplicates, keeper>>
    /\ GoOn

NewRole ==
    /\ Running /\ This \notin identities /\ OfRole /\ Rival = 0
    /\ Keep(keep)
    /\ keeper' = [keeper EXCEPT ![This["value"]] = at]
    /\ UNCHANGED duplicates
    /\ GoOn

(* A row without a role gives way to one that has a role.                      *)
TakesOver ==
    /\ Running /\ This \notin identities /\ OfRole /\ Rival # 0
    /\ Roleless(rows[Rival]) /\ ~Roleless(This)
    /\ duplicates' = duplicates \cup {Rival}
    /\ Keep(keep \ {Rival})
    /\ keeper' = [keeper EXCEPT ![This["value"]] = at]
    /\ GoOn

GivesWay ==
    /\ Running /\ This \notin identities /\ OfRole /\ Rival # 0
    /\ Roleless(rows[Rival]) => Roleless(This)
    /\ duplicates' = duplicates \cup {at}
    /\ UNCHANGED <<keep, identities, keeper>>
    /\ GoOn

Next == Repeats \/ New \/ NewRole \/ TakesOver \/ GivesWay

Spec == Init /\ [][Next]_vars
-------------------------------------------------------------------------------
TypeOK ==
    /\ rows \in Seq(Locators)
    /\ at \in 1..(Len(rows) + 1)
    /\ keep \subseteq DOMAIN rows /\ duplicates \subseteq DOMAIN rows
    /\ identities \subseteq Locators
    /\ keeper \in [Texts -> Nat]

(* Through all branches, and although a row that was kept may later give way,  *)
(* what the loop deletes is what PageObjects lets a purge delete, and it       *)
(* counts each row as kept or as a duplicate.                                  *)
PurgesDuplicates ==
    ~Running => duplicates \in Purges(DOMAIN rows, rows) /\ keep = DOMAIN rows \ duplicates

(* Of rivals the last updated is kept, except that a row without a role gives  *)
(* way to the last updated that has one.                                       *)
KeepsTheLatest ==
    ~Running => \A k \in keep : \A i \in 1..(k - 1) :
        Rivals(rows[i], rows[k]) => Roleless(rows[i]) /\ ~Roleless(rows[k])

===============================================================================
