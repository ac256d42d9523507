----------------------------- MODULE PageLocators -----------------------------
(* The locator of a page element: three columns of its row, which are written  *)
(* one by one, and the rule by which two elements count as duplicates.         *)
EXTENDS Naturals

CONSTANTS
    Texts,                          \* what a column may hold, trimmed and in lower case
    Empty, ByRole,                  \* no text; the locator type "role"
    None                            \* a column that a request does not give

ASSUME LocatorAssumption == {Empty, ByRole} \subseteq Texts /\ None \notin Texts

Columns == {"type", "value", "role"}
Locators == [Columns -> Texts]
Given == [Columns -> Texts \cup {None}]
Blank == [c \in Columns |-> Empty]
Unset == [c \in Columns |-> None]

(* A locator with the columns that are given.                                  *)
With(locator, given) == [c \in Columns |-> IF given[c] # None THEN given[c] ELSE locator[c]]

(* The columns in which a locator differs from what it was.                    *)
Differing(new, old) == [c \in Columns |-> IF new[c] # old[c] THEN new[c] ELSE None]

Roleless(locator) == locator["role"] = Empty

(* _locator_identity_key is the same, or both are of type role and             *)
(* _locator_relaxed_key is, whatever their roles.                              *)
Rivals(l, m) == l = m \/ (l["type"] = ByRole /\ m["type"] = ByRole /\ l["value"] = m["value"])

(* m may stand in for its rival l: it has a role if l has one.                 *)
StandsFor(m, l) == Rivals(m, l) /\ (Roleless(m) => Roleless(l))

(* What _purge_duplicate_page_elements may take out of some rows, whose order  *)
(* is that of their last updates: of rivals one is left, with a role if one of *)
(* them has a role.                                                            *)
Purges(ids, locator) ==
    {D \in SUBSET ids :
        /\ \A i, k \in ids \ D : Rivals(locator[i], locator[k]) => i = k
        /\ \A i \in D : \E k \in ids \ D : StandsFor(locator[k], locator[i])}
===============================================================================
