---------------------------- MODULE MCPageObjects ----------------------------
(* Small instances of PageObjects: a page with two codes for elements, whose   *)
(* locators are that of the import or found by role.                           *)
EXTENDS PageObjects

CONSTANTS user, submit, testid, login, link, button

ItemOf(code, to) == [code |-> code, to |-> to]
On(op, items) == [op |-> op, items |-> items]

(* What is given of a locator: all of it, or single columns.                   *)
Role(role) == [type |-> ByRole, value |-> login, role |-> role]
Only(column, text) == With(Unset, [c \in Columns |-> IF c = column THEN text ELSE None])
Imported == [type |-> testid, value |-> login, role |-> None]

AllJobs ==
    {On("create", <<ItemOf(user, Role(link))>>), On("edit", <<ItemOf(user, Only("type", testid))>>),
     On("edit", <<ItemOf(user, Only("role", button))>>),
     On("rename", <<ItemOf(user, submit)>>), On("approve", <<ItemOf(submit, Unset)>>),
     On("version", <<ItemOf(user, Unset)>>), On("delete", <<ItemOf(user, Unset)>>),
     On("delete", <<ItemOf(user, Unset), ItemOf(submit, Unset)>>),
     On("import", <<ItemOf(user, Imported), ItemOf(submit, Imported)>>),
     On("import", <<ItemOf(submit, Imported), ItemOf(user, Imported)>>)}
    \cup {On(op, << >>) : op \in {"createPage", "purge", "drop", "dropEmpty"}}

(* No element, one, and two that are rivals, the other one with a role.        *)
PageWith(u, s) == [c \in Codes |-> IF c = user THEN u ELSE s]
NoneOneTwo ==
    {PageWith(None, None), PageWith(Role(Empty), None), PageWith(Role(Empty), Role(button))}

===============================================================================
