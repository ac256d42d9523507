----------------------------- MODULE MCTestCases -----------------------------
(* Small instances of TestCases: two test points of a page, and one case that  *)
(* may be there from before.                                                   *)
EXTENDS TestCases

CONSTANTS login, logout

Generate(points) == [op |-> "generate", points |-> points, number |-> 1]
OnCase(op, n)    == [op |-> op, points |-> << >>, number |-> n]

AllJobs ==
    {Generate(<<login>>), Generate(<<logout>>), Generate(<<login, logout>>), OnCase("create", 1)}
    \cup {OnCase(op, 1) : op \in {"script", "edit", "retag", "status", "delete"}}
===============================================================================
