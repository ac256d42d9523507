--------------------------- MODULE MCExecutionGate ----------------------------
(* Small instances of ExecutionGate: an admin, two leads and a tester decide   *)
(* about one run in every way; two more runs only fill the store.              *)
EXTENDS ExecutionGate, TLC

CONSTANTS r1, r2, r3, r4, admin, lead, tester, s1, s2, s3

Call(op, u, s, d) == [op |-> op, user |-> u, subject |-> s, decision |-> d]

GateCommands ==
    {Call("save", u, s1, d) : u \in {admin, lead}, d \in {"allow", "block"}}
    \cup {Call("save", tester, s1, d) : d \in {"block", "manual_review"}}
    \cup {Call("save", Anonymous, s1, "allow")}
    \cup {Call(op, u, s1, "block") : op \in {"approve", "revoke"}, u \in Users}
    \cup {Call("save", lead, s, "block") : s \in {s2, s3}}

(* Requests are interchangeable.                                               *)
Symmetry == Permutations(Requests)
===============================================================================
