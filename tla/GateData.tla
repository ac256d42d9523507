------------------------------- MODULE GateData -------------------------------
(* Manual decisions on the execution gate of a run: who may decide, when a     *)
(* second person has to approve, and what saving, approving and revoking make  *)
(* of a decision.                                                              *)
EXTENDS Integers

CONSTANTS
    Users, Anonymous,     \* authenticated users, and somebody who is not
    Privileged,           \* users with one of execution_gate_decision_privileged_roles
    Bypass,               \* users with one of execution_gate_dual_approval_bypass_roles
    Subjects,             \* (project, run, page): what a decision is about
    DualApproval,         \* execution_gate_dual_approval_enabled
    Limit,                \* as many decisions are kept (1000)
    None

Decisions == {"allow", "block", "manual_review"}
Records ==
    [decision: Decisions, revoked: BOOLEAN, pending: BOOLEAN,
     by: Users, second: Users \cup {None}]

ASSUME GateAssumption ==
    /\ Privileged \subseteq Users /\ Bypass \subseteq Users
    /\ Anonymous \notin Users /\ None \notin Users \cup Records
    /\ DualApproval \in BOOLEAN
    /\ Limit \in Nat \ {0}

(* require_execution_gate_decision_permission                                  *)
MayDecide(u, d) == d = "manual_review" \/ u \in Privileged

NeedsSecond(u, d) == DualApproval /\ d = "block" /\ u \notin Bypass

(* Mutant: saving a decision again leaves its approval as it is.               *)
SavedAsApproved(old, u, d) ==
    [decision |-> d, revoked |-> FALSE,
     pending  |-> IF old = None THEN NeedsSecond(u, d) ELSE old.pending,
     by       |-> u,
     second   |-> IF old = None THEN None ELSE old.second]

(* upsert_execution_gate_decision over the record old, or None.  A decision    *)
(* that needs no second person keeps the second approver of the one before.    *)
Saved(old, u, d) ==
    [decision |-> d, revoked |-> FALSE, pending |-> NeedsSecond(u, d), by |-> u,
     second   |-> IF old # None /\ ~NeedsSecond(u, d) THEN old.second ELSE None]

(* approve_execution_gate_decision; the caller is already known to be          *)
(* privileged.                                                                 *)
Approvable(rec, u) == ~rec.revoked /\ rec.pending /\ rec.by # u
Approved(rec, u)   == [rec EXCEPT !.pending = FALSE, !.second = u]

(* revoke_execution_gate_decision; revoking what is revoked changes nothing.   *)
Revocable(rec, u) == u = rec.by \/ u \in Privileged
Revoked(rec)      == [rec EXCEPT !.revoked = TRUE]

InForce(rec) == ~rec.revoked /\ ~rec.pending
===============================================================================
