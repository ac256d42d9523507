----------------------------- MODULE GateContract -----------------------------
(* What the store of gate decisions promises: one record per subject, changed  *)
(* by one call at a time.  A save in a full store may cost another subject its *)
(* decision, and a write that fails half-way costs everybody theirs.           *)
EXTENDS GateData, FiniteSets

CONSTANT MayLose                    \* a write may fail half-way

VARIABLE decisions

Init == decisions = [s \in Subjects |-> None]

Held == {s \in Subjects : decisions[s] # None}

Save(u, s, d) ==
    /\ MayDecide(u, d)
    /\ LET next == [decisions EXCEPT ![s] = Saved(@, u, d)] IN
       \/ decisions' = next
       \/ /\ s \notin Held /\ Cardinality(Held) >= Limit
          /\ \E dropped \in Held : decisions' = [next EXCEPT ![dropped] = None]

Approve(u, s) ==
    /\ u \in Privileged
    /\ s \in Held /\ Approvable(decisions[s], u)
    /\ decisions' = [decisions EXCEPT ![s] = Approved(@, u)]

Revoke(u, s) ==
    /\ s \in Held /\ Revocable(decisions[s], u)
    /\ decisions' = [decisions EXCEPT ![s] = Revoked(@)]

Lose == MayLose /\ decisions' = [s \in Subjects |-> None]

Next ==
    \/ \E u \in Users, s \in Subjects :
           \/ \E d \in Decisions : Save(u, s, d)
           \/ Approve(u, s)
           \/ Revoke(u, s)
    \/ Lose

Spec == Init /\ [][Next]_decisions
===============================================================================
