---------------------------- MODULE ExecutionGate -----------------------------
(* workbench_gate_service over workbench_state_store: concurrent requests save,*)
(* approve and revoke gate decisions.  Writers hold FILE_LOCK while they read  *)
(* the whole list, change it in memory and write it back, and the write itself *)
(* is two steps: in the database, the deletion of every row is committed before*)
(* the new rows are; in a file, write_text truncates before it writes.  Readers*)
(* take no lock.                                                               *)
EXTENDS GateData, Sequences

CONSTANTS
    Requests,
    Commands,             \* the calls clients may make
    Watched,              \* subjects whose runs somebody looks at
    Database,             \* WORKBENCH_STATE_BACKEND is "database", not "file"
    Disturbances          \* "db": a write fails; "crash": the server restarts

Calls ==
    [op: {"save", "approve", "revoke"}, user: Users \cup {Anonymous},
     subject: Subjects, decision: Decisions]

ASSUME CallAssumption ==
    /\ Commands \subseteq Calls /\ None \notin Calls /\ None \notin Requests
    /\ Watched \subseteq Subjects
    /\ Database \in BOOLEAN
    /\ Disturbances \subseteq {"db", "crash"}

VARIABLES
    table,                          \* the stored list, in the order it is read
    lock,                           \* who holds FILE_LOCK
    pc, call, items,                \* per request; items is the list it writes
    answer,
    history,                        \* requests with an event in the history
    shown                           \* the decision a run's view last showed

request == <<pc, call, items, answer>>
vars == <<table, lock, request, history, shown>>

Init ==
    /\ table = <<>>
    /\ lock = None
    /\ pc      = [r \in Requests |-> "idle"]
    /\ call    = [r \in Requests |-> None]
    /\ items   = [r \in Requests |-> <<>>]
    /\ answer  = [r \in Requests |-> None]
    /\ history = {}
    /\ shown   = [s \in Watched |-> None]
-------------------------------------------------------------------------------
Item(s, rec) == [subject |-> s, rec |-> rec]

(* The record of s in a list, of which there is one at most.                   *)
Places(list, s) == {i \in DOMAIN list : list[i].subject = s}
Stored(list, s) ==
    IF Places(list, s) = {} THEN None
    ELSE list[CHOOSE i \in Places(list, s) : TRUE].rec

(* A new record goes to the front, an old one is replaced where it is.         *)
Put(list, s, rec) ==
    IF Places(list, s) = {}
    THEN <<Item(s, rec)>> \o list
    ELSE [i \in DOMAIN list |-> IF list[i].subject = s THEN Item(s, rec) ELSE list[i]]

Goto(r, label) == pc' = [pc EXCEPT ![r] = label]

Finish(r, reply) ==
    /\ Goto(r, "done")
    /\ answer' = [answer EXCEPT ![r] = reply]
-------------------------------------------------------------------------------
(* save_, approve_ and revoke_execution_gate_decision, up to FILE_LOCK: the    *)
(* case has to be in the case center, the caller logged in and, to save        *)
(* anything but manual_review or to approve, privileged.                       *)
Admitted(c) ==
    /\ c.user \in Users
    /\ c.op = "save"    => MayDecide(c.user, c.decision)
    /\ c.op = "approve" => c.user \in Privileged

(* Refusals that are put on record: everybody who is not logged in, and saves  *)
(* without permission.                                                         *)
Reported(c) == c.user = Anonymous \/ c.op = "save"

Receive(r) ==
    /\ pc[r] = "idle"
    /\ \E c \in Commands :
          /\ call' = [call EXCEPT ![r] = c]
          /\ \/ Finish(r, "refused")          \* the case is not in the case center
             \/ Admitted(c) /\ Goto(r, "decide") /\ UNCHANGED answer
             \/ ~Admitted(c) /\ Reported(c) /\ Goto(r, "refuse") /\ UNCHANGED answer
             \/ ~Admitted(c) /\ ~Reported(c) /\ Finish(r, "refused")
    /\ UNCHANGED <<table, lock, items, history, shown>>

RefuseAndReport(r) ==
    /\ pc[r] = "refuse" /\ lock = None
    /\ history' = history \cup {r}
    /\ Finish(r, "refused")
    /\ UNCHANGED <<table, lock, call, items, shown>>

(* Mutant: items[:1000] keeps one item more.                                   *)
KeptOneMore(list) == SubSeq(list, 1, IF Len(list) < Limit + 1 THEN Len(list) ELSE Limit + 1)

(* items[:1000]                                                                *)
Kept(list) == SubSeq(list, 1, IF Len(list) < Limit THEN Len(list) ELSE Limit)

(* The record the call leaves, for those it may change.                        *)
Outcome(c, old) ==
    CASE c.op = "save"    -> Saved(old, c.user, c.decision)
      [] c.op = "approve" -> Approved(old, c.user)
      [] c.op = "revoke"  -> Revoked(old)

Changes(c, old) ==
    \/ c.op = "save"
    \/ c.op = "approve" /\ old # None /\ Approvable(old, c.user)
    \/ c.op = "revoke" /\ old # None /\ ~old.revoked /\ Revocable(old, c.user)

(* Revoking a revoked decision answers with it; 404, 409 and 403 are refusals. *)
Decide(r, held) ==
    LET c == call[r]  old == Stored(table, c.subject) IN
    \/ /\ Changes(c, old)
       /\ items' = [items EXCEPT ![r] = Kept(Put(table, c.subject, Outcome(c, old)))]
       /\ lock' = held
       /\ Goto(r, "erase")
       /\ UNCHANGED answer
    \/ /\ ~Changes(c, old)
       /\ IF c.op = "revoke" /\ old # None /\ old.revoked
          THEN Goto(r, "report") /\ UNCHANGED answer
          ELSE Finish(r, "refused")
       /\ UNCHANGED <<lock, items>>

(* Mutant: the list is read before FILE_LOCK is taken.                         *)
ReadAndDecideUnlocked(r) ==
    /\ pc[r] = "decide"
    /\ Decide(r, lock)
    /\ UNCHANGED <<table, call, history, shown>>

(* with FILE_LOCK: read the list and change it in memory ...                   *)
ReadAndDecide(r) ==
    /\ pc[r] = "decide" /\ lock = None
    /\ Decide(r, r)
    /\ UNCHANGED <<table, call, history, shown>>

(* ... delete every row and commit, or truncate the file ...                   *)
Erase(r) ==
    /\ pc[r] = "erase"
    /\ table' = <<>>
    /\ Goto(r, "rewrite")
    /\ UNCHANGED <<lock, call, items, answer, history, shown>>

(* Rows are listed by updated_at and id, both descending, and get one          *)
(* updated_at and ascending ids: the last one written is read first.           *)
Reread(list) ==
    IF Database THEN [i \in DOMAIN list |-> list[Len(list) + 1 - i]] ELSE list

(* ... and write the new list.                                                 *)
Rewrite(r) ==
    /\ pc[r] = "rewrite"
    /\ table' = Reread(items[r])
    /\ items' = [items EXCEPT ![r] = <<>>]
    /\ lock' = None
    /\ Goto(r, "report")
    /\ UNCHANGED <<call, answer, history, shown>>

(* append_history takes FILE_LOCK again.                                       *)
Report(r) ==
    /\ pc[r] = "report" /\ lock = None
    /\ history' = history \cup {r}
    /\ Finish(r, "ok")
    /\ UNCHANGED <<table, lock, call, items, shown>>

(* A write raises; nothing is undone, and a deletion that was committed stays. *)
WriteFails(r) ==
    /\ "db" \in Disturbances
    /\ \/ pc[r] \in {"erase", "rewrite"}
       \/ pc[r] \in {"refuse", "report"} /\ lock = None
    /\ Finish(r, "error")
    /\ lock' = IF lock = r THEN None ELSE lock
    /\ items' = [items EXCEPT ![r] = <<>>]
    /\ UNCHANGED <<table, call, history, shown>>

(* execution_gate_decision_for_run, in the view of a run.                      *)
Show(s) ==
    /\ shown' = [shown EXCEPT ![s] = Stored(table, s)]
    /\ UNCHANGED <<table, lock, request, history>>

(* The server restarts: requests and FILE_LOCK are gone, the table is not.     *)
Crash ==
    /\ "crash" \in Disturbances
    /\ pc' = [r \in Requests |-> IF pc[r] \in {"idle", "done"} THEN pc[r] ELSE "lost"]
    /\ items' = [r \in Requests |-> <<>>]
    /\ lock' = None
    /\ UNCHANGED <<table, call, answer, history, shown>>

Step(r) ==
    \/ RefuseAndReport(r) \/ ReadAndDecide(r) \/ Erase(r) \/ Rewrite(r)
    \/ Report(r) \/ WriteFails(r)

Next ==
    \/ \E r \in Requests : Receive(r) \/ Step(r)
    \/ \E s \in Watched : Show(s)
    \/ Crash

Spec == Init /\ [][Next]_vars
-------------------------------------------------------------------------------
Items == [subject: Subjects, rec: Records]
Lists == {list \in Seq(Items) : Len(list) <= Limit}

(* At most Limit decisions are kept, one per subject.                          *)
TypeOK ==
    /\ table \in Lists
    /\ lock \in Requests \cup {None}
    /\ pc \in [Requests -> {"idle", "refuse", "decide", "erase", "rewrite",
                            "report", "done", "lost"}]
    /\ call \in [Requests -> Calls \cup {None}]
    /\ items \in [Requests -> Lists]
    /\ answer \in [Requests -> {None, "ok", "refused", "error"}]
    /\ history \in SUBSET Requests
    /\ shown \in [Watched -> Records \cup {None}]
    /\ \A i, j \in DOMAIN table : table[i].subject = table[j].subject => i = j

(* Under dual approval a block in force was either decided by somebody who may *)
(* bypass it, or approved by another, privileged person, who really made that  *)
(* call -- through every order of saving, approving, revoking and saving again.*)
HasApproved(u, s) ==
    \E r \in Requests : /\ call[r] # None
                        /\ call[r].op = "approve"
                        /\ call[r].user = u /\ call[r].subject = s
TwoPersons(s, rec) ==
    InForce(rec) /\ rec.decision = "block" =>
        \/ rec.by \in Bypass
        \/ rec.second \in Privileged \ {rec.by} /\ HasApproved(rec.second, s)
TwoPersonRule ==
    DualApproval => \A i \in DOMAIN table : TwoPersons(table[i].subject, table[i].rec)

(* workbench_gate_service.py:273: second approver must be different from       *)
(* decision maker.                                                             *)
SecondApproverDiffers ==
    \A i \in DOMAIN table : table[i].rec.second # table[i].rec.by

(* The store implements its contract: a call takes effect when it erases the   *)
(* old list, if the new one is written.                                        *)
Current ==
    IF \E r \in Requests : pc[r] = "rewrite"
    THEN items[CHOOSE r \in Requests : pc[r] = "rewrite"] ELSE table
Contract == INSTANCE GateContract WITH
    decisions <- [s \in Subjects |-> Stored(Current, s)],
    MayLose <- Disturbances # {}
ContractSpec == Contract!Spec
===============================================================================
