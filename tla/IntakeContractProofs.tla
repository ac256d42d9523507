------------------------- MODULE IntakeContractProofs --------------------------
(* Proofs that TestAssetIntake implements IntakeContract, and of the           *)
(* invariants this rests on: what a transaction holds and is about to write    *)
(* until it commits, and what the committed tables say of each other.          *)
EXTENDS TestAssetIntakeProofs

-------------------------------------------------------------------------------
(* The invariant of a transaction.                                             *)

NextGenOf(s) == IF idem[s] = None THEN 1 ELSE idem[s].gen + 1
Vacant(s, t) == idem[s] = None \/ Expired(idem[s], t)
NewRow(r) == FreshRow(command[r], now[r], NextGenOf(MyScope(r)))

(* A transaction that has claimed its scope holds the record's row or key, in  *)
(* SQLite the database as well, so that nobody else can commit a record of the *)
(* scope: the claim it carries stays the next generation of a vacant scope.    *)
Holding == {"select_claim", "create", "reuse", "commit"}

Claiming(r) ==
    pc[r] \in Holding =>
        /\ lock[RecordLock(MyScope(r))] = r
        /\ ~RowLocks => lock[WriterLock] = r
        /\ Vacant(MyScope(r), now[r])
        /\ pc[r] # "commit" => tx[r].row = NewRow(r)

(* It goes on only with a source it may use, and reuses the claim's asset.     *)
Sourced(r) ==
    /\ pc[r] \in {"create", "reuse", "commit"} => Resolvable(command[r])
    /\ pc[r] = "reuse" => tx[r].asset = claims[MyContent(r)]

(* What it commits: its claim, completed, and either a new asset with its      *)
(* source and audit event or, for an asset it has locked, exactly the source   *)
(* that is missing and the events that tell so.                                *)
WritesNew(r) ==
    /\ tx[r].new /\ tx[r].outcome = "created"
    /\ tx[r].sources = NewSources(r, tx[r].asset)
    /\ tx[r].audits = {Audit("asset_created", tx[r].asset, command[r], tx[r].row.gen, r)}

WritesReuse(r) ==
    LET a == tx[r].asset IN
    /\ ~tx[r].new /\ tx[r].outcome = "exact_duplicate_reused"
    /\ a = claims[MyContent(r)]
    /\ RowLocks => lock[AssetLock(a)] = r
    /\ tx[r].sources = MissingSources(r, a)
    /\ tx[r].audits = ReuseEvents(a, command[r], tx[r].row.gen, r, tx[r].sources # {})

Writing(r) ==
    pc[r] = "commit" =>
        /\ tx[r].row = Completed(NewRow(r), tx[r].asset, tx[r].new)
        /\ WritesNew(r) \/ WritesReuse(r)

(* In PostgreSQL an expired record is locked when it is selected, and the      *)
(* compare-and-swap on it cannot fail.                                         *)
Selected(r) ==
    RowLocks =>
        /\ pc[r] = "reoccupy" => /\ lock[RecordLock(MyScope(r))] = r
                                 /\ seen[r] # None /\ idem[MyScope(r)] = seen[r]
                                 /\ Expired(seen[r], now[r])
        /\ pc[r] # "reread_record"

(* A request carries one of the commands, decides by a reading of the clock    *)
(* that is not ahead of it, and has no answer before it is over.               *)
Under(r) ==
    /\ pc[r] # "idle" => command[r] \in Commands
    /\ now[r] <= clock
    /\ pc[r] \notin Over => answer[r] = None

Own(r) == Claiming(r) /\ Sourced(r) /\ Writing(r) /\ Selected(r) /\ Under(r)
TxInv == \A r \in Requests : Own(r)
-------------------------------------------------------------------------------
(* Locks of a request whose command is known are locks.                        *)
LEMMA OwnLocks ==
    ASSUME TypeInv, NEW r \in Requests, pc[r] # "idle"
    PROVE  /\ command[r] \in Command
           /\ MyScope(r) \in Scopes /\ MyContent(r) \in ContentKeys
           /\ RecordLock(MyScope(r)) \in Locks /\ ClaimLock(MyContent(r)) \in Locks
           /\ WriterLock \in Locks
           /\ \A a \in AssetIds : AssetLock(a) \in Locks
<1>1. command[r] \in Command
  BY DEF TypeInv, Bound
<1>2. MyScope(r) \in Scopes /\ MyContent(r) \in ContentKeys
  BY <1>1, CommandTypes DEF MyScope, MyContent
<1> QED BY <1>1, <1>2 DEF Locks

(* Taking more locks loses none.                                               *)
LEMMA TakenKeeps ==
    ASSUME NEW r, NEW ls, NEW l \in Locks
    PROVE  /\ lock[l] = r => Taken(ls, r)[l] = r
           /\ l \in ls => Taken(ls, r)[l] = r
BY DEF Taken

(* A request that is over owes nothing, ...                                    *)
LEMMA OverOwn ==
    ASSUME TypeOK, NEW r \in Requests, Under(r), pc[r] # "idle",
           pc' = [pc EXCEPT ![r] = "done"] \/ pc' = [pc EXCEPT ![r] = "crashed"],
           UNCHANGED <<clock, command, now>>
    PROVE  Own(r)'
<1>1. pc'[r] \in Over
  BY DEF TypeOK, Over
<1>2. Under(r)'
  BY <1>1 DEF Under
<1> QED BY <1>1, <1>2 DEF Own, Claiming, Sourced, Writing, Selected, Holding, Over

(* ... nor does one that has begun again.                                      *)
LEMMA AttemptOwn ==
    ASSUME TypeOK, NEW r \in Requests, Under(r), pc[r] # "idle", pc[r] \notin Over,
           pc' = [pc EXCEPT ![r] = "attempt"], UNCHANGED <<clock, command, now, answer>>
    PROVE  Own(r)'
<1>1. pc'[r] = "attempt"
  BY DEF TypeOK
<1>2. Under(r)'
  BY <1>1 DEF Under
<1> QED BY <1>1, <1>2 DEF Own, Claiming, Sourced, Writing, Selected, Holding

(* One that fails is over, ...                                                 *)
LEMMA FailOwn ==
    ASSUME TypeOK, NEW r \in Requests, Under(r), pc[r] # "idle", NEW code, Fail(r, code)
    PROVE  Own(r)'
<1>1. pc' = [pc EXCEPT ![r] = "done"] /\ UNCHANGED <<clock, command, now>>
  BY DEF Fail, Goto
<1> QED BY <1>1, OverOwn

(* ... one that loses a unique key begins again or is over, ...                *)
LEMMA ConflictOwn ==
    ASSUME TypeOK, NEW r \in Requests, Under(r), pc[r] # "idle", pc[r] \notin Over,
           NEW outcome, Conflict(r, outcome)
    PROVE  Own(r)'
<1>1. CASE Retry(r, outcome)
  <2>1. pc' = [pc EXCEPT ![r] = "attempt"] /\ UNCHANGED <<clock, command, now, answer>>
    BY <1>1 DEF Retry, Goto
  <2> QED BY <2>1, AttemptOwn
<1>2. CASE Fail(r, "data_integrity_error")
  BY <1>2, FailOwn
<1> QED BY <1>1, <1>2 DEF Conflict

(* ... and one that answers from a record is over.                             *)
LEMMA ResolveOwn ==
    ASSUME TypeOK, NEW r \in Requests, Under(r), pc[r] # "idle", NEW row,
           ResolveExisting(r, row)
    PROVE  Own(r)'
<1>1. pc' = [pc EXCEPT ![r] = "done"] /\ UNCHANGED <<clock, command, now>>
  BY DEF ResolveExisting, Replay, Fail, Goto
<1> QED BY <1>1, OverOwn

(* Claiming a vacant scope takes its lock.                                     *)
LEMMA HoldRecordOwn ==
    ASSUME TypeInv, NEW r \in Requests, Under(r), pc[r] # "idle", pc[r] \notin Over,
           Vacant(MyScope(r), now[r]), HoldRecord(r, NextGenOf(MyScope(r)))
    PROVE  Own(r)'
<1> USE DEF TypeInv, HoldRecord, Goto
<1>1. UNCHANGED <<command, now, idem, clock, answer>> /\ pc' = [pc EXCEPT ![r] = "select_claim"]
  BY DEF tables
<1>2. pc'[r] = "select_claim"
  BY <1>1 DEF TypeOK
<1>3. lock'[RecordLock(MyScope(r))] = r /\ (~RowLocks => lock'[WriterLock] = r)
  BY OwnLocks, TakenKeeps DEF WriteLocks
<1>4. tx'[r].row = NewRow(r)
  <2>1. tx[r] \in Transactions /\ tx'[r] = [tx[r] EXCEPT !.row = NewRow(r)]
    BY DEF TypeOK, NewRow
  <2> HIDE DEF HoldRecord
  <2>2. [tx[r] EXCEPT !.row = NewRow(r)].row = NewRow(r)
    BY <2>1 DEF Transactions
  <2> QED BY <2>1, <2>2
<1>5. Claiming(r)'
  BY <1>1, <1>2, <1>3, <1>4 DEF Claiming, MyScope, NewRow, NextGenOf, Vacant
<1>6. Sourced(r)' /\ Writing(r)' /\ Selected(r)'
  BY <1>2 DEF Sourced, Writing, Selected
<1>7. Under(r)'
  BY <1>1, <1>2 DEF Under, Over
<1> QED BY <1>5, <1>6, <1>7 DEF Own

(* The record is selected: a vacant scope stays one, and in PostgreSQL an      *)
(* expired record is locked.                                                   *)
LEMMA SelectRecordOwn ==
    ASSUME TypeInv, NEW r \in Requests, Under(r), SelectRecord(r)
    PROVE  Own(r)'
<1> DEFINE row == idem[MyScope(r)]
<1>0. pc[r] # "idle" /\ pc[r] \notin Over
  BY DEF SelectRecord, Over
<1>1. CASE row = None
  <2>1. pc' = [pc EXCEPT ![r] = "insert_record"] /\ UNCHANGED <<clock, command, now, answer>>
    BY <1>1 DEF SelectRecord, Goto
  <2>2. pc'[r] = "insert_record"
    BY <2>1 DEF TypeInv, TypeOK
  <2> QED BY <1>0, <2>1, <2>2 DEF Own, Claiming, Sourced, Writing, Selected, Under, Holding, Over
<1>2. CASE row # None /\ Expired(row, now[r])
  <2>1. /\ pc' = [pc EXCEPT ![r] = "reoccupy"] /\ seen' = [seen EXCEPT ![r] = row]
        /\ ForUpdate(RecordLock(MyScope(r)), r)
        /\ UNCHANGED <<clock, idem, command, now, answer>>
    BY <1>2 DEF SelectRecord, Goto, tables
  <2>2. pc'[r] = "reoccupy" /\ seen'[r] = row
    BY <2>1 DEF TypeInv, TypeOK
  <2>3. RowLocks => lock'[RecordLock(MyScope(r))] = r
    BY <1>0, <2>1, OwnLocks, TakenKeeps DEF ForUpdate
  <2>4. Selected(r)'
    BY <1>2, <2>1, <2>2, <2>3 DEF Selected, MyScope
  <2> QED BY <1>0, <2>1, <2>2, <2>4 DEF Own, Claiming, Sourced, Writing, Under, Holding, Over
<1>3. CASE row # None /\ ~Expired(row, now[r])
  <2>1. ResolveExisting(r, row)
    BY <1>3 DEF SelectRecord
  <2> HIDE DEF row
  <2> QED BY <1>0, <2>1, ResolveOwn DEF TypeInv
<1> QED BY <1>1, <1>2, <1>3

(* The record is claimed, by an INSERT or by a compare-and-swap, which in      *)
(* PostgreSQL does not fail.                                                   *)
LEMMA ClaimRecordOwn ==
    ASSUME TypeInv, NEW r \in Requests, Own(r), InsertRecord(r) \/ Reoccupy(r)
    PROVE  Own(r)'
<1>0. pc[r] # "idle" /\ pc[r] \notin Over /\ Under(r)
  BY DEF InsertRecord, Reoccupy, Over, Own
<1>1. CASE InsertRecord(r)
  <2>1. CASE idem[MyScope(r)] = None /\ HoldRecord(r, 1)
    BY <1>0, <2>1, HoldRecordOwn DEF Vacant, NextGenOf
  <2>2. CASE Conflict(r, "idempotency_replay")
    BY <1>0, <2>2, ConflictOwn DEF TypeInv
  <2> QED BY <1>1, <2>1, <2>2 DEF InsertRecord
<1>2. CASE Reoccupy(r) /\ MayReoccupy(r, idem[MyScope(r)])
  <2>1. HoldRecord(r, NextGenOf(MyScope(r))) /\ Vacant(MyScope(r), now[r])
    BY <1>2 DEF Reoccupy, MayReoccupy, NextGeneration, NextGenOf, Vacant
  <2> QED BY <1>0, <2>1, HoldRecordOwn
<1>3. CASE Reoccupy(r) /\ ~MayReoccupy(r, idem[MyScope(r)])
  <2>1. ~RowLocks
    BY <1>3 DEF Reoccupy, MayReoccupy, Own, Selected
  <2>2. /\ pc' = [pc EXCEPT ![r] = "reread_record"]
        /\ UNCHANGED <<clock, command, now, answer>>
    BY <1>3 DEF Reoccupy, Goto
  <2>3. pc'[r] = "reread_record"
    BY <2>2 DEF TypeInv, TypeOK
  <2> QED BY <1>0, <2>1, <2>2, <2>3
          DEF Own, Claiming, Sourced, Writing, Selected, Under, Holding, Over
<1> QED BY <1>1, <1>2, <1>3

(* The content claim is selected: the transaction creates or reuses.           *)
LEMMA SelectClaimOwn ==
    ASSUME TypeInv, NEW r \in Requests, Own(r), SelectClaim(r)
    PROVE  Own(r)'
<1> DEFINE k == MyContent(r)
<1>0. pc[r] = "select_claim" /\ pc[r] # "idle" /\ pc[r] \notin Over /\ Under(r) /\ Claiming(r)
  BY DEF SelectClaim, Over, Own
<1>1. CASE Fail(r, "source_scope_mismatch")
  BY <1>0, <1>1, FailOwn DEF TypeInv
<1>2. CASE Resolvable(command[r]) /\ claims[k] = None
  <2>1. /\ pc' = [pc EXCEPT ![r] = "create"]
        /\ UNCHANGED <<clock, idem, lock, tx, command, now, answer>>
    BY <1>2 DEF SelectClaim, Goto, tables
  <2>2. pc'[r] = "create"
    BY <2>1 DEF TypeInv, TypeOK
  <2>3. Claiming(r)'
    BY <1>0, <2>1, <2>2 DEF Claiming, Holding, MyScope, Vacant, NewRow, NextGenOf
  <2>4. Sourced(r)' /\ Under(r)'
    BY <1>0, <1>2, <2>1, <2>2 DEF Sourced, Under, Over
  <2> QED BY <2>2, <2>3, <2>4 DEF Own, Writing, Selected
<1>3. CASE Resolvable(command[r]) /\ claims[k] # None
  <2>1. /\ pc' = [pc EXCEPT ![r] = "reuse"] /\ tx' = [tx EXCEPT ![r].asset = claims[k]]
        /\ ForUpdate(ClaimLock(k), r)
        /\ UNCHANGED <<clock, idem, claims, command, now, answer>>
    BY <1>3 DEF SelectClaim, Goto, tables
  <2>2. pc'[r] = "reuse"
    BY <2>1 DEF TypeInv, TypeOK
  <2>3. claims[k] \in AssetIds /\ tx[r] \in Transactions
    BY <1>0, <1>3, OwnLocks DEF TypeInv, TypeOK
  <2>4. tx'[r].asset = claims[k] /\ tx'[r].row = tx[r].row
    BY <2>1, <2>3, AssetWritten DEF TypeInv, TypeOK
  <2>5. \A l \in Locks : lock[l] = r => lock'[l] = r
    BY <2>1, TakenKeeps DEF ForUpdate
  <2>6. Claiming(r)'
    BY <1>0, <2>1, <2>2, <2>4, <2>5, OwnLocks
       DEF Claiming, Holding, MyScope, Vacant, NewRow, NextGenOf
  <2>7. Sourced(r)' /\ Under(r)'
    BY <1>0, <1>3, <2>1, <2>2, <2>4 DEF Sourced, Under, Over, MyContent
  <2> QED BY <2>2, <2>6, <2>7 DEF Own, Writing, Selected
<1> QED BY <1>1, <1>2, <1>3 DEF SelectClaim

(* The last writes of a transaction complete its claim.                        *)
LEMMA CompleteOwn ==
    ASSUME TypeInv, NEW r \in Requests, Own(r), pc[r] \in {"create", "reuse"},
           NEW a, NEW new, NEW srcs, NEW events, NEW outcome,
           Complete(r, a, new, srcs, events, outcome),
           \A l \in Locks : lock[l] = r => lock'[l] = r
    PROVE  /\ Claiming(r)' /\ Sourced(r)' /\ Selected(r)' /\ Under(r)'
           /\ pc'[r] = "commit" /\ tx'[r].row = Completed(NewRow(r)', a, new)
           /\ tx'[r].asset = a /\ tx'[r].new = new /\ tx'[r].sources = srcs
           /\ tx'[r].audits = events /\ tx'[r].outcome = outcome
           /\ tx'[r].row.gen = tx[r].row.gen
<1> DEFINE T == [row |-> Completed(tx[r].row, a, new), asset |-> a, new |-> new,
                 sources |-> srcs, audits |-> events, outcome |-> outcome]
<1>1. /\ pc' = [pc EXCEPT ![r] = "commit"] /\ tx' = [tx EXCEPT ![r] = T]
      /\ UNCHANGED <<clock, idem, command, now, answer>>
  BY DEF Complete, Goto, tables
<1>2. pc'[r] = "commit" /\ tx'[r] = T
  BY <1>1 DEF TypeInv, TypeOK
<1>3. tx[r].row \in Rows /\ tx[r].row = NewRow(r)
  BY DEF TypeInv, Bound, Own, Claiming, Holding
<1>4. Completed(tx[r].row, a, new).gen = tx[r].row.gen
  BY <1>3 DEF Completed, Rows
<1>5. NewRow(r)' = NewRow(r)
  BY <1>1 DEF NewRow, MyScope, NextGenOf
<1>6. Claiming(r)'
  BY <1>1, <1>2, OwnLocks DEF Own, Claiming, Holding, MyScope, Vacant
<1>7. Sourced(r)' /\ Selected(r)' /\ Under(r)'
  BY <1>1, <1>2 DEF Own, Sourced, Selected, Under, Over
<1> QED BY <1>2, <1>3, <1>4, <1>5, <1>6, <1>7

(* A new asset is written under the lock of its content claim.                 *)
LEMMA CreateAssetOwn ==
    ASSUME TypeInv, NEW r \in Requests, Own(r), CreateAsset(r)
    PROVE  Own(r)'
<1> DEFINE a  == NewAsset(r)
           ev == {Audit("asset_created", a, command[r], tx[r].row.gen, r)}
<1>0. pc[r] = "create" /\ pc[r] # "idle" /\ pc[r] \notin Over /\ Under(r)
  BY DEF CreateAsset, Over, Own
<1>1. CASE Conflict(r, "exact_duplicate_reused")
  BY <1>0, <1>1, ConflictOwn DEF TypeInv
<1>2. CASE ~Conflict(r, "exact_duplicate_reused")
  <2>1. /\ Complete(r, a, TRUE, NewSources(r, a), ev, "created")
        /\ lock' = Taken(WriteLocks(ClaimLock(MyContent(r))), r)
    BY <1>2 DEF CreateAsset
  <2>2. \A l \in Locks : lock[l] = r => lock'[l] = r
    BY <2>1, TakenKeeps
  <2>3. command' = command /\ NewSources(r, a)' = NewSources(r, a)
    BY <2>1 DEF Complete, NewAsset, NewSources
  <2> HIDE DEF a, ev
  <2>4. /\ Claiming(r)' /\ Sourced(r)' /\ Selected(r)' /\ Under(r)'
        /\ pc'[r] = "commit" /\ tx'[r].row = Completed(NewRow(r)', a, TRUE)
        /\ tx'[r].asset = a /\ tx'[r].new = TRUE /\ tx'[r].sources = NewSources(r, a)
        /\ tx'[r].audits = ev /\ tx'[r].outcome = "created"
        /\ tx'[r].row.gen = tx[r].row.gen
    BY <1>0, <2>1, <2>2, CompleteOwn
  <2>5. WritesNew(r)'
    BY <2>3, <2>4 DEF WritesNew, ev, NewSources
  <2> QED BY <2>4, <2>5 DEF Own, Writing
<1> QED BY <1>1, <1>2

(* A duplicate is written under the lock of its asset.                         *)
LEMMA ReuseDuplicateOwn ==
    ASSUME TypeInv, NEW r \in Requests, Own(r), ReuseDuplicate(r)
    PROVE  Own(r)'
<1> DEFINE a   == tx[r].asset
           src == MissingSources(r, a)
           ev  == ReuseEvents(a, command[r], tx[r].row.gen, r, src # {})
<1>0. pc[r] = "reuse" /\ pc[r] # "idle" /\ pc[r] \notin Over /\ Under(r)
  BY DEF ReuseDuplicate, Over, Own
<1>1. CASE Fail(r, "data_integrity_error")
  BY <1>0, <1>1, FailOwn DEF TypeInv
<1>2. CASE ~Fail(r, "data_integrity_error")
  <2>1. /\ Complete(r, a, FALSE, src, ev, "exact_duplicate_reused")
        /\ ForUpdate(AssetLock(a), r)
    BY <1>2 DEF ReuseDuplicate
  <2>2. \A l \in Locks : lock[l] = r => lock'[l] = r
    BY <2>1, TakenKeeps DEF ForUpdate
  <2>3. UNCHANGED <<command, claims, sources>>
    BY <2>1 DEF Complete, tables
  <2>4. a \in AssetIds /\ a = claims[MyContent(r)]
    BY <1>0 DEF TypeInv, Bound, Own, Sourced
  <2>5. RowLocks => lock'[AssetLock(a)] = r
    BY <1>0, <2>1, <2>4, OwnLocks, TakenKeeps DEF ForUpdate
  <2> HIDE DEF a, src, ev
  <2>6. /\ Claiming(r)' /\ Sourced(r)' /\ Selected(r)' /\ Under(r)'
        /\ pc'[r] = "commit" /\ tx'[r].row = Completed(NewRow(r)', a, FALSE)
        /\ tx'[r].asset = a /\ tx'[r].new = FALSE /\ tx'[r].sources = src
        /\ tx'[r].audits = ev /\ tx'[r].outcome = "exact_duplicate_reused"
        /\ tx'[r].row.gen = tx[r].row.gen
    BY <1>0, <2>1, <2>2, CompleteOwn
  <2>7. tx'[r].sources = MissingSources(r, tx[r].asset)'
    BY <2>3, <2>6 DEF MissingSources, NewSources, src
  <2>8. tx'[r].audits = ReuseEvents(tx'[r].asset, command'[r], tx'[r].row.gen, r,
                                    tx'[r].sources # {})
    BY <2>3, <2>6 DEF ev
  <2>9. tx'[r].asset = claims'[MyContent(r)'] /\ (RowLocks => lock'[AssetLock(tx'[r].asset)] = r)
    BY <2>3, <2>4, <2>5, <2>6 DEF MyContent
  <2>10. WritesReuse(r)'
    BY <2>6, <2>7, <2>8, <2>9 DEF WritesReuse
  <2> QED BY <2>6, <2>10 DEF Own, Writing
<1> QED BY <1>1, <1>2

(* Whatever a request does, it keeps its own part of the invariant.            *)
LEMMA MoveOwn ==
    ASSUME TypeInv, NEW r \in Requests, Own(r), Move(r)
    PROVE  Own(r)'
<1>0. Under(r) /\ TypeOK
  BY DEF Own, TypeInv
<1>1. CASE Receive(r)
  <2>1. pc' = [pc EXCEPT ![r] = "attempt"] /\ UNCHANGED <<clock, now, answer>>
    BY <1>1 DEF Receive, Goto
  <2>2. pc'[r] = "attempt" /\ command'[r] \in Commands
    BY <1>0, <1>1, <2>1 DEF Receive, TypeOK
  <2>3. answer[r] = None
    BY <1>0, <1>1 DEF Receive, Under, Over
  <2> QED BY <1>0, <2>1, <2>2, <2>3
          DEF Own, Claiming, Sourced, Writing, Selected, Under, Holding
<1>2. CASE BeginAttempt(r)
  <2>1. pc[r] # "idle" /\ pc[r] \notin Over
    BY <1>2 DEF BeginAttempt, Over
  <2>2. CASE Fail(r, "project_inactive")
    BY <1>0, <2>1, <2>2, FailOwn
  <2>3. CASE ~Fail(r, "project_inactive")
    <3>1. /\ pc' = [pc EXCEPT ![r] = "select_record"] /\ now' = [now EXCEPT ![r] = clock]
          /\ UNCHANGED <<clock, command, answer>>
      BY <1>2, <2>3 DEF BeginAttempt, Goto
    <3>2. pc'[r] = "select_record" /\ now'[r] = clock /\ clock \in Nat
      BY <1>0, <3>1 DEF TypeOK
    <3> QED BY <1>0, <2>1, <3>1, <3>2
            DEF Own, Claiming, Sourced, Writing, Selected, Under, Holding
  <2> QED BY <2>2, <2>3
<1>3. CASE SelectRecord(r)
  BY <1>0, <1>3, SelectRecordOwn
<1>4. CASE InsertRecord(r) \/ Reoccupy(r)
  BY <1>4, ClaimRecordOwn
<1>5. CASE RereadRecord(r)
  <2>1. pc[r] # "idle"
    BY <1>5 DEF RereadRecord
  <2>2. \/ Fail(r, "data_integrity_error")
        \/ ResolveExisting(r, idem[MyScope(r)])
    BY <1>5 DEF RereadRecord
  <2> QED BY <1>0, <2>1, <2>2, FailOwn, ResolveOwn
<1>6. CASE SelectClaim(r)
  BY <1>6, SelectClaimOwn
<1>7. CASE CreateAsset(r)
  BY <1>7, CreateAssetOwn
<1>8. CASE ReuseDuplicate(r)
  BY <1>8, ReuseDuplicateOwn
<1>9. CASE Commit(r)
  <2>1. pc[r] # "idle" /\ UNCHANGED <<clock, command, now>>
    BY <1>9 DEF Commit
  <2>2. pc' = [pc EXCEPT ![r] = "done"] \/ pc' = [pc EXCEPT ![r] = "crashed"]
    BY <1>9 DEF Commit, Goto
  <2> QED BY <1>0, <2>1, <2>2, OverOwn
<1>10. CASE RejectOutcome(r) \/ Fault(r)
  <2>1. pc[r] # "idle" /\ Fail(r, "data_integrity_error")
    BY <1>10 DEF RejectOutcome, Fault, Running, InTransaction
  <2> QED BY <1>0, <2>1, FailOwn
<1>11. CASE Crash(r)
  <2>1. pc[r] # "idle" /\ pc' = [pc EXCEPT ![r] = "crashed"] /\ UNCHANGED <<clock, command, now>>
    BY <1>11 DEF Crash, Goto, Running, InTransaction
  <2> QED BY <1>0, <2>1, OverOwn
<1> QED BY <1>1, <1>2, <1>3, <1>4, <1>5, <1>6, <1>7, <1>8, <1>9, <1>10, <1>11
        DEF Move, Step
-------------------------------------------------------------------------------
(* No request disturbs what another one holds and is about to write.           *)

(* A move of r leaves the clock, and what q read, alone.                       *)
LEMMA ReadingsStable ==
    ASSUME TypeOK, NEW r \in Requests, Move(r), NEW q \in Requests
    PROVE  clock' = clock /\ (q # r => now'[q] = now[q] /\ seen'[q] = seen[q])
<1> USE DEF TypeOK, Goto, EndTx, Fail, Rollback, Conflict, Retry, ResolveExisting, Replay
<1>1. CASE Receive(r) \/ BeginAttempt(r) \/ SelectRecord(r)
  BY <1>1 DEF Receive, BeginAttempt, SelectRecord
<1>2. CASE InsertRecord(r) \/ Reoccupy(r) \/ RereadRecord(r)
  BY <1>2 DEF InsertRecord, Reoccupy, RereadRecord, HoldRecord
<1>3. CASE SelectClaim(r) \/ CreateAsset(r) \/ ReuseDuplicate(r)
  BY <1>3 DEF SelectClaim, CreateAsset, ReuseDuplicate, Complete
<1>4. CASE RejectOutcome(r) \/ Fault(r) \/ Crash(r)
  BY <1>4 DEF RejectOutcome, Fault, Crash
<1>5. CASE Commit(r)
  BY <1>5 DEF Commit
<1> QED BY <1>1, <1>2, <1>3, <1>4, <1>5, MoveCases DEF Actions

(* In SQLite the writer lock is only taken when it is free, or already held.   *)
LEMMA WriterKept ==
    ASSUME TypeOK, ~RowLocks, NEW r \in Requests, Claiming(r), Move(r),
           NEW q \in Requests, q # r, lock[WriterLock] = q
    PROVE  lock'[WriterLock] = q
<1> USE DEF TypeOK, Free, Taken, Released, ForUpdate, EndTx, Fail, Rollback, Conflict,
            Retry, ResolveExisting, Replay
<1>0. q # None /\ WriterLock \in Locks
  BY NoneAssumption DEF Locks
<1>1. CASE Receive(r) \/ BeginAttempt(r) \/ SelectRecord(r)
  BY <1>0, <1>1 DEF Receive, BeginAttempt, SelectRecord
<1>2. CASE InsertRecord(r) \/ Reoccupy(r)
  <2>1. lock[WriterLock] \in {None, r}
    BY <1>2 DEF InsertRecord, Reoccupy, MayWrite
  <2> QED BY <1>0, <2>1
<1>3. CASE RereadRecord(r) \/ SelectClaim(r) \/ ReuseDuplicate(r)
  BY <1>0, <1>3 DEF RereadRecord, SelectClaim, ReuseDuplicate
<1>4. CASE CreateAsset(r)
  <2>1. lock[WriterLock] = r
    BY <1>4 DEF CreateAsset, Claiming, Holding
  <2> QED BY <2>1
<1>5. CASE RejectOutcome(r) \/ Fault(r) \/ Crash(r) \/ Commit(r)
  BY <1>0, <1>5 DEF RejectOutcome, Fault, Crash, Commit
<1> QED BY <1>1, <1>2, <1>3, <1>4, <1>5, MoveCases DEF Actions

(* A transaction that commits writes its own asset: one that does not exist    *)
(* yet, or one that holds the content already.                                 *)
LEMMA Writes ==
    ASSUME ClaimInv, NEW r \in Requests, Own(r), Commit(r)
    PROVE  /\ tx[r].asset \in AssetIds /\ MyContent(r) \in ContentKeys
           /\ tx[r].new => assets[tx[r].asset] = None
           /\ ~tx[r].new => assets[tx[r].asset] = MyContent(r)
           /\ tx[r].sources \subseteq NewSources(r, tx[r].asset)
           /\ lock[RecordLock(MyScope(r))] = r
           /\ ~RowLocks => lock[WriterLock] = r
           /\ RowLocks /\ ~tx[r].new => lock[AssetLock(tx[r].asset)] = r
           /\ tx[r].new => claims[MyContent(r)] = None
<1>0. pc[r] = "commit" /\ pc[r] # "idle" /\ TypeInv
  BY DEF Commit, ClaimInv
<1>1. tx[r].asset \in AssetIds /\ MyContent(r) \in ContentKeys
  BY <1>0, OwnLocks DEF TypeInv, Bound
<1>2. tx[r].new => /\ assets[tx[r].asset] = None /\ claims[MyContent(r)] = None
  BY <1>0, <1>1 DEF ClaimInv, Pending, Unborn, Over, AssetIds
<1>3. WritesNew(r) \/ WritesReuse(r)
  BY <1>0 DEF Own, Writing
<1>4. tx[r].sources \subseteq NewSources(r, tx[r].asset)
  BY <1>3 DEF WritesNew, WritesReuse, MissingSources
<1>5. ~tx[r].new => assets[tx[r].asset] = MyContent(r)
  BY <1>1, <1>3, NoneAssumption DEF WritesNew, WritesReuse, ClaimInv, AssetsMatchClaims
<1>6. RowLocks /\ ~tx[r].new => lock[AssetLock(tx[r].asset)] = r
  BY <1>3 DEF WritesNew, WritesReuse
<1>7. lock[RecordLock(MyScope(r))] = r /\ (~RowLocks => lock[WriterLock] = r)
  BY <1>0 DEF Own, Claiming, Holding
<1> QED BY <1>1, <1>2, <1>4, <1>5, <1>6, <1>7

(* A commit of r leaves alone the record q holds, the claim q found and, of    *)
(* the asset q reuses, the sources.                                            *)
LEMMA CommitElsewhere ==
    ASSUME ClaimInv, NEW r \in Requests, Own(r), Commit(r),
           NEW q \in Requests, q # r, Own(q), pc[q] # "idle"
    PROVE  /\ lock[RecordLock(MyScope(q))] = q => idem'[MyScope(q)] = idem[MyScope(q)]
           /\ claims[MyContent(q)] # None => claims'[MyContent(q)] = claims[MyContent(q)]
           /\ pc[q] = "commit" /\ WritesReuse(q) =>
                  NewSources(q, tx[q].asset) \ sources' = MissingSources(q, tx[q].asset)
<1>0. TypeInv /\ AssetsMatchClaims
  BY DEF ClaimInv
<1>1. /\ MyScope(q) \in Scopes /\ MyContent(q) \in ContentKeys
  BY <1>0, OwnLocks
<1>2. lock[RecordLock(MyScope(q))] = q => idem'[MyScope(q)] = idem[MyScope(q)]
  <2>1. ASSUME lock[RecordLock(MyScope(q))] = q PROVE MyScope(q) # MyScope(r)
    BY <2>1, Writes
  <2> QED BY <1>0, <1>1, <2>1 DEF Commit, TypeInv, TypeOK
<1>3. claims[MyContent(q)] # None => claims'[MyContent(q)] = claims[MyContent(q)]
  <2>1. CASE tx[r].new
    <3>1. claims[MyContent(r)] = None /\ claims' = [claims EXCEPT ![MyContent(r)] = tx[r].asset]
      BY <2>1, Writes DEF Commit
    <3> QED BY <1>0, <1>1, <3>1 DEF TypeInv, TypeOK
  <2>2. CASE ~tx[r].new
    BY <2>2 DEF Commit
  <2> QED BY <2>1, <2>2
<1>4. ASSUME pc[q] = "commit", WritesReuse(q)
      PROVE  NewSources(q, tx[q].asset) \ sources' = MissingSources(q, tx[q].asset)
  <2>1. RowLocks
    BY <1>4, Writes DEF Own, Claiming, Holding
  <2>2. tx[q].asset \in AssetIds /\ assets[tx[q].asset] = MyContent(q)
    BY <1>0, <1>1, <1>4, NoneAssumption DEF TypeInv, Bound, WritesReuse, AssetsMatchClaims
  <2>3. tx[r].asset # tx[q].asset
    BY <1>1, <1>4, <2>1, <2>2, Writes, NoneAssumption DEF WritesReuse
  <2>4. tx[r].sources \cap NewSources(q, tx[q].asset) = {}
    BY <2>3, Writes DEF NewSources
  <2>5. sources' = sources \cup tx[r].sources
    BY DEF Commit
  <2> QED BY <2>4, <2>5 DEF MissingSources
<1> QED BY <1>2, <1>3, <1>4

(* What another request holds and is about to write survives a move of r.      *)
LEMMA OthersOwn ==
    ASSUME ClaimInv, TxInv, NEW r \in Requests, Move(r), NEW q \in Requests, q # r
    PROVE  Own(q)'
<1>0. TypeInv /\ TypeOK /\ Own(q) /\ Own(r)
  BY DEF ClaimInv, TypeInv, TxInv
<1>1. /\ pc'[q] = pc[q] /\ tx'[q] = tx[q] /\ command'[q] = command[q]
      /\ answer'[q] = answer[q] /\ now'[q] = now[q] /\ seen'[q] = seen[q] /\ clock' = clock
  BY <1>0, OthersStable, ReadingsStable
<1>2. Under(q)'
  BY <1>0, <1>1 DEF Own, Under
<1>3. CASE pc[q] = "idle"
  BY <1>1, <1>2, <1>3 DEF Own, Claiming, Sourced, Writing, Selected, Holding
<1>4. CASE pc[q] # "idle"
  <2>1. MyScope(q)' = MyScope(q) /\ MyContent(q)' = MyContent(q)
    BY <1>1 DEF MyScope, MyContent
  <2>2. /\ MyScope(q) \in Scopes /\ RecordLock(MyScope(q)) \in Locks
        /\ \A a \in AssetIds : AssetLock(a) \in Locks
    BY <1>0, <1>4, OwnLocks
  <2>3. lock[RecordLock(MyScope(q))] = q => lock'[RecordLock(MyScope(q))] = q
    <3>1. RecordLock(MyScope(q)) # WriterLock
      BY DEF RecordLock, WriterLock
    <3> QED BY <1>0, <2>2, <3>1, LocksKept
  <2>4. \A a \in AssetIds : lock[AssetLock(a)] = q => lock'[AssetLock(a)] = q
    <3>1. \A a : AssetLock(a) # WriterLock
      BY DEF AssetLock, WriterLock
    <3> QED BY <1>0, <2>2, <3>1, LocksKept
  <2>5. ~RowLocks /\ lock[WriterLock] = q => lock'[WriterLock] = q
    BY <1>0, WriterKept DEF Own
  <2>6. /\ lock[RecordLock(MyScope(q))] = q => idem'[MyScope(q)] = idem[MyScope(q)]
        /\ claims[MyContent(q)] # None => claims'[MyContent(q)] = claims[MyContent(q)]
        /\ pc[q] = "commit" /\ WritesReuse(q) =>
               NewSources(q, tx[q].asset) \ sources' = MissingSources(q, tx[q].asset)
    <3>1. CASE Commit(r)
      BY <1>0, <1>4, <3>1, CommitElsewhere
    <3>2. CASE Actions(r)
      BY <3>2, TablesStable DEF MissingSources
    <3> QED BY <3>1, <3>2, MoveCases
  <2>7. Claiming(q)' /\ (pc[q] \in Holding => NewRow(q)' = NewRow(q))
    <3>1. ASSUME pc[q] \in Holding PROVE idem'[MyScope(q)] = idem[MyScope(q)]
      BY <1>0, <2>6, <3>1 DEF Own, Claiming
    <3>2. pc[q] \in Holding => NewRow(q)' = NewRow(q)
      BY <1>1, <2>1, <3>1 DEF NewRow, NextGenOf
    <3> QED BY <1>0, <1>1, <2>1, <2>3, <2>5, <3>1, <3>2 DEF Own, Claiming, Vacant
  <2>8. Sourced(q)'
    <3>1. pc[q] = "reuse" => tx[q].asset \in AssetIds
      BY <1>0 DEF TypeInv, Bound
    <3> QED BY <1>0, <1>1, <2>1, <2>6, <3>1, NoneAssumption DEF Own, Sourced
  <2>9. Writing(q)'
    <3> SUFFICES ASSUME pc[q] = "commit" PROVE Writing(q)'
      BY <1>1 DEF Writing
    <3>1. tx'[q].row = Completed(NewRow(q)', tx'[q].asset, tx'[q].new)
      BY <1>0, <1>1, <2>7 DEF Own, Writing, Holding
    <3>2. CASE WritesNew(q)
      <4>1. WritesNew(q)'
        BY <1>1, <3>2 DEF WritesNew, NewSources
      <4> QED BY <3>1, <4>1 DEF Writing
    <3>3. CASE WritesReuse(q)
      <4>1. tx[q].asset \in AssetIds
        BY <1>0 DEF TypeInv, Bound
      <4>2. /\ ~tx'[q].new /\ tx'[q].outcome = "exact_duplicate_reused"
            /\ tx'[q].asset = claims'[MyContent(q)']
            /\ RowLocks => lock'[AssetLock(tx'[q].asset)] = q
        BY <1>1, <2>1, <2>4, <2>6, <3>3, <4>1, NoneAssumption DEF WritesReuse
      <4>3. tx'[q].sources = MissingSources(q, tx[q].asset)'
        BY <1>1, <2>6, <3>3 DEF WritesReuse, MissingSources, NewSources
      <4>4. tx'[q].audits = ReuseEvents(tx'[q].asset, command'[q], tx'[q].row.gen, q,
                                        tx'[q].sources # {})
        BY <1>1, <3>3 DEF WritesReuse
      <4>5. WritesReuse(q)'
        BY <4>2, <4>3, <4>4 DEF WritesReuse
      <4> QED BY <3>1, <4>5 DEF Writing
    <3> QED BY <1>0, <3>2, <3>3 DEF Own, Writing
  <2>10. Selected(q)'
    BY <1>0, <1>1, <2>1, <2>3, <2>6 DEF Own, Selected
  <2> QED BY <1>2, <2>7, <2>8, <2>9, <2>10 DEF Own
<1> QED BY <1>3, <1>4
-------------------------------------------------------------------------------
(* The invariant of the committed tables.                                      *)

(* The source identity a record's scope and print stand for.                   *)
IdentityOf(s, print) ==
    IF print[2] = Manual THEN <<"manual", s, print>> ELSE <<"requirement", print[2]>>

Decision(d, s, g, a, print) ==
    /\ d.event \in Decisions /\ d.scope = s /\ d.gen = g /\ d.asset = a
    /\ d.source = IdentityOf(s, print)

(* A record is complete, and an audit event tells of its decision.             *)
RecordWhole(s) ==
    idem[s] # None =>
        /\ idem[s].result # None
        /\ assets[idem[s].result.asset] = <<s[1], idem[s].print[1]>>
        /\ \E d \in audits : Decision(d, s, idem[s].gen, idem[s].result.asset, idem[s].print)

(* An audit event is of a generation its scope has reached, about a source     *)
(* that is there, by a request that was not answered with an error.            *)
Unfailed(r) == pc[r] \in Over /\ (answer[r] = None \/ Succeeded(r))

Audited(e) ==
    /\ idem[e.scope] # None /\ e.gen <= idem[e.scope].gen
    /\ <<e.asset, e.source>> \in sources
    /\ Unfailed(e.by)

(* A successful answer names an asset with the requested content and repeats   *)
(* the decision of a generation of the scope.                                  *)
Answered(r) ==
    Succeeded(r) =>
        /\ assets[answer[r].asset] = MyContent(r)
        /\ \E d \in audits : Decision(d, MyScope(r), answer[r].gen, answer[r].asset,
                                      RequestPrint(command[r]))

Births == \A a \in AssetIds : assets[a] # None => Unfailed(a[1])
Rooted == \A src \in sources : assets[src[1]] # None

TablesInv ==
    /\ \A s \in Scopes : RecordWhole(s)
    /\ \A e \in audits : Audited(e)
    /\ Births
    /\ Rooted
    /\ \A r \in Requests : Answered(r)
    /\ OneDecisionPerGeneration
    /\ SourcesAudited

IntakeInv == ClaimInv /\ TxInv /\ TablesInv

(* The empty database satisfies it.                                            *)
LEMMA InitIntakeInv == Init => IntakeInv
<1> SUFFICES ASSUME Init PROVE IntakeInv
  OBVIOUS
<1>1. TxInv
  <2>1. \A r \in Requests : pc[r] = "idle" /\ now[r] = 0 /\ answer[r] = None /\ clock = 0
    BY DEF Init
  <2>2. \A r \in Requests : Claiming(r) /\ Sourced(r) /\ Writing(r) /\ Selected(r)
    BY <2>1 DEF Claiming, Sourced, Writing, Selected, Holding
  <2>3. \A r \in Requests : Under(r)
    <3> TAKE r \in Requests
    <3>1. 0 <= 0
      OBVIOUS
    <3>2. now[r] = 0 /\ clock = 0 /\ pc[r] = "idle" /\ answer[r] = None
      BY <2>1
    <3>3. now[r] <= clock
      BY <3>1, <3>2
    <3> QED BY <3>2, <3>3 DEF Under
  <2> QED BY <2>2, <2>3 DEF TxInv, Own
<1>2. TablesInv
  BY DEF Init, TablesInv, RecordWhole, Births, Rooted, Answered, Succeeded,
         OneDecisionPerGeneration, SourcesAudited, Announcements
<1> QED BY <1>1, <1>2, InitClaimInv DEF IntakeInv

(* The source of a command is the one its scope and print stand for.           *)
LEMMA CommandIdentity ==
    ASSUME NEW c
    PROVE  /\ SourceIdentity(c) = IdentityOf(Scope(c), RequestPrint(c))
           /\ ContentKey(c) = <<Scope(c)[1], RequestPrint(c)[1]>>
BY DEF SourceIdentity, IdentityOf, RequestPrint, Scope, ContentKey

(* The rows a commit writes.                                                   *)
LEMMA CommitWrites ==
    ASSUME IntakeInv, NEW r \in Requests, Commit(r)
    PROVE  LET s == MyScope(r)  a == tx[r].asset  g == NextGenOf(s)
               src == SourceIdentity(command[r])
           IN
           /\ s \in Scopes /\ a \in AssetIds /\ g \in Nat \ {0} /\ Vacant(s, now[r])
           /\ tx[r].row.gen = g
           /\ idem'[s] # None /\ idem'[s].gen = g /\ idem'[s].print = RequestPrint(command[r])
           /\ idem'[s].result # None /\ idem'[s].result.asset = a
           /\ \A t \in Scopes : t # s => idem'[t] = idem[t]
           /\ assets'[a] = MyContent(r) /\ assets'[a] # None
           /\ \A b \in AssetIds : b # a => assets'[b] = assets[b]
           /\ \A b \in AssetIds : assets[b] # None => assets'[b] = assets[b]
           /\ sources' = sources \cup {<<a, src>>}
           /\ audits' = audits \cup tx[r].audits
           /\ \A e \in tx[r].audits :
                 e.by = r /\ e.asset = a /\ e.scope = s /\ e.gen = g /\ e.source = src
<1> DEFINE s   == MyScope(r)
           a   == tx[r].asset
           g   == NextGenOf(s)
           src == SourceIdentity(command[r])
<1>0. /\ TypeInv /\ TypeOK /\ ClaimInv /\ Own(r) /\ pc[r] = "commit" /\ pc[r] # "idle"
      /\ TablesInv
  BY DEF IntakeInv, ClaimInv, TypeInv, TxInv, Commit
<1>1. s \in Scopes /\ a \in AssetIds /\ MyContent(r) \in ContentKeys
  BY <1>0, OwnLocks, Writes
<1>2. Vacant(s, now[r])
  BY <1>0 DEF Own, Claiming, Holding
<1>3. g \in Nat \ {0}
  <2>1. idem[s] \in Rows \cup {None}
    BY <1>0, <1>1 DEF TypeOK
  <2> QED BY <2>1 DEF NextGenOf, Rows
<1>4. /\ tx[r].row.gen = g /\ tx[r].row.print = RequestPrint(command[r])
      /\ tx[r].row.result # None /\ tx[r].row.result.asset = a
  <2>1. tx[r].row = Completed(NewRow(r), a, tx[r].new)
    BY <1>0 DEF Own, Writing
  <2>2. tx[r].row \in Rows
    BY <1>0 DEF TypeInv, Bound
  <2>3. NewRow(r) = [print |-> RequestPrint(command[r]), expires |-> now[r] + Retention,
                     gen |-> g, result |-> None]
    BY DEF NewRow, FreshRow
  <2>4. tx[r].row.result = [asset |-> a, created |-> tx[r].new]
    BY <2>1, <2>3 DEF Completed
  <2>5. tx[r].row.gen = g /\ tx[r].row.print = RequestPrint(command[r])
    BY <2>1, <2>3 DEF Completed
  <2>6. tx[r].new \in BOOLEAN
    BY <1>0 DEF TypeOK, Transactions
  <2>7. [asset |-> a, created |-> tx[r].new] \in Results
    BY <1>1, <2>6 DEF Results
  <2> QED BY <2>4, <2>5, <2>7, NoneAssumption
<1>5. /\ idem'[s] = tx[r].row /\ idem'[s] # None
      /\ \A t \in Scopes : t # s => idem'[t] = idem[t]
  <2>1. tx[r].row \in Rows
    BY <1>0 DEF TypeInv, Bound
  <2> QED BY <1>0, <1>1, <2>1, NoneAssumption DEF Commit, TypeOK
<1>6. /\ assets'[a] = MyContent(r)
      /\ \A b \in AssetIds : b # a => assets'[b] = assets[b]
      /\ \A b \in AssetIds : assets[b] # None => assets'[b] = assets[b]
  <2>1. CASE tx[r].new
    <3>1. assets' = [assets EXCEPT ![a] = MyContent(r)] /\ assets[a] = None
      BY <1>0, <2>1, Writes DEF Commit
    <3> QED BY <1>0, <1>1, <3>1 DEF TypeOK
  <2>2. CASE ~tx[r].new
    BY <1>0, <2>2, Writes DEF Commit
  <2> QED BY <2>1, <2>2
<1>7. MyContent(r) # None
  BY <1>1, NoneAssumption
<1>8. WritesNew(r) \/ WritesReuse(r)
  BY <1>0 DEF Own, Writing
<1>9. sources' = sources \cup {<<a, src>>}
  <2>1. sources' = sources \cup tx[r].sources
    BY DEF Commit
  <2> QED BY <1>8, <2>1 DEF WritesNew, WritesReuse, MissingSources, NewSources
<1>10. audits' = audits \cup tx[r].audits
  BY DEF Commit
<1>11. \A e \in tx[r].audits :
           e.by = r /\ e.asset = a /\ e.scope = s /\ e.gen = tx[r].row.gen /\ e.source = src
  BY <1>8 DEF WritesNew, WritesReuse, ReuseEvents, Audit, MyScope
<1> QED BY <1>1, <1>2, <1>3, <1>4, <1>5, <1>6, <1>7, <1>9, <1>10, <1>11

(* Of the audit events it writes, one tells the decision; one announces the    *)
(* source exactly when the source is new.                                      *)
LEMMA CommitEvents ==
    ASSUME IntakeInv, NEW r \in Requests, Commit(r)
    PROVE  LET pair == <<tx[r].asset, SourceIdentity(command[r])>>
               Tells(d) == d.event \in {"asset_created", "source_added"}
           IN
           /\ \E d \in tx[r].audits : d.event \in Decisions
           /\ \A d, e \in tx[r].audits : {d.event, e.event} \subseteq Decisions => d = e
           /\ pair \in sources => \A d \in tx[r].audits : ~Tells(d)
           /\ pair \notin sources => \E d \in tx[r].audits : Tells(d)
           /\ \A d, e \in tx[r].audits : Tells(d) /\ Tells(e) => d = e
<1> DEFINE a    == tx[r].asset
           pair == <<a, SourceIdentity(command[r])>>
<1>0. ClaimInv /\ Own(r) /\ TablesInv
  BY DEF IntakeInv, TxInv
<1>1. WritesNew(r) \/ WritesReuse(r)
  BY <1>0 DEF Own, Writing, Commit
<1>2. CASE WritesNew(r)
  <2>1. pair \notin sources
    <3>1. assets[a] = None
      BY <1>0, <1>2, Writes DEF WritesNew
    <3> QED BY <1>0, <3>1 DEF TablesInv, Rooted
  <2>2. \A d \in tx[r].audits :
            d = Audit("asset_created", a, command[r], tx[r].row.gen, r)
            /\ d.event = "asset_created"
    BY <1>2 DEF WritesNew, Audit
  <2>3. Audit("asset_created", a, command[r], tx[r].row.gen, r) \in tx[r].audits
    BY <1>2 DEF WritesNew
  <2> QED BY <2>1, <2>2, <2>3 DEF Decisions
<1>3. CASE WritesReuse(r)
  <2> DEFINE reused == Audit("exact_duplicate_reused", a, command[r], tx[r].row.gen, r)
             added  == Audit("source_added", a, command[r], tx[r].row.gen, r)
  <2>1. tx[r].audits = {reused} \cup (IF pair \in sources THEN {} ELSE {added})
    BY <1>3 DEF WritesReuse, ReuseEvents, MissingSources, NewSources
  <2>2. reused.event = "exact_duplicate_reused" /\ added.event = "source_added"
    BY DEF Audit
  <2> HIDE DEF reused, added, pair
  <2> QED BY <2>1, <2>2 DEF Decisions, pair
<1> QED BY <1>1, <1>2, <1>3

(* Committing keeps the tables consistent.                                     *)
LEMMA CommitTables ==
    ASSUME IntakeInv, TypeInv', NEW r \in Requests, Commit(r)
    PROVE  TablesInv'
<1> DEFINE s    == MyScope(r)
           a    == tx[r].asset
           g    == NextGenOf(s)
           src  == SourceIdentity(command[r])
           Tells(d) == d.event \in {"asset_created", "source_added"}
<1>0. /\ ClaimInv /\ TypeInv /\ TypeOK /\ TablesInv /\ Own(r) /\ Move(r)
      /\ pc[r] = "commit" /\ pc[r] \notin Over /\ answer[r] = None /\ command' = command
  BY DEF IntakeInv, ClaimInv, TypeInv, TxInv, Commit, Move, Step, Own, Under, Over
<1>1. /\ s \in Scopes /\ a \in AssetIds /\ g \in Nat \ {0} /\ Vacant(s, now[r])
      /\ tx[r].row.gen = g
      /\ idem'[s] # None /\ idem'[s].gen = g /\ idem'[s].print = RequestPrint(command[r])
      /\ idem'[s].result # None /\ idem'[s].result.asset = a
      /\ \A t \in Scopes : t # s => idem'[t] = idem[t]
      /\ assets'[a] = MyContent(r) /\ assets'[a] # None
      /\ \A b \in AssetIds : b # a => assets'[b] = assets[b]
      /\ \A b \in AssetIds : assets[b] # None => assets'[b] = assets[b]
      /\ sources' = sources \cup {<<a, src>>}
      /\ audits' = audits \cup tx[r].audits
      /\ \A e \in tx[r].audits :
            e.by = r /\ e.asset = a /\ e.scope = s /\ e.gen = g /\ e.source = src
  BY CommitWrites
<1>2. /\ \E d \in tx[r].audits : d.event \in Decisions
      /\ \A d, e \in tx[r].audits : {d.event, e.event} \subseteq Decisions => d = e
      /\ <<a, src>> \in sources => \A d \in tx[r].audits : ~Tells(d)
      /\ <<a, src>> \notin sources => \E d \in tx[r].audits : Tells(d)
      /\ \A d, e \in tx[r].audits : Tells(d) /\ Tells(e) => d = e
  BY CommitEvents
<1>3. /\ src = IdentityOf(s, RequestPrint(command[r]))
      /\ MyContent(r) = <<s[1], RequestPrint(command[r])[1]>>
  BY CommandIdentity DEF MyScope, MyContent
<1>4. /\ pc'[r] \in Over
      /\ \/ answer'[r] = None
         \/ /\ answer'[r].outcome \in Successes /\ answer'[r].asset = a
            /\ answer'[r].gen = g
  <2>1. tx[r].outcome \in Successes
    BY <1>0 DEF TypeInv, Bound
  <2> QED BY <1>0, <1>1, <2>1 DEF Commit, Goto, TypeOK, Over
<1>5. \A q \in Requests : q # r =>
          pc'[q] = pc[q] /\ answer'[q] = answer[q] /\ command'[q] = command[q]
  BY <1>0, OthersStable
<1>6. \E d \in audits' : Decision(d, s, g, a, RequestPrint(command[r]))
  BY <1>1, <1>2, <1>3 DEF Decision
<1>7. \A b \in AssetIds, k \in ContentKeys : assets[b] = k => assets'[b] = k
  BY <1>1, NoneAssumption
<1>8. audits \subseteq audits' /\ audits \subseteq Audits /\ sources \subseteq AssetIds \X Identities
  BY <1>0, <1>1 DEF TypeOK
<1>9. idem[s] # None => idem[s].gen < g /\ idem[s].gen \in Nat
  <2>1. idem[s] # None => idem[s] \in Rows
    BY <1>0, <1>1 DEF TypeOK
  <2> QED BY <2>1 DEF NextGenOf, Rows
<1> HIDE DEF s, a, g, src, Tells
<1>10. \A q \in Requests : Unfailed(q) => Unfailed(q)'
  BY <1>0, <1>5 DEF Unfailed, Succeeded
<1>11. Unfailed(r)'
  BY <1>4 DEF Unfailed, Succeeded
<1>12. \A t \in Scopes : RecordWhole(t)'
  <2> TAKE t \in Scopes
  <2>1. CASE t = s
    BY <1>1, <1>3, <1>6, <2>1 DEF RecordWhole
  <2>2. CASE t # s
    <3> SUFFICES ASSUME idem[t] # None PROVE RecordWhole(t)'
      BY <1>1, <2>2 DEF RecordWhole
    <3>1. idem'[t] = idem[t] /\ idem[t] \in Rows
      BY <1>0, <1>1, <2>2 DEF TypeOK
    <3>2. RecordWhole(t)
      BY <1>0 DEF TablesInv
    <3>3. idem[t].result.asset \in AssetIds /\ <<t[1], idem[t].print[1]>> \in ContentKeys
      BY <3>1, <3>2 DEF RecordWhole, Rows, Results, Prints, Scopes, ContentKeys
    <3>4. assets'[idem[t].result.asset] = <<t[1], idem[t].print[1]>>
      BY <1>7, <3>2, <3>3 DEF RecordWhole
    <3> QED BY <1>8, <3>1, <3>2, <3>4 DEF RecordWhole
  <2> QED BY <2>1, <2>2
<1>13. \A e \in audits' : Audited(e)'
  <2> TAKE e \in audits'
  <2>1. CASE e \in audits
    <3>1. Audited(e) /\ e.scope \in Scopes /\ e.by \in Requests /\ e.gen \in Nat
      BY <1>0, <1>8, <2>1 DEF TablesInv, Audits
    <3>2. Unfailed(e.by)'
      BY <1>10, <3>1 DEF Audited
    <3>3. idem'[e.scope] # None /\ e.gen <= idem'[e.scope].gen
      BY <1>1, <1>9, <3>1 DEF Audited
    <3> QED BY <1>1, <3>1, <3>2, <3>3 DEF Audited
  <2>2. CASE e \in tx[r].audits
    BY <1>1, <1>11, <2>2 DEF Audited
  <2> QED BY <1>1, <2>1, <2>2
<1>14. Births'
  <2> SUFFICES ASSUME NEW b \in AssetIds, assets'[b] # None PROVE Unfailed(b[1])'
    BY DEF Births
  <2>1. CASE assets[b] # None
    BY <1>0, <1>10, <2>1 DEF TablesInv, Births, AssetIds
  <2>2. CASE assets[b] = None
    <3>1. b = a /\ assets[a] = None
      BY <1>1, <2>2
    <3>2. a[1] = r
      BY <1>0, <1>1, <3>1, Writes, NoneAssumption DEF ClaimInv, Pending, a
    <3> QED BY <1>11, <3>1, <3>2
  <2> QED BY <2>1, <2>2
<1>15. Rooted'
  BY <1>0, <1>1, <1>8 DEF TablesInv, Rooted
<1>16. \A q \in Requests : Answered(q)'
  <2> TAKE q \in Requests
  <2>1. CASE q = r
    <3> SUFFICES ASSUME Succeeded(r)' PROVE Answered(r)'
      BY <2>1 DEF Answered
    <3>1. answer'[r].asset = a /\ answer'[r].gen = g
      BY <1>4 DEF Succeeded
    <3>2. MyContent(r)' = MyContent(r) /\ MyScope(r)' = s
      BY <1>0 DEF MyContent, MyScope, s
    <3> QED BY <1>0, <1>1, <1>6, <2>1, <3>1, <3>2 DEF Answered
  <2>2. CASE q # r
    <3> SUFFICES ASSUME Succeeded(q) PROVE Answered(q)'
      BY <1>5, <2>2 DEF Answered, Succeeded
    <3>1. Answered(q)
      BY <1>0 DEF TablesInv
    <3>2. answer[q].asset \in AssetIds
      BY <1>0 DEF TypeOK, Succeeded, Answers, Successes, Refusals
    <3>3. MyContent(q) \in ContentKeys
      <4>1. pc[q] # "idle"
        BY <1>0 DEF TxInv, IntakeInv, Own, Under, Succeeded, Over
      <4> QED BY <1>0, <4>1, OwnLocks
    <3>4. assets'[answer[q].asset] = MyContent(q)
      BY <1>7, <3>1, <3>2, <3>3 DEF Answered
    <3>5. MyContent(q)' = MyContent(q) /\ MyScope(q)' = MyScope(q)
      BY <1>0 DEF MyContent, MyScope
    <3> QED BY <1>0, <1>5, <1>8, <2>2, <3>1, <3>4, <3>5 DEF Answered
  <2> QED BY <2>1, <2>2
<1>17. OneDecisionPerGeneration'
  <2> SUFFICES ASSUME NEW d \in audits', NEW e \in audits',
                      {d.event, e.event} \subseteq Decisions, d.scope = e.scope, d.gen = e.gen
               PROVE  d = e
    BY DEF OneDecisionPerGeneration
  <2>1. \A f \in audits : ~(f.scope = s /\ f.gen = g)
    <3> SUFFICES ASSUME NEW f \in audits, f.scope = s, f.gen = g PROVE FALSE
      OBVIOUS
    <3>1. Audited(f)
      BY <1>0 DEF TablesInv
    <3> QED BY <1>1, <1>9, <3>1 DEF Audited
  <2>2. CASE d \in audits /\ e \in audits
    BY <1>0, <2>2 DEF TablesInv, OneDecisionPerGeneration
  <2>3. CASE d \in tx[r].audits /\ e \in tx[r].audits
    BY <1>2, <2>3
  <2>4. CASE d \in audits /\ e \in tx[r].audits
    BY <1>1, <2>1, <2>4
  <2>5. CASE d \in tx[r].audits /\ e \in audits
    BY <1>1, <2>1, <2>5
  <2> QED BY <1>1, <2>2, <2>3, <2>4, <2>5
<1>18. SourcesAudited'
  <2>1. \A e \in audits' : <<e.asset, e.source>> \in sources'
    BY <1>13 DEF Audited
  <2>2. ASSUME NEW p \in sources'
        PROVE  \E e \in Announcements' : /\ <<e.asset, e.source>> = p
                                         /\ \A d \in Announcements' : <<d.asset, d.source>> = p => d = e
    <3>1. Announcements' = Announcements \cup {d \in tx[r].audits : Tells(d)}
      BY <1>1 DEF Announcements, Tells
    <3>2. \A e \in Announcements : <<e.asset, e.source>> \in sources
      BY <1>0 DEF TablesInv, SourcesAudited, Announcements
    <3>3. CASE p \in sources
      <4>1. \A d \in tx[r].audits : Tells(d) => <<d.asset, d.source>> # p
        BY <1>1, <1>2, <3>3
      <4>2. PICK e \in Announcements : /\ <<e.asset, e.source>> = p
                                       /\ \A d \in Announcements : <<d.asset, d.source>> = p => d = e
        BY <1>0, <3>3 DEF TablesInv, SourcesAudited
      <4> QED BY <3>1, <4>1, <4>2
    <3>4. CASE p \notin sources
      <4>1. p = <<a, src>> /\ <<a, src>> \notin sources
        BY <1>1, <3>4
      <4>2. PICK e \in tx[r].audits : Tells(e)
        BY <1>2, <4>1
      <4>3. <<e.asset, e.source>> = p
        BY <1>1, <4>1
      <4> QED BY <1>2, <3>1, <3>2, <3>4, <4>2, <4>3
    <3> QED BY <3>3, <3>4
  <2> QED BY <2>1, <2>2 DEF SourcesAudited
<1> QED BY <1>12, <1>13, <1>14, <1>15, <1>16, <1>17, <1>18 DEF TablesInv

(* How a move that does not commit can end: the request goes on, dies, replays *)
(* the record of its scope, or is refused for a reason.                        *)
Replays(r) ==
    LET row == idem[MyScope(r)] IN
    /\ ~Vacant(MyScope(r), now[r]) /\ row.print = RequestPrint(command[r])
    /\ RecordIsSound(r, row) /\ Replay(r, row)

Refused(r) ==
    \/ Fail(r, "data_integrity_error")
    \/ Fail(r, "project_inactive") /\ command[r].project \notin ActiveProjects
    \/ /\ Fail(r, "idempotency_conflict") /\ ~Vacant(MyScope(r), now[r])
       /\ idem[MyScope(r)].print # RequestPrint(command[r])
    \/ /\ Fail(r, "source_scope_mismatch") /\ Vacant(MyScope(r), now[r])
       /\ ~Resolvable(command[r])

GoesOn(r) == pc'[r] \notin Over /\ UNCHANGED answer

(* Only its receipt moves a request that is idle.                              *)
LEMMA IdleGoesOn ==
    ASSUME TypeOK, NEW r \in Requests, Move(r), pc[r] = "idle"
    PROVE  GoesOn(r) /\ Receive(r)
<1>1. Receive(r)
  BY DEF Move, Step, BeginAttempt, SelectRecord, InsertRecord, Reoccupy, RereadRecord,
         SelectClaim, CreateAsset, ReuseDuplicate, Commit, RejectOutcome, Fault, Crash,
         Running, InTransaction
<1> QED BY <1>1 DEF Receive, GoesOn, Goto, TypeOK, Over

LEMMA ResolveEnds ==
    ASSUME NEW r, ResolveExisting(r, idem[MyScope(r)]), ~Vacant(MyScope(r), now[r])
    PROVE  Replays(r) \/ Refused(r)
BY DEF ResolveExisting, Replays, Refused

LEMMA ConflictEnds ==
    ASSUME TypeOK, NEW r \in Requests, NEW outcome, Conflict(r, outcome)
    PROVE  GoesOn(r) \/ Refused(r)
<1>1. Retry(r, outcome) => GoesOn(r)
  BY DEF Retry, GoesOn, Goto, TypeOK, Over
<1> QED BY <1>1 DEF Conflict, Refused

LEMMA ActionEnds ==
    ASSUME TypeOK, NEW r \in Requests, Own(r), Actions(r)
    PROVE  GoesOn(r) \/ Crash(r) \/ Replays(r) \/ Refused(r)
<1> USE DEF Goto
<1>1. CASE Receive(r)
  BY <1>1 DEF Receive, GoesOn, TypeOK, Over
<1>2. CASE BeginAttempt(r)
  BY <1>2 DEF BeginAttempt, GoesOn, Refused, TypeOK, Over
<1>3. CASE SelectRecord(r)
  <2>1. CASE idem[MyScope(r)] # None /\ ~Expired(idem[MyScope(r)], now[r])
    BY <1>3, <2>1, ResolveEnds DEF SelectRecord, Vacant
  <2>2. CASE ~(idem[MyScope(r)] # None /\ ~Expired(idem[MyScope(r)], now[r]))
    BY <1>3, <2>2 DEF SelectRecord, GoesOn, TypeOK, Over
  <2> QED BY <2>1, <2>2
<1>4. CASE InsertRecord(r)
  <2>1. CASE HoldRecord(r, 1)
    BY <2>1 DEF HoldRecord, GoesOn, TypeOK, Over
  <2> QED BY <1>4, <2>1, ConflictEnds DEF InsertRecord
<1>5. CASE Reoccupy(r)
  BY <1>5 DEF Reoccupy, HoldRecord, GoesOn, TypeOK, Over
<1>6. CASE RereadRecord(r)
  BY <1>6, ResolveEnds DEF RereadRecord, Vacant, Refused
<1>7. CASE SelectClaim(r)
  <2>1. CASE Fail(r, "source_scope_mismatch") /\ ~Resolvable(command[r])
    BY <1>7, <2>1 DEF SelectClaim, Refused, Own, Claiming, Holding
  <2>2. CASE Resolvable(command[r])
    BY <1>7, <2>2 DEF SelectClaim, GoesOn, TypeOK, Over
  <2> QED BY <1>7, <2>1, <2>2 DEF SelectClaim
<1>8. CASE CreateAsset(r)
  <2>1. CASE Conflict(r, "exact_duplicate_reused")
    BY <2>1, ConflictEnds
  <2>2. CASE ~Conflict(r, "exact_duplicate_reused")
    BY <1>8, <2>2 DEF CreateAsset, Complete, GoesOn, TypeOK, Over
  <2> QED BY <2>1, <2>2
<1>9. CASE ReuseDuplicate(r)
  BY <1>9 DEF ReuseDuplicate, Complete, GoesOn, Refused, TypeOK, Over
<1>10. CASE RejectOutcome(r) \/ Fault(r)
  BY <1>10 DEF RejectOutcome, Fault, Refused
<1> QED BY <1>1, <1>2, <1>3, <1>4, <1>5, <1>6, <1>7, <1>8, <1>9, <1>10 DEF Actions

(* A refusal is no success.                                                    *)
LEMMA RefusedFails ==
    ASSUME TypeOK, NEW r \in Requests, Refused(r)
    PROVE  ~Succeeded(r)'
<1>1. PICK code \in Refusals : Fail(r, code)
  BY DEF Refused, Refusals
<1>2. answer'[r] = [outcome |-> code]
  BY <1>1 DEF Fail, TypeOK
<1>3. answer'[r].outcome = code
  BY <1>2
<1> QED BY <1>3 DEF Succeeded, Successes, Refusals

(* What does not commit keeps the tables consistent, and an answer that it     *)
(* gives with success is that of the record.                                   *)
LEMMA ActionTables ==
    ASSUME IntakeInv, NEW r \in Requests, Actions(r), Move(r)
    PROVE  TablesInv'
<1>0. /\ TypeOK /\ TypeInv /\ TablesInv /\ Own(r) /\ pc[r] \notin Over /\ answer[r] = None
      /\ UNCHANGED <<idem, assets, claims, sources, audits>>
  BY TablesStable, MoverNotOver DEF IntakeInv, ClaimInv, TypeInv, TxInv, Own, Under
<1>1. \A q \in Requests : Unfailed(q) => Unfailed(q)'
  BY <1>0, OthersStable DEF Unfailed, Succeeded
<1>2. \A s \in Scopes : RecordWhole(s)'
  BY <1>0 DEF TablesInv, RecordWhole
<1>3. \A e \in audits' : Audited(e)'
  <2>1. \A e \in audits : e.by \in Requests
    BY <1>0 DEF TypeOK, Audits
  <2> QED BY <1>0, <1>1, <2>1 DEF TablesInv, Audited
<1>4. Births'
  BY <1>0, <1>1 DEF TablesInv, Births, AssetIds
<1>5. Rooted' /\ OneDecisionPerGeneration' /\ SourcesAudited'
  BY <1>0 DEF TablesInv, Rooted, OneDecisionPerGeneration, SourcesAudited, Announcements
<1>6. \A q \in Requests : Answered(q)'
  <2> TAKE q \in Requests
  <2>1. CASE q # r
    <3>1. command'[q] = command[q] /\ answer'[q] = answer[q] /\ Answered(q)
      BY <1>0, <2>1, OthersStable DEF TablesInv
    <3> QED BY <1>0, <3>1 DEF Answered, Succeeded, MyContent, MyScope
  <2>2. CASE q = r
    <3> SUFFICES ASSUME Succeeded(r)' PROVE Answered(r)'
      BY <2>2 DEF Answered
    <3>1. ~GoesOn(r) /\ ~Crash(r) /\ ~Refused(r)
      BY <1>0, RefusedFails DEF GoesOn, Crash, Succeeded
    <3>2. Replays(r)
      BY <1>0, <3>1, ActionEnds
    <3> DEFINE row == idem[MyScope(r)]
    <3>3. /\ row # None /\ row.print = RequestPrint(command[r])
          /\ assets[row.result.asset] = MyContent(r)
          /\ answer' = [answer EXCEPT ![r] = [outcome |-> "idempotency_replay",
                                              asset |-> row.result.asset, gen |-> row.gen]]
          /\ command' = command
      BY <3>2 DEF Replays, Vacant, RecordIsSound, Replay
    <3>4. answer'[r].asset = row.result.asset /\ answer'[r].gen = row.gen
      BY <1>0, <3>3 DEF TypeOK
    <3>5. MyScope(r) \in Scopes
      BY <1>0, <3>1, IdleGoesOn, OwnLocks
    <3>6. RecordWhole(MyScope(r))
      BY <1>0, <3>5 DEF TablesInv
    <3>7. MyContent(r)' = MyContent(r) /\ MyScope(r)' = MyScope(r)
      BY <3>3 DEF MyContent, MyScope
    <3> QED BY <1>0, <3>3, <3>4, <3>6, <3>7 DEF RecordWhole, Answered
  <2> QED BY <2>1, <2>2
<1> QED BY <1>2, <1>3, <1>4, <1>5, <1>6 DEF TablesInv

(* Every step keeps the invariant.                                             *)
LEMMA NextIntakeInv == IntakeInv /\ [Next]_vars => IntakeInv'
<1> SUFFICES ASSUME IntakeInv, [Next]_vars PROVE IntakeInv'
  OBVIOUS
<1>0. ClaimInv /\ TypeInv /\ TypeOK /\ TxInv /\ TablesInv
  BY DEF IntakeInv, ClaimInv, TypeInv
<1>1. ClaimInv' /\ TypeInv'
  BY <1>0, NextClaimInv, NextType
<1>2. ASSUME NEW r \in Requests, Move(r) PROVE IntakeInv'
  <2>1. TxInv'
    BY <1>0, <1>2, MoveOwn, OthersOwn DEF TxInv
  <2>2. TablesInv'
    BY <1>1, <1>2, MoveCases, CommitTables, ActionTables
  <2> QED BY <1>1, <2>1, <2>2 DEF IntakeInv
<1>3. CASE Tick \/ UNCHANGED vars
  <2>1. UNCHANGED <<idem, assets, claims, sources, audits, lock, pc, command, now, seen, tx, answer>>
        /\ clock' \in {clock, clock + 1}
    BY <1>3 DEF Tick, vars, tables, request
  <2>2. TxInv'
    <3> SUFFICES ASSUME NEW r \in Requests PROVE Own(r)'
      BY DEF TxInv
    <3>1. Own(r)
      BY <1>0 DEF TxInv
    <3>2. Under(r)'
      <4>1. now[r] \in Nat /\ clock \in Nat
        BY <1>0 DEF TypeOK
      <4> QED BY <2>1, <3>1, <4>1 DEF Own, Under
    <3>3. Claiming(r)' /\ Sourced(r)' /\ Selected(r)'
      BY <2>1, <3>1 DEF Own, Claiming, Sourced, Selected, Vacant, NewRow, NextGenOf,
                        MyScope, MyContent
    <3>4. Writing(r)'
      BY <2>1, <3>1 DEF Own, Writing, WritesNew, WritesReuse, NewRow, NextGenOf, MyScope,
                        MyContent, MissingSources, NewSources
    <3> QED BY <3>2, <3>3, <3>4 DEF Own
  <2>3. TablesInv'
    BY <1>0, <2>1 DEF TablesInv, RecordWhole, Audited, Unfailed, Births, Rooted, Answered,
                      Succeeded, MyScope, MyContent, OneDecisionPerGeneration,
                      SourcesAudited, Announcements
  <2> QED BY <1>1, <2>2, <2>3 DEF IntakeInv
<1> QED BY <1>2, <1>3, NextIsMove

LEMMA IntakeInvariant == Spec => []IntakeInv
BY InitIntakeInv, NextIntakeInv, PTL DEF Spec
-------------------------------------------------------------------------------
(* What the committed tables and the answers promise.                          *)

(* A committed idempotency record is complete and names an asset of its        *)
(* project with the content it was given, whoever reoccupied the scope.        *)
THEOREM RecordsAreReplayable == Spec => []CompletedRecordIsReplayable
<1>1. IntakeInv => CompletedRecordIsReplayable
  BY DEF IntakeInv, TablesInv, RecordWhole, CompletedRecordIsReplayable
<1> QED BY <1>1, IntakeInvariant, PTL

(* However many requests carry an idempotency key, each generation of its      *)
(* scope creates or reuses an asset once.                                      *)
THEOREM OneDecision == Spec => []OneDecisionPerGeneration
<1>1. IntakeInv => OneDecisionPerGeneration
  BY DEF IntakeInv, TablesInv
<1> QED BY <1>1, IntakeInvariant, PTL

(* Every source of an asset was announced by exactly one audit event, and no   *)
(* event announces a source that is not there.                                 *)
THEOREM SourcesAreAudited == Spec => []SourcesAudited
<1>1. IntakeInv => SourcesAudited
  BY DEF IntakeInv, TablesInv
<1> QED BY <1>1, IntakeInvariant, PTL

(* A request that was answered with an error left nothing in the tables.       *)
THEOREM NoTraceOfErrors == Spec => []ErrorsLeaveNoTrace
<1>1. IntakeInv => ErrorsLeaveNoTrace
  <2> SUFFICES ASSUME IntakeInv, NEW r \in Requests, answer[r] # None, ~Succeeded(r)
               PROVE  /\ \A e \in audits : e.by # r
                      /\ \A n \in Attempts : assets[<<r, n>>] = None
    BY DEF ErrorsLeaveNoTrace
  <2>1. \A e \in audits : e.by # r
    BY DEF IntakeInv, TablesInv, Audited, Unfailed
  <2>2. ASSUME NEW n \in Attempts PROVE assets[<<r, n>>] = None
    <3>1. <<r, n>> \in AssetIds
      BY DEF AssetIds
    <3> QED BY <3>1 DEF IntakeInv, TablesInv, Births, Unfailed
  <2> QED BY <2>1, <2>2
<1> QED BY <1>1, IntakeInvariant, PTL

(* Two callers answered within one generation of a scope sent the same request *)
(* and were given the same asset.                                              *)
THEOREM CallersAgree == Spec => []AnswersAgree
<1>1. IntakeInv => AnswersAgree
  <2> SUFFICES ASSUME IntakeInv, NEW q \in Requests, NEW r \in Requests,
                      Succeeded(q), Succeeded(r), MyScope(q) = MyScope(r),
                      answer[q].gen = answer[r].gen
               PROVE  /\ answer[q].asset = answer[r].asset
                      /\ RequestPrint(command[q]) = RequestPrint(command[r])
    BY DEF AnswersAgree
  <2> DEFINE pq == RequestPrint(command[q])
             pr == RequestPrint(command[r])
  <2>1. PICK d \in audits : Decision(d, MyScope(q), answer[q].gen, answer[q].asset, pq)
    BY DEF IntakeInv, TablesInv, Answered
  <2>2. PICK e \in audits : Decision(e, MyScope(r), answer[r].gen, answer[r].asset, pr)
    BY DEF IntakeInv, TablesInv, Answered
  <2>3. d = e
    BY <2>1, <2>2 DEF IntakeInv, TablesInv, OneDecisionPerGeneration, Decision
  <2>4. answer[q].asset = answer[r].asset
    BY <2>1, <2>2, <2>3 DEF Decision
  <2>5. IdentityOf(MyScope(q), pq) = IdentityOf(MyScope(r), pr)
    BY <2>1, <2>2, <2>3 DEF Decision
  <2>6. MyContent(q) = MyContent(r)
    BY <2>4 DEF IntakeInv, TablesInv, Answered
  <2>7. pq = <<command[q].content, command[q].source>>
        /\ pr = <<command[r].content, command[r].source>>
    BY DEF RequestPrint
  <2>8. command[q].content = command[r].content
    BY <2>6 DEF MyContent, ContentKey
  <2>9. command[q].source = command[r].source
    BY <2>5, <2>7 DEF IdentityOf
  <2> QED BY <2>4, <2>7, <2>8, <2>9
<1> QED BY <1>1, IntakeInvariant, PTL

(* An idempotency record never goes away and never changes, except that a      *)
(* commit claims the next generation once the record has expired.              *)
THEOREM OnlyReoccupied == Spec => RecordsOnlyReoccupied
<1> DEFINE Reoccupied ==
        \A s \in Scopes : idem[s] # None /\ idem'[s] # idem[s] =>
            /\ idem'[s] # None
            /\ idem'[s].gen = idem[s].gen + 1
            /\ Expired(idem[s], clock)
<1>1. IntakeInv /\ [Next]_vars => [Reoccupied]_vars
  <2> SUFFICES ASSUME IntakeInv, [Next]_vars, NEW s \in Scopes, idem[s] # None, idem'[s] # idem[s]
               PROVE  /\ idem'[s] # None
                      /\ idem'[s].gen = idem[s].gen + 1
                      /\ Expired(idem[s], clock)
    OBVIOUS
  <2>0. TypeOK /\ TypeInv /\ TxInv
    BY DEF IntakeInv, ClaimInv, TypeInv
  <2>1. PICK r \in Requests : Commit(r)
    BY NextIsMove, MoveCases, TablesStable DEF Tick, vars, tables
  <2>2. s = MyScope(r) /\ idem'[s] # None /\ idem'[s].gen = NextGenOf(s) /\ Vacant(s, now[r])
    BY <2>1, CommitWrites
  <2>3. now[r] <= clock /\ now[r] \in Nat /\ clock \in Nat
    BY <2>0 DEF TxInv, Own, Under, TypeOK
  <2>4. idem[s] \in Rows
    BY <2>0 DEF TypeOK
  <2>5. Expired(idem[s], clock)
    BY <2>2, <2>3, <2>4 DEF Vacant, Expired, Rows
  <2> QED BY <2>2, <2>5 DEF NextGenOf
<1> QED BY <1>1, IntakeInvariant, PTL DEF Spec, RecordsOnlyReoccupied

(* In PostgreSQL a first attempt never fails closed of itself: whatever other  *)
(* requests do, the record it selected is the one it reoccupies, a record it   *)
(* finds is sound and a claim it finds is reusable.                            *)
THEOREM NoFailureOfItself ==
    ASSUME RowLocks
    PROVE  Spec => FirstAttemptNeverFails
<1> DEFINE FailsLate ==
        \A r \in Requests :
            /\ Step(r) /\ answer'[r] # answer[r]
            /\ answer'[r].outcome = "data_integrity_error"
            => expected[r] # None
<1>1. IntakeInv => [FailsLate]_vars
  <2> SUFFICES ASSUME IntakeInv, NEW r \in Requests, Step(r), answer'[r] # answer[r],
                      answer'[r].outcome = "data_integrity_error", expected[r] = None
               PROVE  FALSE
    OBVIOUS
  <2>0. TypeOK /\ TypeInv /\ ClaimInv /\ TablesInv /\ Own(r) /\ Move(r)
    BY DEF IntakeInv, ClaimInv, TypeInv, TxInv, Move
  <2>1. ASSUME NEW code \in Refusals, Fail(r, code) PROVE code = "data_integrity_error"
    BY <2>0, <2>1 DEF Fail, TypeOK
  <2>2. ASSUME NEW row, Replay(r, row) PROVE FALSE
    BY <2>0, <2>2 DEF Replay, TypeOK
  <2>3. ASSUME NEW outcome, Conflict(r, outcome) PROVE FALSE
    BY <2>3 DEF Conflict, Retry
  <2>4. ASSUME ResolveExisting(r, idem[MyScope(r)]), idem[MyScope(r)] # None,
               MyScope(r) \in Scopes
        PROVE  FALSE
    <3>1. idem[MyScope(r)].print = RequestPrint(command[r])
      BY <2>1, <2>4 DEF ResolveExisting, Refusals
    <3>2. RecordIsSound(r, idem[MyScope(r)])
      BY <2>0, <2>4, <3>1, CommandIdentity
         DEF TablesInv, RecordWhole, RecordIsSound, MyContent, MyScope
    <3> QED BY <2>2, <2>4, <3>1, <3>2 DEF ResolveExisting, OutcomeAllowed
  <2>5. pc[r] # "idle" /\ MyScope(r) \in Scopes /\ MyContent(r) \in ContentKeys
    BY <2>0, IdleGoesOn, OwnLocks DEF GoesOn
  <2>6. CASE BeginAttempt(r)
    BY <2>1, <2>6 DEF BeginAttempt, Refusals
  <2>7. CASE SelectRecord(r)
    BY <2>4, <2>5, <2>7 DEF SelectRecord
  <2>8. CASE InsertRecord(r) \/ Reoccupy(r)
    BY <2>3, <2>8 DEF InsertRecord, Reoccupy, HoldRecord
  <2>9. CASE RereadRecord(r)
    BY <2>0, <2>9 DEF RereadRecord, Own, Selected
  <2>10. CASE SelectClaim(r)
    BY <2>1, <2>10 DEF SelectClaim, Refusals
  <2>11. CASE CreateAsset(r)
    BY <2>3, <2>11 DEF CreateAsset, Complete
  <2>12. CASE ReuseDuplicate(r)
    <3>1. tx[r].asset \in AssetIds /\ tx[r].asset = claims[MyContent(r)]
      BY <2>0, <2>12 DEF ReuseDuplicate, TypeInv, Bound, Own, Sourced
    <3>2. Reusable(r, tx[r].asset)
      BY <2>0, <2>5, <3>1, NoneAssumption DEF ClaimInv, AssetsMatchClaims, Reusable
    <3> QED BY <2>12, <3>2 DEF ReuseDuplicate, Complete
  <2>13. CASE Commit(r)
    <3>1. tx[r].outcome \in Successes
      BY <2>0, <2>13 DEF Commit, TypeInv, Bound
    <3> QED BY <2>0, <2>13, <3>1 DEF Commit, TypeOK, Successes
  <2>14. CASE RejectOutcome(r)
    BY <2>14 DEF RejectOutcome, OutcomeAllowed
  <2> QED BY <2>6, <2>7, <2>8, <2>9, <2>10, <2>11, <2>12, <2>13, <2>14 DEF Step
<1> QED BY <1>1, IntakeInvariant, PTL DEF FirstAttemptNeverFails
-------------------------------------------------------------------------------
(* The intake implements its contract.  OverSet is what the contract's over    *)
(* stands for.                                                                 *)
OverSet == {r \in Requests : pc[r] \in Over}

(* The contract computes the rows of the tables as the intake does.            *)
LEMMA SameData ==
    /\ \A c : /\ Contract!Scope(c) = Scope(c) /\ Contract!ContentKey(c) = ContentKey(c)
              /\ Contract!RequestPrint(c) = RequestPrint(c)
              /\ Contract!SourceIdentity(c) = SourceIdentity(c)
              /\ Contract!Resolvable(c) <=> Resolvable(c)
    /\ \A c, t, g : Contract!FreshRow(c, t, g) = FreshRow(c, t, g)
    /\ \A row, a, new : Contract!Completed(row, a, new) = Completed(row, a, new)
    /\ \A e, a, c, g, r : Contract!Audit(e, a, c, g, r) = Audit(e, a, c, g, r)
    /\ \A s, t : Contract!Claimable(s, t) <=> Vacant(s, t)
    /\ \A s : Contract!NextGen(s) = NextGenOf(s)
    /\ Contract!AssetIds = AssetIds
BY DEF Contract!Scope, Scope, Contract!ContentKey, ContentKey, Contract!RequestPrint,
       RequestPrint, Contract!SourceIdentity, SourceIdentity, Contract!Resolvable,
       Resolvable, Contract!FreshRow, FreshRow, Contract!Completed, Completed,
       Contract!Audit, Audit, Contract!Claimable, Vacant, Contract!Expired, Expired,
       Contract!NextGen, NextGenOf, Contract!AssetIds, AssetIds, Contract!Attempts, Attempts

LEMMA InitContract == Init => Contract!Init
BY DEF Init, Contract!Init, Over, Contract!Scopes, Scopes, Contract!AssetIds, AssetIds,
       Contract!Attempts, Attempts, Contract!ContentKeys, ContentKeys

(* A move that ends a request is the contract's finishing it ...               *)
LEMMA FinishContract ==
    ASSUME TypeOK, NEW r \in Requests, Move(r), pc'[r] \in Over
    PROVE  Contract!Finish(r)
<1>1. pc[r] \notin Over /\ clock' = clock
  BY MoverNotOver, ReadingsStable
<1>2. \A q \in Requests : q # r => pc'[q] = pc[q]
  BY OthersStable
<1>3. r \notin OverSet /\ OverSet' = OverSet \cup {r}
  BY <1>1, <1>2 DEF OverSet
<1> QED BY <1>1, <1>3 DEF Contract!Finish, OverSet

(* ... and one that does not is not seen by the contract.                      *)
LEMMA GoesOnContract ==
    ASSUME TypeOK, NEW r \in Requests, Move(r), Actions(r), GoesOn(r)
    PROVE  UNCHANGED Contract!vars
<1>1. pc[r] \notin Over /\ clock' = clock /\ UNCHANGED <<idem, assets, claims, sources, audits>>
  BY MoverNotOver, ReadingsStable, TablesStable
<1>2. \A q \in Requests : q # r => pc'[q] = pc[q]
  BY OthersStable
<1>3. OverSet' = OverSet
  BY <1>1, <1>2 DEF OverSet, GoesOn
<1> QED BY <1>1, <1>3 DEF GoesOn, Contract!vars, Contract!tables, OverSet

(* A refusal, and the death of the process, change nothing and are allowed.    *)
LEMMA RefuseContract ==
    ASSUME TypeOK, NEW r \in Requests, Actions(r), Refused(r) \/ Crash(r)
    PROVE  Contract!Refuse(r, command[r], now[r])
<1>1. UNCHANGED Contract!tables
  BY TablesStable DEF Contract!tables
<1>2. CASE Crash(r)
  BY <1>1, <1>2 DEF Crash, Contract!Refuse, Contract!Say
<1>3. CASE Refused(r)
  BY <1>1, <1>3, SameData DEF Refused, Fail, Contract!Refuse, Contract!Say, MyScope
<1> QED BY <1>2, <1>3

(* A replay gives the stored result of a record that is still valid.           *)
LEMMA ReplayContract ==
    ASSUME NEW r \in Requests, Actions(r), Replays(r)
    PROVE  Contract!Replay(r, command[r], now[r])
<1>1. UNCHANGED Contract!tables
  BY TablesStable DEF Contract!tables
<1> QED BY <1>1, SameData
        DEF Replays, Replay, Contract!Replay, Contract!Say, Contract!Reply, MyScope

(* A commit creates the asset of its content or shares it.                     *)
LEMMA CommitContract ==
    ASSUME IntakeInv, NEW r \in Requests, Commit(r)
    PROVE  \/ Contract!Create(r, command[r], now[r])
           \/ Contract!Reuse(r, command[r], now[r])
<1> DEFINE c == command[r]
           a == tx[r].asset
           g == NextGenOf(Scope(c))
           reply == [outcome |-> tx[r].outcome, asset |-> a, gen |-> g]
<1>0. /\ ClaimInv /\ Own(r) /\ TypeOK /\ pc[r] = "commit" /\ Resolvable(c)
      /\ MyScope(r) = Scope(c) /\ MyContent(r) = ContentKey(c) /\ a \in AssetIds
  BY Writes DEF IntakeInv, ClaimInv, TypeInv, TxInv, Commit, Own, Sourced, MyScope, MyContent
<1>1. Vacant(Scope(c), now[r]) /\ tx[r].row.gen = g
      /\ sources' = sources \cup {<<a, SourceIdentity(c)>>}
  BY <1>0, CommitWrites
<1>2. idem' = [idem EXCEPT ![Scope(c)] = Completed(FreshRow(c, now[r], g), a, tx[r].new)]
  BY <1>0 DEF Commit, Own, Writing, NewRow
<1>3. answer' \in {answer, [answer EXCEPT ![r] = reply]}
  BY <1>1 DEF Commit
<1>4. audits' = audits \cup tx[r].audits /\ tx[r].new \in BOOLEAN
  BY <1>0 DEF Commit, TypeOK, Transactions
<1>5. CASE WritesNew(r)
  <2>1. /\ tx[r].new = TRUE /\ claims[ContentKey(c)] = None /\ assets[a] = None
        /\ tx[r].audits = {Audit("asset_created", a, c, g, r)} /\ tx[r].outcome = "created"
    BY <1>0, <1>1, <1>4, <1>5, Writes DEF WritesNew
  <2>2. /\ assets' = [assets EXCEPT ![a] = ContentKey(c)]
        /\ claims' = [claims EXCEPT ![ContentKey(c)] = a]
    BY <1>0, <2>1 DEF Commit
  <2> HIDE DEF c, a, g
  <2>3. Contract!Record(c, now[r], a, TRUE)
    BY <1>2, <2>1, SameData DEF Contract!Record, g
  <2>4. Contract!Say(r, Contract!Reply("created", a, g))
    BY <1>3, <2>1 DEF Contract!Say, Contract!Reply
  <2>5. Contract!Create(r, c, now[r])
    BY <1>0, <1>1, <1>4, <2>1, <2>2, <2>3, <2>4, SameData DEF Contract!Create, g
  <2> QED BY <2>5 DEF c
<1>6. CASE WritesReuse(r)
  <2>1. /\ tx[r].new = FALSE /\ claims[ContentKey(c)] = a /\ a # None
        /\ tx[r].sources = {<<a, SourceIdentity(c)>>} \ sources
        /\ tx[r].audits = ReuseEvents(a, c, g, r, tx[r].sources # {})
        /\ tx[r].outcome = "exact_duplicate_reused"
    BY <1>0, <1>1, <1>4, <1>6, NoneAssumption DEF WritesReuse, MissingSources, NewSources
  <2>2. UNCHANGED <<assets, claims>>
    BY <2>1 DEF Commit
  <2>3. audits' = audits \cup {Audit("exact_duplicate_reused", a, c, g, r)}
                  \cup (IF <<a, SourceIdentity(c)>> \in sources THEN {}
                        ELSE {Audit("source_added", a, c, g, r)})
    <3>1. tx[r].sources # {} <=> <<a, SourceIdentity(c)>> \notin sources
      BY <2>1
    <3> QED BY <1>4, <2>1, <3>1 DEF ReuseEvents
  <2> HIDE DEF c, a, g
  <2>4. Contract!Record(c, now[r], a, FALSE)
    BY <1>2, <2>1, SameData DEF Contract!Record, g
  <2>5. Contract!Say(r, Contract!Reply("exact_duplicate_reused", a, g))
    BY <1>3, <2>1 DEF Contract!Say, Contract!Reply
  <2>6. Contract!Reuse(r, c, now[r])
    BY <1>0, <1>1, <2>1, <2>2, <2>3, <2>4, <2>5, SameData DEF Contract!Reuse, g
  <2> QED BY <2>6 DEF c
<1> QED BY <1>0, <1>5, <1>6 DEF Own, Writing

(* Every move is a step of the contract or is not seen by it.                  *)
LEMMA MoveContract ==
    ASSUME IntakeInv, NEW r \in Requests, Move(r)
    PROVE  Contract!Next \/ UNCHANGED Contract!vars
<1>0. TypeOK /\ Own(r)
  BY DEF IntakeInv, ClaimInv, TypeInv, TxInv
<1>1. CASE Actions(r) /\ GoesOn(r)
  BY <1>0, <1>1, GoesOnContract
<1>2. CASE Commit(r) \/ (Actions(r) /\ ~GoesOn(r))
  <2>1. pc[r] # "idle"
    BY <1>0, <1>2, IdleGoesOn DEF Commit
  <2>2. command[r] \in Commands /\ now[r] \in 0 .. clock
    BY <1>0, <2>1 DEF Own, Under, TypeOK
  <2>3. pc'[r] \in Over
    BY <1>0, <1>2, ActionEnds
       DEF Commit, Crash, Replays, Replay, Refused, Fail, Goto, TypeOK, Over
  <2>4. \/ Contract!Create(r, command[r], now[r]) \/ Contract!Reuse(r, command[r], now[r])
        \/ Contract!Replay(r, command[r], now[r]) \/ Contract!Refuse(r, command[r], now[r])
    BY <1>0, <1>2, ActionEnds, CommitContract, ReplayContract, RefuseContract
  <2>5. Contract!Finish(r)
    BY <1>0, <2>3, FinishContract
  <2> QED BY <2>2, <2>4, <2>5 DEF Contract!Next
<1> QED BY <1>1, <1>2, MoveCases

(* Seen through the committed tables and the answers, every request takes      *)
(* effect at one instant or not at all: locks, transactions, attempts and      *)
(* retries implement the contract, on PostgreSQL and on SQLite.                *)
THEOREM ImplementsContract == Spec => ContractSpec
<1>1. IntakeInv /\ [Next]_vars => [Contract!Next]_(Contract!vars)
  <2> SUFFICES ASSUME IntakeInv, [Next]_vars
               PROVE  Contract!Next \/ UNCHANGED Contract!vars
    OBVIOUS
  <2>1. CASE Tick
    BY <2>1 DEF Tick, tables, request, Contract!Next, Contract!Tick, Contract!tables
  <2>2. CASE UNCHANGED vars
    BY <2>2 DEF vars, tables, request, Contract!vars, Contract!tables
  <2>3. CASE \E r \in Requests : Move(r)
    BY <2>3, MoveContract
  <2> QED BY <2>1, <2>2, <2>3, NextIsMove
<1> QED BY <1>1, InitContract, IntakeInvariant, PTL DEF Spec, ContractSpec, Contract!Spec
===============================================================================
