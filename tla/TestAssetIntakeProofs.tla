------------------------ MODULE TestAssetIntakeProofs -------------------------
(* Proofs about TestAssetIntake, for any requests, projects, keys, contents    *)
(* and commands, for PostgreSQL and for SQLite.                                *)
EXTENDS TestAssetIntake, TLAPS

-------------------------------------------------------------------------------
(* What typing needs to know of a request beside TypeOK: where it stands tells *)
(* which of its columns are filled in.                                         *)
Bound(r) ==
    /\ pc[r] # "idle" => command[r] \in Command
    /\ pc[r] \in {"select_claim", "create", "reuse", "commit"} => tx[r].row \in Rows
    /\ pc[r] \in {"reuse", "commit"} => tx[r].asset \in AssetIds
    /\ pc[r] = "commit" => tx[r].outcome \in Successes

TypeInv == TypeOK /\ \A r \in Requests : Bound(r)

(* The keys, prints and identities of a command are those of the tables.       *)
LEMMA CommandTypes ==
    ASSUME NEW c \in Command
    PROVE  /\ Scope(c) \in Scopes
           /\ RequestPrint(c) \in Prints
           /\ ContentKey(c) \in ContentKeys
           /\ SourceIdentity(c) \in Identities
<1>1. c.project \in Projects /\ c.key \in Keys /\ c.content \in Contents /\ c.source \in Sources
  BY DEF Command
<1>2. Scope(c) \in Scopes /\ RequestPrint(c) \in Prints /\ ContentKey(c) \in ContentKeys
  BY <1>1 DEF Scope, RequestPrint, ContentKey, Scopes, Prints, ContentKeys
<1>3. SourceIdentity(c) \in Identities
  BY <1>1, <1>2 DEF SourceIdentity, Identities, Sources
<1> QED BY <1>2, <1>3

(* Taking and releasing locks leaves every lock with a request or nobody.      *)
LEMMA LockTypes ==
    ASSUME TypeOK, NEW r \in Requests, NEW ls
    PROVE  /\ Taken(ls, r) \in [Locks -> Requests \cup {None}]
           /\ Released(r) \in [Locks -> Requests \cup {None}]
BY DEF TypeOK, Taken, Released

(* A transaction that wrote nothing is a transaction.                          *)
LEMMA EmptyTxType == EmptyTx \in Transactions
BY DEF EmptyTx, Transactions

(* A new claim of a scope is an idempotency record.                            *)
LEMMA FreshRowType ==
    ASSUME NEW c \in Command, NEW t \in Nat, NEW g \in Nat \ {0}
    PROVE  FreshRow(c, t, g) \in Rows
BY CommandTypes, RetentionAssumption DEF FreshRow, Rows

(* Audit events are of their type.                                             *)
LEMMA AuditType ==
    ASSUME NEW e \in Decisions \cup {"source_added"}, NEW a \in AssetIds,
           NEW c \in Command, NEW g \in Nat \ {0}, NEW r \in Requests
    PROVE  Audit(e, a, c, g, r) \in Audits
BY CommandTypes DEF Audit, Audits

(* A transaction may write an idempotency record.                              *)
LEMMA RowWritten ==
    ASSUME NEW t \in Transactions, NEW row \in Rows
    PROVE  /\ [t EXCEPT !.row = row] \in Transactions
           /\ [t EXCEPT !.row = row].row = row
BY DEF Transactions

(* A transaction may write an asset.                                           *)
LEMMA AssetWritten ==
    ASSUME NEW t \in Transactions, NEW a \in AssetIds
    PROVE  /\ [t EXCEPT !.asset = a] \in Transactions
           /\ [t EXCEPT !.asset = a].asset = a
           /\ [t EXCEPT !.asset = a].row = t.row
<1>1. [t EXCEPT !.asset = a] \in Transactions
  BY DEF Transactions
<1>2. [t EXCEPT !.asset = a].asset = a /\ [t EXCEPT !.asset = a].row = t.row
  BY DEF Transactions
<1> QED BY <1>1, <1>2

(* The empty database satisfies the invariant.                                 *)
LEMMA InitTypeInv == Init => TypeInv
BY EmptyTxType DEF Init, TypeInv, TypeOK, Bound, tables, Running, Over

(* Failing keeps the types: the transaction is rolled back.                    *)
LEMMA FailType ==
    ASSUME TypeInv, NEW r \in Requests, NEW code \in Refusals, pc[r] # "idle", Fail(r, code)
    PROVE  TypeInv'
<1> USE DEF Fail, Rollback, EndTx, Goto, tables, TypeInv
<1>1. [outcome |-> code] \in Answers
  BY DEF Answers
<1>2. TypeOK'
  BY <1>1, LockTypes, EmptyTxType DEF TypeOK, Over
<1>3. \A q \in Requests : Bound(q)'
  BY DEF Bound, TypeOK
<1> QED BY <1>2, <1>3

(* So does losing a unique key, by retrying or by failing.                     *)
LEMMA ConflictType ==
    ASSUME TypeInv, NEW r \in Requests, NEW outcome \in Successes, pc[r] # "idle",
           Conflict(r, outcome)
    PROVE  TypeInv'
<1>1. CASE Retry(r, outcome)
  <2> USE DEF Retry, Rollback, EndTx, Goto, tables, TypeInv
  <2>1. TypeOK'
    BY <1>1, LockTypes, EmptyTxType DEF TypeOK, Running
  <2>2. \A q \in Requests : Bound(q)'
    BY <1>1 DEF Bound, TypeOK
  <2> QED BY <2>1, <2>2
<1>2. CASE Fail(r, "data_integrity_error")
  BY <1>2, FailType DEF Refusals
<1> QED BY <1>1, <1>2 DEF Conflict

(* Answering from a record somebody else wrote keeps the types.                *)
LEMMA ResolveType ==
    ASSUME TypeInv, NEW r \in Requests, NEW row \in Rows, pc[r] # "idle",
           ResolveExisting(r, row)
    PROVE  TypeInv'
<1>1. CASE Fail(r, "idempotency_conflict") \/ Fail(r, "data_integrity_error")
  BY <1>1, FailType DEF Refusals
<1>2. CASE RecordIsSound(r, row) /\ Replay(r, row)
  <2> USE DEF Replay, EndTx, Goto, tables, TypeInv
  <2>1. [outcome |-> "idempotency_replay", asset |-> row.result.asset, gen |-> row.gen]
            \in Answers
    BY <1>2 DEF RecordIsSound, Rows, Results, Answers, Successes
  <2>2. TypeOK'
    BY <1>2, <2>1, LockTypes, EmptyTxType DEF TypeOK, Over
  <2>3. \A q \in Requests : Bound(q)'
    BY <1>2 DEF Bound, TypeOK
  <2> QED BY <2>2, <2>3
<1> QED BY <1>1, <1>2 DEF ResolveExisting

(* Claiming a scope keeps the types.                                           *)
LEMMA HoldRecordType ==
    ASSUME TypeInv, NEW r \in Requests, NEW g \in Nat \ {0}, pc[r] # "idle",
           HoldRecord(r, g)
    PROVE  TypeInv'
<1> USE DEF HoldRecord, Goto, tables, TypeInv
<1>1. FreshRow(command[r], now[r], g) \in Rows
  BY FreshRowType DEF Bound, TypeOK
<1>2. [tx[r] EXCEPT !.row = FreshRow(command[r], now[r], g)] \in Transactions
  BY <1>1, RowWritten DEF TypeOK
<1>3. tx' = [tx EXCEPT ![r] = [tx[r] EXCEPT !.row = FreshRow(command[r], now[r], g)]]
  OBVIOUS
<1>4. TypeOK'
  BY <1>2, <1>3, LockTypes DEF TypeOK, Running, InTransaction
<1>5. [tx[r] EXCEPT !.row = FreshRow(command[r], now[r], g)].row \in Rows
  BY <1>1, RowWritten DEF TypeOK
<1>6. \A q \in Requests : Bound(q)'
  BY <1>3, <1>5 DEF Bound, TypeOK
<1> QED BY <1>4, <1>6

(* The last writes of a transaction keep the types.                            *)
LEMMA CompleteType ==
    ASSUME TypeInv, NEW r \in Requests, NEW a \in AssetIds, NEW new \in BOOLEAN,
           NEW srcs \in SUBSET (AssetIds \X Identities), NEW events \in SUBSET Audits,
           NEW outcome \in Successes, pc[r] # "idle", tx[r].row \in Rows,
           lock' \in [Locks -> Requests \cup {None}],
           Complete(r, a, new, srcs, events, outcome)
    PROVE  TypeInv'
<1> DEFINE T == [row |-> Completed(tx[r].row, a, new), asset |-> a, new |-> new,
                 sources |-> srcs, audits |-> events, outcome |-> outcome]
<1> USE DEF Complete, Goto, tables, TypeInv
<1>1. Completed(tx[r].row, a, new) \in Rows
  BY DEF Completed, Rows, Results
<1>2. T \in Transactions
  BY <1>1 DEF Transactions
<1>3. tx' = [tx EXCEPT ![r] = T]
  OBVIOUS
<1> HIDE DEF T
<1>4. TypeOK'
  BY <1>2, <1>3 DEF TypeOK, Running, InTransaction
<1>5. T.row \in Rows /\ T.asset = a /\ T.outcome \in Successes
  BY <1>1 DEF T
<1>6. \A q \in Requests : Bound(q)'
  BY <1>3, <1>5 DEF Bound, TypeOK
<1> QED BY <1>4, <1>6

(* Committing keeps the types.                                                 *)
LEMMA CommitType ==
    ASSUME TypeInv, NEW r \in Requests, Commit(r)
    PROVE  TypeInv'
<1> USE DEF TypeInv, tables
<1>1. /\ command[r] \in Command /\ MyScope(r) \in Scopes /\ MyContent(r) \in ContentKeys
      /\ tx[r].row \in Rows /\ tx[r].asset \in AssetIds /\ tx[r].outcome \in Successes
  BY CommandTypes DEF Commit, Bound, MyScope, MyContent
<1>2. tx[r] \in Transactions
  BY DEF TypeOK
<1>3. tx[r].sources \in SUBSET (AssetIds \X Identities) /\ tx[r].audits \in SUBSET Audits
  BY <1>2 DEF Transactions
<1>4. [outcome |-> tx[r].outcome, asset |-> tx[r].asset, gen |-> tx[r].row.gen] \in Answers
  BY <1>1 DEF Answers, Rows
<1>5. /\ idem' \in [Scopes -> Rows \cup {None}]
      /\ sources' \in SUBSET (AssetIds \X Identities)
      /\ audits' \in SUBSET Audits
  BY <1>1, <1>3 DEF Commit, TypeOK
<1>6. /\ assets' \in [AssetIds -> ContentKeys \cup {None}]
      /\ claims' \in [ContentKeys -> AssetIds \cup {None}]
  <2>1. CASE tx[r].new
    BY <1>1, <2>1 DEF Commit, TypeOK
  <2>2. CASE ~tx[r].new
    BY <2>2 DEF Commit, TypeOK
  <2> QED BY <2>1, <2>2
<1>7. /\ tx' \in [Requests -> Transactions] /\ seen' \in [Requests -> Rows \cup {None}]
      /\ lock' \in [Locks -> Requests \cup {None}]
  BY LockTypes, EmptyTxType DEF Commit, EndTx, TypeOK
<1>8. /\ pc' \in [Requests -> {"idle"} \cup Running \cup Over]
      /\ answer' \in [Requests -> Answers \cup {None}]
  BY <1>4 DEF Commit, TypeOK, Goto, Over
<1>9. TypeOK'
  BY <1>5, <1>6, <1>7, <1>8 DEF Commit, TypeOK
<1>10. \A q \in Requests : Bound(q)'
  BY DEF Commit, Bound, TypeOK, Goto, EndTx
<1> QED BY <1>9, <1>10

(* Every step of a request keeps the types.                                    *)
LEMMA StepType ==
    ASSUME TypeInv, NEW r \in Requests, Step(r)
    PROVE  TypeInv'
<1> USE DEF TypeInv, tables
<1>1. CASE BeginAttempt(r)
  <2>1. CASE Fail(r, "project_inactive")
    BY <1>1, <2>1, FailType DEF BeginAttempt, Refusals
  <2>2. CASE ~Fail(r, "project_inactive")
    <3>1. TypeOK'
      BY <1>1, <2>2 DEF BeginAttempt, TypeOK, Goto, Running, InTransaction
    <3>2. \A q \in Requests : Bound(q)'
      BY <1>1, <2>2 DEF BeginAttempt, Bound, TypeOK, Goto
    <3> QED BY <3>1, <3>2
  <2> QED BY <2>1, <2>2
<1>2. CASE SelectRecord(r)
  <2> DEFINE row == idem[MyScope(r)]
  <2>1. row \in Rows \cup {None}
    BY <1>2, CommandTypes DEF SelectRecord, TypeOK, Bound, MyScope
  <2>2. CASE row # None /\ ~Expired(row, now[r])
    BY <1>2, <2>1, <2>2, ResolveType DEF SelectRecord
  <2>3. CASE ~(row # None /\ ~Expired(row, now[r]))
    <3>1. lock' \in [Locks -> Requests \cup {None}]
      BY <1>2, <2>3, LockTypes DEF SelectRecord, ForUpdate, TypeOK
    <3>2. TypeOK'
      BY <1>2, <2>1, <2>3, <3>1 DEF SelectRecord, TypeOK, Goto, Running, InTransaction
    <3>3. \A q \in Requests : Bound(q)'
      BY <1>2, <2>3 DEF SelectRecord, Bound, TypeOK, Goto
    <3> QED BY <3>2, <3>3
  <2> QED BY <2>2, <2>3
<1>3. CASE InsertRecord(r)
  <2>1. CASE HoldRecord(r, 1)
    BY <1>3, <2>1, HoldRecordType DEF InsertRecord
  <2>2. CASE Conflict(r, "idempotency_replay")
    BY <1>3, <2>2, ConflictType DEF InsertRecord, Successes
  <2> QED BY <1>3, <2>1, <2>2 DEF InsertRecord
<1>4. CASE Reoccupy(r)
  <2> DEFINE row == idem[MyScope(r)]
  <2>1. row \in Rows \cup {None}
    BY <1>4, CommandTypes DEF Reoccupy, TypeOK, Bound, MyScope
  <2>2. CASE MayReoccupy(r, row)
    <3>1. NextGeneration(row) \in Nat \ {0}
      BY <2>1, <2>2 DEF MayReoccupy, NextGeneration, Rows
    <3> QED BY <1>4, <2>2, <3>1, HoldRecordType DEF Reoccupy
  <2>3. CASE ~MayReoccupy(r, row)
    <3>1. TypeOK'
      BY <1>4, <2>3, LockTypes DEF Reoccupy, TypeOK, Goto, Running, InTransaction
    <3>2. \A q \in Requests : Bound(q)'
      BY <1>4, <2>3 DEF Reoccupy, Bound, TypeOK, Goto
    <3> QED BY <3>1, <3>2
  <2> QED BY <2>2, <2>3
<1>5. CASE RereadRecord(r)
  <2>1. idem[MyScope(r)] \in Rows \cup {None}
    BY <1>5, CommandTypes DEF RereadRecord, TypeOK, Bound, MyScope
  <2> QED BY <1>5, <2>1, FailType, ResolveType DEF RereadRecord, Refusals
<1>6. CASE SelectClaim(r)
  <2> DEFINE k == MyContent(r)
  <2>1. k \in ContentKeys /\ claims[k] \in AssetIds \cup {None} /\ tx[r] \in Transactions
        /\ tx[r].row \in Rows
    BY <1>6, CommandTypes DEF SelectClaim, TypeOK, Bound, MyContent
  <2>2. CASE Fail(r, "source_scope_mismatch")
    BY <1>6, <2>2, FailType DEF SelectClaim, Refusals
  <2>3. CASE claims[k] = None /\ ~Fail(r, "source_scope_mismatch")
    <3>1. TypeOK'
      BY <1>6, <2>3 DEF SelectClaim, TypeOK, Goto, Running, InTransaction
    <3>2. \A q \in Requests : Bound(q)'
      BY <1>6, <2>3 DEF SelectClaim, Bound, TypeOK, Goto
    <3> QED BY <3>1, <3>2
  <2>4. CASE claims[k] # None /\ ~Fail(r, "source_scope_mismatch")
    <3> DEFINE T == [tx[r] EXCEPT !.asset = claims[k]]
    <3>1. T \in Transactions /\ T.asset \in AssetIds /\ T.row \in Rows
      BY <2>1, <2>4, AssetWritten
    <3>2. tx' = [tx EXCEPT ![r] = T]
      BY <1>6, <2>4 DEF SelectClaim
    <3> HIDE DEF T
    <3>3. lock' \in [Locks -> Requests \cup {None}]
      BY <1>6, <2>4, LockTypes DEF SelectClaim, ForUpdate, TypeOK
    <3>4. TypeOK'
      BY <1>6, <2>4, <3>1, <3>2, <3>3 DEF SelectClaim, TypeOK, Goto, Running, InTransaction
    <3>5. \A q \in Requests : Bound(q)'
      BY <1>6, <2>4, <3>1, <3>2 DEF SelectClaim, Bound, TypeOK, Goto
    <3> QED BY <3>4, <3>5
  <2> QED BY <2>2, <2>3, <2>4
<1>7. CASE CreateAsset(r)
  <2> DEFINE a   == NewAsset(r)
             src == NewSources(r, a)
             ev  == {Audit("asset_created", a, command[r], tx[r].row.gen, r)}
  <2>1. a \in AssetIds
    BY DEF NewAsset, AssetIds, Attempts
  <2>2. command[r] \in Command /\ tx[r].row \in Rows
    BY <1>7 DEF CreateAsset, Bound
  <2>3. CASE Conflict(r, "exact_duplicate_reused")
    BY <1>7, <2>3, ConflictType DEF CreateAsset, Successes
  <2>4. CASE Complete(r, a, TRUE, src, ev, "created")
             /\ lock' = Taken(WriteLocks(ClaimLock(MyContent(r))), r)
    <3>1. src \in SUBSET (AssetIds \X Identities)
      BY <2>1, <2>2, CommandTypes DEF NewSources
    <3>2. tx[r].row.gen \in Nat \ {0}
      BY <2>2 DEF Rows
    <3>3. ev \in SUBSET Audits
      BY <2>1, <2>2, <3>2, AuditType DEF Decisions
    <3>4. lock' \in [Locks -> Requests \cup {None}]
      BY <2>4, LockTypes
    <3>5. pc[r] # "idle" /\ "created" \in Successes /\ TRUE \in BOOLEAN
      BY <1>7 DEF CreateAsset, Successes
    <3> HIDE DEF a, src, ev
    <3> QED BY <2>1, <2>2, <2>4, <3>1, <3>3, <3>4, <3>5, CompleteType
  <2> QED BY <1>7, <2>3, <2>4 DEF CreateAsset
<1>8. CASE ReuseDuplicate(r)
  <2> DEFINE a   == tx[r].asset
             src == MissingSources(r, a)
             ev  == ReuseEvents(a, command[r], tx[r].row.gen, r, src # {})
  <2>1. a \in AssetIds /\ command[r] \in Command /\ tx[r].row \in Rows
    BY <1>8 DEF ReuseDuplicate, Bound
  <2>2. CASE Fail(r, "data_integrity_error")
    BY <1>8, <2>2, FailType DEF ReuseDuplicate, Refusals
  <2>3. CASE Complete(r, a, FALSE, src, ev, "exact_duplicate_reused")
             /\ ForUpdate(AssetLock(a), r)
    <3>1. src \in SUBSET (AssetIds \X Identities)
      BY <2>1, CommandTypes DEF MissingSources, NewSources
    <3>2. tx[r].row.gen \in Nat \ {0}
      BY <2>1 DEF Rows
    <3>3. ev \in SUBSET Audits
      BY <2>1, <3>2, AuditType DEF Decisions, ReuseEvents
    <3>4. lock' \in [Locks -> Requests \cup {None}]
      BY <2>3, LockTypes DEF ForUpdate, TypeOK
    <3>5. pc[r] # "idle" /\ "exact_duplicate_reused" \in Successes /\ FALSE \in BOOLEAN
      BY <1>8 DEF ReuseDuplicate, Successes
    <3> HIDE DEF a, src, ev
    <3> QED BY <2>1, <2>3, <3>1, <3>3, <3>4, <3>5, CompleteType
  <2> QED BY <1>8, <2>2, <2>3 DEF ReuseDuplicate
<1>9. CASE Commit(r)
  BY <1>9, CommitType
<1>10. CASE RejectOutcome(r)
  BY <1>10, FailType DEF RejectOutcome, Refusals
<1> QED BY <1>1, <1>2, <1>3, <1>4, <1>5, <1>6, <1>7, <1>8, <1>9, <1>10 DEF Step

(* Every step of the system keeps the types.                                   *)
LEMMA NextType == TypeInv /\ [Next]_vars => TypeInv'
<1> SUFFICES ASSUME TypeInv, [Next]_vars PROVE TypeInv'
  OBVIOUS
<1>1. ASSUME NEW r \in Requests, Receive(r) PROVE TypeInv'
  <2>1. TypeOK'
    BY <1>1, CommandAssumption DEF Receive, TypeInv, TypeOK, Goto, Running, tables
  <2>2. \A q \in Requests : Bound(q)'
    BY <1>1, CommandAssumption DEF Receive, TypeInv, TypeOK, Bound, Goto
  <2> QED BY <2>1, <2>2 DEF TypeInv
<1>2. ASSUME NEW r \in Requests, Step(r) PROVE TypeInv'
  BY <1>2, StepType
<1>3. ASSUME NEW r \in Requests, Fault(r) PROVE TypeInv'
  BY <1>3, FailType DEF Fault, Running, InTransaction, Refusals
<1>4. ASSUME NEW r \in Requests, Crash(r) PROVE TypeInv'
  <2> USE <1>4 DEF Crash, Rollback, EndTx, Goto, tables, TypeInv
  <2>1. TypeOK'
    BY LockTypes, EmptyTxType DEF TypeOK, Over
  <2>2. \A q \in Requests : Bound(q)'
    BY DEF Bound, TypeOK, Running, InTransaction
  <2> QED BY <2>1, <2>2
<1>5. CASE Tick
  BY <1>5 DEF Tick, TypeInv, TypeOK, Bound, tables, request
<1>6. CASE UNCHANGED vars
  BY <1>6 DEF vars, TypeInv, TypeOK, Bound, tables, request
<1> QED BY <1>1, <1>2, <1>3, <1>4, <1>5, <1>6 DEF Next, FaultFreeNext

(* Whatever requests arrive, the tables, the locks and the requests keep their *)
(* types; TypeInv also says which columns each stage of a request has filled.  *)
THEOREM TypeCorrect == Spec => []TypeOK
<1>1. TypeInv => TypeOK
  BY DEF TypeInv
<1> QED BY <1>1, InitTypeInv, NextType, PTL DEF Spec
-------------------------------------------------------------------------------
(* A move of one request: what it leaves alone, whichever action it is.        *)
Move(r) == Receive(r) \/ Step(r) \/ Fault(r) \/ Crash(r)

(* A step is a tick, a stutter or the move of one request.                     *)
LEMMA NextIsMove == [Next]_vars => Tick \/ UNCHANGED vars \/ \E r \in Requests : Move(r)
BY DEF Next, FaultFreeNext, Move

Actions(r) == \/ Receive(r) \/ BeginAttempt(r) \/ SelectRecord(r) \/ InsertRecord(r)
              \/ Reoccupy(r) \/ RereadRecord(r) \/ SelectClaim(r) \/ CreateAsset(r)
              \/ ReuseDuplicate(r) \/ RejectOutcome(r) \/ Fault(r) \/ Crash(r)

(* A move commits or is one of the actions below.                              *)
LEMMA MoveCases == \A r : Move(r) => Commit(r) \/ Actions(r)
BY DEF Move, Step, Actions

(* Only Commit touches the committed tables.                                   *)
LEMMA TablesStable ==
    ASSUME NEW r, Actions(r)
    PROVE  UNCHANGED <<idem, assets, claims, sources, audits>>
<1> USE DEF tables, Fail, Rollback, Conflict, Retry, ResolveExisting, Replay
<1>1. CASE Receive(r) \/ BeginAttempt(r) \/ SelectRecord(r)
  BY <1>1 DEF Receive, BeginAttempt, SelectRecord
<1>2. CASE InsertRecord(r) \/ Reoccupy(r) \/ RereadRecord(r)
  BY <1>2 DEF InsertRecord, Reoccupy, RereadRecord, HoldRecord
<1>3. CASE SelectClaim(r) \/ CreateAsset(r) \/ ReuseDuplicate(r)
  BY <1>3 DEF SelectClaim, CreateAsset, ReuseDuplicate, Complete
<1>4. CASE RejectOutcome(r) \/ Fault(r) \/ Crash(r)
  BY <1>4 DEF RejectOutcome, Fault, Crash
<1> QED BY <1>1, <1>2, <1>3, <1>4 DEF Actions

(* A move of r leaves the columns of the other requests alone.                 *)
LEMMA OthersStable ==
    ASSUME TypeOK, NEW r \in Requests, Move(r), NEW q \in Requests, q # r
    PROVE  /\ pc'[q] = pc[q] /\ tx'[q] = tx[q] /\ command'[q] = command[q]
           /\ answer'[q] = answer[q] /\ expected'[q] = expected[q]
<1> USE DEF TypeOK, Goto, EndTx, Fail, Rollback, Conflict, Retry, ResolveExisting, Replay
<1>1. CASE Receive(r) \/ BeginAttempt(r) \/ SelectRecord(r)
  BY <1>1 DEF Receive, BeginAttempt, SelectRecord
<1>2. CASE InsertRecord(r) \/ Reoccupy(r) \/ RereadRecord(r)
  BY <1>2 DEF InsertRecord, Reoccupy, RereadRecord, HoldRecord
<1>3. CASE SelectClaim(r) \/ CreateAsset(r) \/ ReuseDuplicate(r)
  BY <1>3 DEF SelectClaim, CreateAsset, ReuseDuplicate, Complete
<1>4. CASE RejectOutcome(r) \/ Fault(r) \/ Crash(r)
  BY <1>4 DEF RejectOutcome, Fault, Crash
<1>5. CASE Commit(r)
  BY <1>5 DEF Commit
<1> QED BY <1>1, <1>2, <1>3, <1>4, <1>5, MoveCases DEF Actions

(* No request takes a row or a unique key that another one holds.              *)
LEMMA LocksKept ==
    ASSUME TypeOK, NEW r \in Requests, Move(r), NEW q \in Requests, q # r,
           NEW l \in Locks, l # WriterLock, lock[l] = q
    PROVE  lock'[l] = q
<1> USE DEF TypeOK, Free, Taken, Released, WriteLocks, ForUpdate, EndTx, Fail,
            Rollback, Conflict, Retry, ResolveExisting, Replay
<1>0. q # None
  BY NoneAssumption
<1>1. CASE Receive(r) \/ BeginAttempt(r) \/ SelectRecord(r)
  BY <1>0, <1>1 DEF Receive, BeginAttempt, SelectRecord
<1>2. CASE InsertRecord(r) \/ Reoccupy(r) \/ RereadRecord(r)
  BY <1>0, <1>2 DEF InsertRecord, Reoccupy, RereadRecord, HoldRecord
<1>3. CASE SelectClaim(r) \/ CreateAsset(r) \/ ReuseDuplicate(r)
  <2>1. CASE SelectClaim(r)
    BY <1>0, <2>1 DEF SelectClaim
  <2>2. CASE CreateAsset(r)
    BY <1>0, <2>2 DEF CreateAsset
  <2>3. CASE ReuseDuplicate(r)
    BY <1>0, <2>3 DEF ReuseDuplicate
  <2> QED BY <1>3, <2>1, <2>2, <2>3
<1>4. CASE RejectOutcome(r) \/ Fault(r) \/ Crash(r)
  BY <1>0, <1>4 DEF RejectOutcome, Fault, Crash
<1>5. CASE Commit(r)
  BY <1>0, <1>5 DEF Commit
<1> QED BY <1>1, <1>2, <1>3, <1>4, <1>5, MoveCases DEF Actions
-------------------------------------------------------------------------------
(* Why no content gets two assets: a transaction that inserted an asset holds  *)
(* the unique key of its content claim until it ends, and that claim is not    *)
(* committed; the asset's own id belongs to a request that is not over.        *)
Pending(r) ==
    tx[r].new => /\ pc[r] = "commit"
                 /\ claims[MyContent(r)] = None
                 /\ lock[ClaimLock(MyContent(r))] = r
                 /\ tx[r].asset \in {r} \X Attempts

Unborn == \A a \in AssetIds : assets[a] # None => pc[a[1]] \in Over

ClaimInv ==
    /\ TypeInv
    /\ AssetsMatchClaims
    /\ Unborn
    /\ \A r \in Requests : Pending(r)

(* The empty database satisfies it.                                            *)
LEMMA InitClaimInv == Init => ClaimInv
BY InitTypeInv, NoneAssumption, CommandTypes
   DEF Init, ClaimInv, AssetsMatchClaims, Unborn, Pending, EmptyTx

(* Only CreateAsset puts a new asset into a transaction.                       *)
LEMMA NewlyPending ==
    ASSUME TypeInv, NEW r \in Requests, Pending(r), Actions(r), tx'[r].new
    PROVE  Pending(r)'
<1> USE DEF TypeInv, TypeOK, Goto, EndTx, EmptyTx, Fail, Rollback, Conflict, Retry,
            ResolveExisting, Replay, Pending
<1>1. tx[r] \in Transactions
  OBVIOUS
<1>2. CASE Receive(r) \/ BeginAttempt(r) \/ SelectRecord(r)
  BY <1>2 DEF Receive, BeginAttempt, SelectRecord
<1>3. CASE InsertRecord(r) \/ Reoccupy(r) \/ RereadRecord(r)
  BY <1>1, <1>3 DEF InsertRecord, Reoccupy, RereadRecord, HoldRecord, Transactions
<1>4. CASE SelectClaim(r)
  <2>1. CASE Fail(r, "source_scope_mismatch")
    BY <2>1
  <2>2. CASE claims[MyContent(r)] = None /\ ~Fail(r, "source_scope_mismatch")
    BY <1>4, <2>2 DEF SelectClaim
  <2>3. CASE claims[MyContent(r)] # None /\ ~Fail(r, "source_scope_mismatch")
    <3>1. [tx[r] EXCEPT !.asset = claims[MyContent(r)]].new = tx[r].new
      BY <1>1 DEF Transactions
    <3> QED BY <1>4, <2>3, <3>1 DEF SelectClaim
  <2> QED BY <2>1, <2>2, <2>3
<1>5. CASE ReuseDuplicate(r)
  <2>1. CASE Fail(r, "data_integrity_error")
    BY <2>1
  <2>2. CASE ~Fail(r, "data_integrity_error")
    <3> DEFINE src == MissingSources(r, tx[r].asset)
    <3>1. Complete(r, tx[r].asset, FALSE, src,
              ReuseEvents(tx[r].asset, command[r], tx[r].row.gen, r, src # {}),
              "exact_duplicate_reused")
      BY <1>5, <2>2 DEF ReuseDuplicate
    <3> HIDE DEF src
    <3>2. tx'[r].new = FALSE
      BY <3>1 DEF Complete
    <3> QED BY <3>2
  <2> QED BY <2>1, <2>2
<1>6. CASE CreateAsset(r)
  <2> DEFINE k == MyContent(r)
             a == NewAsset(r)
  <2>1. ~Conflict(r, "exact_duplicate_reused")
    OBVIOUS
  <2>2. /\ claims[k] = None /\ lock' = Taken(WriteLocks(ClaimLock(k)), r)
        /\ pc' = [pc EXCEPT ![r] = "commit"] /\ tx'[r].asset = a
        /\ command' = command /\ claims' = claims
    <3>1. claims[k] = None /\ lock' = Taken(WriteLocks(ClaimLock(k)), r)
      BY <1>6, <2>1 DEF CreateAsset
    <3>2. Complete(r, a, TRUE, NewSources(r, a),
              {Audit("asset_created", a, command[r], tx[r].row.gen, r)}, "created")
      BY <1>6, <2>1 DEF CreateAsset
    <3>3. pc' = [pc EXCEPT ![r] = "commit"] /\ command' = command /\ claims' = claims
      BY <3>2 DEF Complete, tables
    <3>4. tx'[r].asset = a
      BY <3>2 DEF Complete
    <3> QED BY <3>1, <3>3, <3>4
  <2>3. k \in ContentKeys /\ k' = k
    BY <1>6, <2>2, CommandTypes DEF CreateAsset, Bound, MyContent
  <2>4. ClaimLock(k) \in Locks /\ ClaimLock(k) \in WriteLocks(ClaimLock(k))
    BY <2>3 DEF Locks, WriteLocks
  <2>5. lock'[ClaimLock(k)] = r
    BY <2>2, <2>4 DEF Taken
  <2>6. a \in {r} \X Attempts
    BY DEF NewAsset, Attempts
  <2>7. pc'[r] = "commit"
    BY <2>2
  <2> QED BY <2>2, <2>3, <2>5, <2>6, <2>7
<1>7. CASE RejectOutcome(r) \/ Fault(r) \/ Crash(r)
  BY <1>7 DEF RejectOutcome, Fault, Crash
<1> QED BY <1>2, <1>3, <1>4, <1>5, <1>6, <1>7 DEF Actions

(* Committing keeps claims and assets one to one.                              *)
LEMMA CommitClaimInv ==
    ASSUME ClaimInv, NEW r \in Requests, Commit(r)
    PROVE  AssetsMatchClaims' /\ Unborn'
<1> USE DEF ClaimInv, TypeInv
<1>0. pc'[r] \in Over /\ \A q \in Requests : q # r => pc'[q] = pc[q]
  BY DEF Commit, Goto, TypeOK, Over
<1>1. CASE ~tx[r].new
  <2>1. assets' = assets /\ claims' = claims
    BY <1>1 DEF Commit
  <2> QED BY <1>0, <2>1 DEF AssetsMatchClaims, Unborn, AssetIds
<1>2. CASE tx[r].new
  <2> DEFINE k == MyContent(r)
             a == tx[r].asset
  <2>1. /\ a \in AssetIds /\ a[1] = r /\ k \in ContentKeys
        /\ claims[k] = None /\ pc[r] = "commit"
    BY <1>2, CommandTypes DEF Commit, Pending, AssetIds, Bound, MyContent
  <2>2. assets[a] = None
    BY <2>1 DEF Unborn, Over
  <2>3. assets' = [assets EXCEPT ![a] = k] /\ claims' = [claims EXCEPT ![k] = a]
    BY <1>2 DEF Commit
  <2> HIDE DEF k, a
  <2>4. AssetsMatchClaims'
    BY <2>1, <2>2, <2>3, NoneAssumption DEF AssetsMatchClaims, TypeOK
  <2>5. Unborn'
    BY <1>0, <2>1, <2>3 DEF Unborn, TypeOK, AssetIds
  <2> QED BY <2>4, <2>5
<1> QED BY <1>1, <1>2

(* No move disturbs a transaction that has inserted an asset: not its own      *)
(* request's, and not another's, which does not get the key.                   *)
LEMMA PendingKept ==
    ASSUME ClaimInv, TypeInv', NEW r \in Requests, Move(r), NEW q \in Requests
    PROVE  Pending(q)'
<1> SUFFICES ASSUME tx'[q].new PROVE Pending(q)'
  BY DEF Pending
<1> USE DEF ClaimInv, TypeInv
<1>1. CASE q = r
  <2>1. CASE Commit(r)
    BY <1>1, <2>1 DEF Commit, EndTx, EmptyTx, TypeOK
  <2> QED BY <1>1, <2>1, MoveCases, NewlyPending
<1>2. CASE q # r
  <2>1. /\ pc'[q] = pc[q] /\ tx'[q] = tx[q] /\ command'[q] = command[q]
    BY <1>2, OthersStable
  <2>2. /\ pc[q] = "commit" /\ claims[MyContent(q)] = None
        /\ lock[ClaimLock(MyContent(q))] = q /\ tx[q].asset \in {q} \X Attempts
    BY <2>1 DEF Pending
  <2>3. MyContent(q) \in ContentKeys /\ MyContent(q)' = MyContent(q)
    BY <2>1, <2>2, CommandTypes DEF Bound, MyContent
  <2>4. ClaimLock(MyContent(q)) \in Locks /\ ClaimLock(MyContent(q)) # WriterLock
    BY <2>3 DEF Locks, ClaimLock, WriterLock
  <2>5. lock'[ClaimLock(MyContent(q))] = q
    BY <1>2, <2>2, <2>4, LocksKept
  <2>6. claims'[MyContent(q)] = None
    <3>1. CASE Commit(r) /\ tx[r].new
      <4>1. lock[ClaimLock(MyContent(r))] = r
        BY <3>1 DEF Pending
      <4>2. MyContent(r) # MyContent(q)
        BY <1>2, <2>2, <4>1
      <4> QED BY <2>2, <2>3, <3>1, <4>2 DEF Commit, TypeOK
    <3>2. CASE Commit(r) /\ ~tx[r].new
      BY <2>2, <3>2 DEF Commit
    <3>3. CASE Actions(r)
      BY <2>2, <3>3, TablesStable
    <3> QED BY <3>1, <3>2, <3>3, MoveCases
  <2> QED BY <2>1, <2>2, <2>3, <2>5, <2>6 DEF Pending
<1> QED BY <1>1, <1>2

(* Only a request that is not over moves, ...                                  *)
LEMMA MoverNotOver == ASSUME NEW r, Move(r) PROVE pc[r] \notin Over
BY DEF Move, Step, Receive, BeginAttempt, SelectRecord, InsertRecord, Reoccupy,
       RereadRecord, SelectClaim, CreateAsset, ReuseDuplicate, Commit, RejectOutcome,
       Fault, Crash, Running, InTransaction, Over

(* ... and one that is over stays so.                                          *)
LEMMA OverForGood ==
    ASSUME TypeOK, NEW r \in Requests, Move(r), NEW q \in Requests, pc[q] \in Over
    PROVE  pc'[q] \in Over
BY MoverNotOver, OthersStable

(* Every step keeps the invariant.                                             *)
LEMMA NextClaimInv == ClaimInv /\ [Next]_vars => ClaimInv'
<1> SUFFICES ASSUME ClaimInv, [Next]_vars PROVE ClaimInv'
  OBVIOUS
<1>1. TypeInv'
  BY NextType DEF ClaimInv
<1>2. ASSUME NEW r \in Requests, Move(r) PROVE ClaimInv'
  <2>1. \A q \in Requests : Pending(q)'
    BY <1>1, <1>2, PendingKept
  <2>2. AssetsMatchClaims' /\ Unborn'
    <3>1. CASE Commit(r)
      BY <3>1, CommitClaimInv
    <3>2. CASE Actions(r)
      <4>1. UNCHANGED <<assets, claims>>
        BY <3>2, TablesStable
      <4>2. AssetsMatchClaims'
        BY <4>1 DEF ClaimInv, AssetsMatchClaims
      <4>3. Unborn'
        BY <1>2, <4>1, OverForGood DEF ClaimInv, TypeInv, Unborn, AssetIds
      <4> QED BY <4>2, <4>3
    <3> QED BY <1>2, <3>1, <3>2, MoveCases
  <2> QED BY <1>1, <2>1, <2>2 DEF ClaimInv
<1>3. CASE Tick \/ UNCHANGED vars
  <2>1. UNCHANGED <<tables, lock, request>>
    BY <1>3 DEF Tick, vars
  <2>2. /\ UNCHANGED <<assets, claims, lock, pc, command, tx>>
    BY <2>1 DEF tables, request
  <2>3. \A r \in Requests : Pending(r)'
    BY <2>2 DEF ClaimInv, Pending, MyContent
  <2> QED BY <1>1, <2>2, <2>3 DEF ClaimInv, AssetsMatchClaims, Unborn
<1> QED BY <1>2, <1>3, NextIsMove

(* However many requests race on one content, in however many transactions,    *)
(* the committed tables never hold a second asset for it: claims and assets    *)
(* name each other one to one.                                                 *)
THEOREM OneAssetPerContent == Spec => []AssetsMatchClaims
<1>1. ClaimInv => AssetsMatchClaims
  BY DEF ClaimInv
<1> QED BY <1>1, InitClaimInv, NextClaimInv, PTL DEF Spec
===============================================================================
