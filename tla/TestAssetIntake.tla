--------------------------- MODULE TestAssetIntake ----------------------------
(* TestAssetIntakeService: concurrent requests, each running up to two         *)
(* database transactions over the tables of app/models/evie_ai.                *)
(*                                                                             *)
(* A transaction is a sequence of statements; what it wrote stays in tx[r]     *)
(* until Commit.  Statements that only touch rows nobody else can see are part *)
(* of the action of the statement they surround.  RowLocks = TRUE is           *)
(* PostgreSQL at READ COMMITTED: SELECT ... FOR UPDATE locks the row, and      *)
(* inserting a unique key somebody else has inserted but not committed waits   *)
(* for that transaction.  RowLocks = FALSE is SQLite: FOR UPDATE is ignored,   *)
(* and the first write takes the one writer lock of the database, while the    *)
(* reads before it run outside any transaction.                                *)
EXTENDS IntakeData

CONSTANTS RowLocks, MaxClock

ASSUME RowLocksAssumption == RowLocks \in BOOLEAN

VARIABLES
    clock,                          \* the UTC clock, never going back
    idem,                           \* committed idempotency records, by scope
    assets,                         \* committed assets: the content of their version
    claims,                         \* committed content claims: the asset they name
    sources, audits,                \* committed sources and audit events
    lock,                           \* who holds each row, unique key, or the writer lock
    pc, command, now, expected, seen, tx, answer    \* per request

tables  == <<idem, assets, claims, sources, audits>>
request == <<pc, command, now, expected, seen, tx, answer>>
vars    == <<clock, tables, lock, request>>

RecordLock(s) == <<"record", s>>
ClaimLock(k)  == <<"claim", k>>
AssetLock(a)  == <<"asset", a>>
WriterLock    == <<"writer">>
Locks == {RecordLock(s) : s \in Scopes} \cup {ClaimLock(k) : k \in ContentKeys}
         \cup {AssetLock(a) : a \in AssetIds} \cup {WriterLock}

(* The uncommitted writes of a transaction: the idempotency record it inserted *)
(* or reoccupied, the asset it inserted (new) or reuses, its new sources and   *)
(* audit events, and the outcome it is about to commit.                        *)
EmptyTx == [row |-> None, asset |-> None, new |-> FALSE, sources |-> {},
            audits |-> {}, outcome |-> None]
Transactions ==
    [row: Rows \cup {None}, asset: AssetIds \cup {None}, new: BOOLEAN,
     sources: SUBSET (AssetIds \X Identities), audits: SUBSET Audits,
     outcome: Successes \cup {None}]

InTransaction == {"select_record", "insert_record", "reoccupy", "reread_record",
                  "select_claim", "create", "reuse", "commit"}
Running == {"attempt"} \cup InTransaction
Over    == {"done", "crashed"}

Init ==
    /\ clock = 0
    /\ idem    = [s \in Scopes |-> None]
    /\ assets  = [a \in AssetIds |-> None]
    /\ claims  = [k \in ContentKeys |-> None]
    /\ sources = {}
    /\ audits  = {}
    /\ lock = [l \in Locks |-> None]
    /\ pc       = [r \in Requests |-> "idle"]
    /\ command  = [r \in Requests |-> None]
    /\ now      = [r \in Requests |-> 0]
    /\ expected = [r \in Requests |-> None]
    /\ seen     = [r \in Requests |-> None]
    /\ tx       = [r \in Requests |-> EmptyTx]
    /\ answer   = [r \in Requests |-> None]
-------------------------------------------------------------------------------
(* Moving a request, taking locks, ending its transaction.                     *)

MyScope(r)   == Scope(command[r])
MyContent(r) == ContentKey(command[r])

Goto(r, label) == pc' = [pc EXCEPT ![r] = label]

Free(l, r) == lock[l] \in {None, r}
Taken(ls, r) == [l \in Locks |-> IF l \in ls THEN r ELSE lock[l]]
Released(r)  == [l \in Locks |-> IF lock[l] = r THEN None ELSE lock[l]]

(* SELECT ... FOR UPDATE of an existing row.                                   *)
ForUpdate(l, r) ==
    IF RowLocks THEN Free(l, r) /\ lock' = Taken({l}, r)
                ELSE UNCHANGED lock

(* What a write needs besides its row or key: in SQLite, the writer lock.      *)
MayWrite(r) == RowLocks \/ Free(WriterLock, r)
WriteLocks(l) == IF RowLocks THEN {l} ELSE {l, WriterLock}

(* Mutant: the session of an attempt is neither ended nor closed.              *)
EndTxKeepsLocks(r) ==
    /\ tx'   = [tx EXCEPT ![r] = EmptyTx]
    /\ seen' = [seen EXCEPT ![r] = None]
    /\ UNCHANGED lock

(* Leaving `with session.begin()`: by commit, or by rollback on any exception. *)
EndTx(r) ==
    /\ tx'   = [tx EXCEPT ![r] = EmptyTx]
    /\ seen' = [seen EXCEPT ![r] = None]
    /\ lock' = Released(r)

(* Mutant: the audit event is written in a transaction of its own.             *)
RollbackKeepsAudits(r) ==
    /\ EndTx(r)
    /\ audits' = audits \cup tx[r].audits
    /\ UNCHANGED <<idem, assets, claims, sources>>

Rollback(r) == EndTx(r) /\ UNCHANGED tables

Fail(r, code) ==
    /\ Rollback(r)
    /\ Goto(r, "done")
    /\ answer' = [answer EXCEPT ![r] = [outcome |-> code]]
    /\ UNCHANGED <<clock, command, now, expected>>

(* _execute_with_retry on an IntegrityError of one of the two listed unique    *)
(* constraints: one clean second attempt, which must end in the given outcome. *)
Retry(r, outcome) ==
    /\ expected[r] = None
    /\ Rollback(r)
    /\ Goto(r, "attempt")
    /\ expected' = [expected EXCEPT ![r] = outcome]
    /\ UNCHANGED <<clock, command, now, answer>>

Conflict(r, outcome) ==
    \/ Retry(r, outcome)
    \/ expected[r] # None /\ Fail(r, "data_integrity_error")

(* _validate_retry_outcome                                                     *)
OutcomeAllowed(r, outcome) == expected[r] \in {None, outcome}
-------------------------------------------------------------------------------
(* execute: the input checks passed; the request is about to begin.            *)
Receive(r) ==
    /\ pc[r] = "idle"
    /\ \E c \in Commands : command' = [command EXCEPT ![r] = c]
    /\ Goto(r, "attempt")
    /\ UNCHANGED <<clock, tables, lock, now, expected, seen, tx, answer>>

(* _run_attempt opens a session, _build_attempt_context checks the project and *)
(* reads the clock, once for the whole attempt.                                *)
BeginAttempt(r) ==
    /\ pc[r] = "attempt"
    /\ \/ /\ command[r].project \in ActiveProjects
          /\ now' = [now EXCEPT ![r] = clock]
          /\ Goto(r, "select_record")
          /\ UNCHANGED <<clock, tables, lock, command, expected, seen, tx, answer>>
       \/ /\ command[r].project \notin ActiveProjects
          /\ Fail(r, "project_inactive")

(* _resolve_existing_idempotency on an unexpired record: refuse another        *)
(* request's key, refuse a damaged record, or replay the stored result after   *)
(* checking that its asset still holds the requested content.                  *)
RecordIsSound(r, row) ==
    row.result # None /\ assets[row.result.asset] = MyContent(r)

Replay(r, row) ==
    /\ EndTx(r)
    /\ Goto(r, "done")
    /\ answer' = [answer EXCEPT ![r] =
           [outcome |-> "idempotency_replay", asset |-> row.result.asset,
            gen |-> row.gen]]
    /\ UNCHANGED <<clock, tables, command, now, expected>>

ResolveExisting(r, row) ==
    \/ /\ row.print # RequestPrint(command[r])
       /\ Fail(r, "idempotency_conflict")
    \/ /\ row.print = RequestPrint(command[r])
       /\ \/ /\ RecordIsSound(r, row) /\ OutcomeAllowed(r, "idempotency_replay")
             /\ Replay(r, row)
          \/ /\ ~(RecordIsSound(r, row) /\ OutcomeAllowed(r, "idempotency_replay"))
             /\ Fail(r, "data_integrity_error")

(* _claim_idempotency: SELECT the record of the scope FOR UPDATE.  A row that  *)
(* only another transaction's uncommitted insert would provide is not seen.    *)
SelectRecord(r) ==
    /\ pc[r] = "select_record"
    /\ LET row == idem[MyScope(r)] IN
       \/ /\ row = None
          /\ Goto(r, "insert_record")
          /\ UNCHANGED <<clock, tables, lock, command, now, expected, seen, tx, answer>>
       \/ /\ row # None /\ Expired(row, now[r])
          /\ ForUpdate(RecordLock(MyScope(r)), r)
          /\ seen' = [seen EXCEPT ![r] = row]
          /\ Goto(r, "reoccupy")
          /\ UNCHANGED <<clock, tables, command, now, expected, tx, answer>>
       \/ /\ row # None /\ ~Expired(row, now[r])
          /\ RowLocks => Free(RecordLock(MyScope(r)), r)
          /\ ResolveExisting(r, row)

(* Write the claim of generation g on the record into the transaction.         *)
HoldRecord(r, g) ==
    /\ Free(RecordLock(MyScope(r)), r)
    /\ lock' = Taken(WriteLocks(RecordLock(MyScope(r))), r)
    /\ tx' = [tx EXCEPT ![r].row = FreshRow(command[r], now[r], g)]
    /\ Goto(r, "select_claim")
    /\ UNCHANGED <<clock, tables, command, now, expected, seen, answer>>

(* _new_idempotency_claim: the INSERT fails on a committed record and waits    *)
(* for the transaction that has inserted one but not ended.                    *)
InsertRecord(r) ==
    /\ pc[r] = "insert_record"
    /\ MayWrite(r)
    /\ \/ idem[MyScope(r)] = None /\ HoldRecord(r, 1)
       \/ idem[MyScope(r)] # None /\ Conflict(r, "idempotency_replay")

(* Mutant: the UPDATE names the record by its id only.                         *)
MayReoccupyAny(r, row) == row # None

(* try_reoccupy_expired: compare-and-swap on the generation and the expiry.    *)
MayReoccupy(r, row) ==
    row # None /\ row.gen = seen[r].gen /\ Expired(row, now[r])

(* Mutant: the generation is written back as it was read.                      *)
SameGeneration(row) == row.gen

NextGeneration(row) == row.gen + 1

(* _reoccupy_idempotency: claim the next generation of an expired record ...   *)
Reoccupy(r) ==
    /\ pc[r] = "reoccupy"
    /\ MayWrite(r)
    /\ LET row == idem[MyScope(r)] IN
       \/ MayReoccupy(r, row) /\ HoldRecord(r, NextGeneration(row))
       \/ /\ ~MayReoccupy(r, row)
          /\ lock' = IF RowLocks THEN lock ELSE Taken({WriterLock}, r)
          /\ Goto(r, "reread_record")
          /\ UNCHANGED <<clock, tables, command, now, expected, seen, tx, answer>>

(* ... and, when somebody else won it, the record as the winner left it.       *)
RereadRecord(r) ==
    /\ pc[r] = "reread_record"
    /\ LET row == idem[MyScope(r)] IN
       \/ (row = None \/ Expired(row, now[r])) /\ Fail(r, "data_integrity_error")
       \/ row # None /\ ~Expired(row, now[r]) /\ ResolveExisting(r, row)
-------------------------------------------------------------------------------
(* _resolve_source, then _persist_intake: SELECT the content claim FOR UPDATE. *)
SelectClaim(r) ==
    /\ pc[r] = "select_claim"
    /\ LET k == MyContent(r) IN
       \/ ~Resolvable(command[r]) /\ Fail(r, "source_scope_mismatch")
       \/ /\ Resolvable(command[r]) /\ claims[k] = None
          /\ Goto(r, "create")
          /\ UNCHANGED <<clock, tables, lock, command, now, expected, seen, tx, answer>>
       \/ /\ Resolvable(command[r]) /\ claims[k] # None
          /\ ForUpdate(ClaimLock(k), r)
          /\ tx' = [tx EXCEPT ![r].asset = claims[k]]
          /\ Goto(r, "reuse")
          /\ UNCHANGED <<clock, tables, command, now, expected, seen, answer>>

(* _complete_idempotency, the last write of both paths.                        *)
Complete(r, a, new, newSources, events, outcome) ==
    LET row == tx[r].row IN
    /\ MayComplete(row, row.gen)
    /\ tx' = [tx EXCEPT ![r] =
           [row |-> Completed(row, a, new), asset |-> a, new |-> new,
            sources |-> newSources, audits |-> events, outcome |-> outcome]]
    /\ Goto(r, "commit")
    /\ UNCHANGED <<clock, tables, command, now, expected, seen, answer>>

(* _persist_new_aggregate: the asset, version 1 and source of this attempt.    *)
NewAsset(r)      == <<r, IF expected[r] = None THEN 1 ELSE 2>>
NewSources(r, a) == {<<a, SourceIdentity(command[r])>>}

(* Mutant: no unique constraint guards the insertion of the content claim.     *)
CreateAssetUnguarded(r) ==
    /\ pc[r] = "create"
    /\ Complete(r, NewAsset(r), TRUE, NewSources(r, NewAsset(r)),
           {Audit("asset_created", NewAsset(r), command[r], tx[r].row.gen, r)},
           "created")
    /\ UNCHANGED lock

(* _create_asset: asset, first version and source, then the content claim,     *)
(* whose INSERT fails on a committed claim and waits for an uncommitted one,   *)
(* then the version pointer, the audit event and the result.                   *)
CreateAsset(r) ==
    /\ pc[r] = "create"
    /\ LET k == MyContent(r)
           a == NewAsset(r)
       IN
       \/ claims[k] # None /\ Conflict(r, "exact_duplicate_reused")
       \/ /\ claims[k] = None
          /\ Free(ClaimLock(k), r)
          /\ lock' = Taken(WriteLocks(ClaimLock(k)), r)
          /\ Complete(r, a, TRUE, NewSources(r, a),
                 {Audit("asset_created", a, command[r], tx[r].row.gen, r)},
                 "created")

(* _load_reusable_aggregate: the asset of the claim still holds the content.   *)
Reusable(r, a) == assets[a] = MyContent(r)

(* _ensure_duplicate_source: the source, unless the asset already has it.      *)
MissingSources(r, a) == NewSources(r, a) \ sources

(* Mutant: only the reuse is audited.                                          *)
ReuseEventOnly(a, c, g, r, sourceAdded) ==
    {Audit("exact_duplicate_reused", a, c, g, r)}

(* _append_duplicate_audits                                                    *)
ReuseEvents(a, c, g, r, sourceAdded) ==
    {Audit("exact_duplicate_reused", a, c, g, r)}
    \cup (IF sourceAdded THEN {Audit("source_added", a, c, g, r)} ELSE {})

(* _reuse_exact_duplicate: lock the asset, check it, add what is missing.      *)
ReuseDuplicate(r) ==
    /\ pc[r] = "reuse"
    /\ LET a     == tx[r].asset
           added == MissingSources(r, a)
       IN
       \/ ~Reusable(r, a) /\ Fail(r, "data_integrity_error")
       \/ /\ Reusable(r, a)
          /\ ForUpdate(AssetLock(a), r)
          /\ Complete(r, a, FALSE, added,
                 ReuseEvents(a, command[r], tx[r].row.gen, r, added # {}),
                 "exact_duplicate_reused")

(* _validate_retry_outcome, then COMMIT: every row of the transaction becomes  *)
(* visible at once.  The process may die before it answers.                    *)
Commit(r) ==
    /\ pc[r] = "commit" /\ OutcomeAllowed(r, tx[r].outcome)
    /\ idem' = [idem EXCEPT ![MyScope(r)] = tx[r].row]
    /\ IF tx[r].new
       THEN /\ assets' = [assets EXCEPT ![tx[r].asset] = MyContent(r)]
            /\ claims' = [claims EXCEPT ![MyContent(r)] = tx[r].asset]
       ELSE UNCHANGED <<assets, claims>>
    /\ sources' = sources \cup tx[r].sources
    /\ audits'  = audits \cup tx[r].audits
    /\ EndTx(r)
    /\ \/ /\ Goto(r, "done")
          /\ answer' = [answer EXCEPT ![r] =
                 [outcome |-> tx[r].outcome, asset |-> tx[r].asset,
                  gen |-> tx[r].row.gen]]
       \/ Goto(r, "crashed") /\ UNCHANGED answer
    /\ UNCHANGED <<clock, command, now, expected>>

RejectOutcome(r) ==
    /\ pc[r] = "commit" /\ ~OutcomeAllowed(r, tx[r].outcome)
    /\ Fail(r, "data_integrity_error")
-------------------------------------------------------------------------------
(* Any other exception of a statement: rolled back and reported.               *)
Fault(r) == pc[r] \in Running /\ Fail(r, "data_integrity_error")

(* The process dies: the server rolls its transaction back, nobody answers.    *)
Crash(r) ==
    /\ pc[r] \in Running
    /\ Rollback(r)
    /\ Goto(r, "crashed")
    /\ UNCHANGED <<clock, command, now, expected, answer>>

Tick == clock < MaxClock /\ clock' = clock + 1 /\ UNCHANGED <<tables, lock, request>>

Step(r) ==
    \/ BeginAttempt(r)
    \/ SelectRecord(r)
    \/ InsertRecord(r)
    \/ Reoccupy(r)
    \/ RereadRecord(r)
    \/ SelectClaim(r)
    \/ CreateAsset(r)
    \/ ReuseDuplicate(r)
    \/ Commit(r)
    \/ RejectOutcome(r)

FaultFreeNext == Tick \/ \E r \in Requests : Receive(r) \/ Step(r)
Next == FaultFreeNext \/ \E r \in Requests : Fault(r) \/ Crash(r)

Spec == Init /\ [][Next]_vars

(* The server schedules a request that was received until it is over.          *)
FairSpec == Spec /\ \A r \in Requests : WF_vars(Step(r))
-------------------------------------------------------------------------------
(* Every column, row and request is of its type.                               *)
TypeOK ==
    /\ clock \in Nat
    /\ idem    \in [Scopes -> Rows \cup {None}]
    /\ assets  \in [AssetIds -> ContentKeys \cup {None}]
    /\ claims  \in [ContentKeys -> AssetIds \cup {None}]
    /\ sources \in SUBSET (AssetIds \X Identities)
    /\ audits  \in SUBSET Audits
    /\ lock     \in [Locks -> Requests \cup {None}]
    /\ pc       \in [Requests -> {"idle"} \cup Running \cup Over]
    /\ command  \in [Requests -> Command \cup {None}]
    /\ now      \in [Requests -> Nat]
    /\ expected \in [Requests -> Successes \cup {None}]
    /\ seen     \in [Requests -> Rows \cup {None}]
    /\ tx       \in [Requests -> Transactions]
    /\ answer   \in [Requests -> Answers \cup {None}]

(* Claims and assets name each other: a claim points at an asset holding that  *)
(* content, and every asset is the one its content's claim points at.  So two  *)
(* concurrent requests never leave two assets for one content of a project.    *)
AssetsMatchClaims ==
    /\ \A k \in ContentKeys : claims[k] # None => assets[claims[k]] = k
    /\ \A a \in AssetIds : assets[a] # None => claims[assets[a]] = a

(* A committed idempotency record is complete, and its result names an asset   *)
(* of its project holding the content it was given: a repeated request can     *)
(* always be replayed and the checks of _resolve_existing_idempotency hold.    *)
CompletedRecordIsReplayable ==
    \A s \in Scopes : idem[s] # None =>
        /\ idem[s].result # None
        /\ assets[idem[s].result.asset] = <<s[1], idem[s].print[1]>>

(* Every source row of an asset was announced by exactly one audit event, as   *)
(* the asset's first source or as a later one, and no event announces a source *)
(* that is not there.                                                          *)
Announcements == {e \in audits : e.event \in {"asset_created", "source_added"}}
SourcesAudited ==
    /\ \A src \in sources : \E e \in Announcements :
           /\ <<e.asset, e.source>> = src
           /\ \A d \in Announcements : <<d.asset, d.source>> = src => d = e
    /\ \A e \in audits : <<e.asset, e.source>> \in sources

(* One generation of an idempotency scope decides once: however many requests  *)
(* carry the key, one of them created or reused an asset and the others found  *)
(* its record.                                                                 *)
OneDecisionPerGeneration ==
    \A d, e \in audits :
        /\ {d.event, e.event} \subseteq Decisions
        /\ d.scope = e.scope /\ d.gen = e.gen
        => d = e

(* Two callers answered within one generation of a scope sent the same request *)
(* and were given the same asset.                                              *)
Succeeded(r) == answer[r] # None /\ answer[r].outcome \in Successes
AnswersAgree ==
    \A q, r \in Requests :
        /\ Succeeded(q) /\ Succeeded(r)
        /\ MyScope(q) = MyScope(r) /\ answer[q].gen = answer[r].gen
        => /\ answer[q].asset = answer[r].asset
           /\ RequestPrint(command[q]) = RequestPrint(command[r])

(* A request that was answered with an error left no asset, no source and no   *)
(* audit event behind, whatever statement its attempts had reached.            *)
ErrorsLeaveNoTrace ==
    \A r \in Requests : answer[r] # None /\ ~Succeeded(r) =>
        /\ \A e \in audits : e.by # r
        /\ \A n \in Attempts : assets[<<r, n>>] = None

(* A first attempt never fails closed of itself: whatever other requests do,   *)
(* and however they fail, DATA_INTEGRITY_ERROR without a fault of its own is   *)
(* only ever the end of a request that lost a race and began again.            *)
FirstAttemptNeverFails ==
    [][\A r \in Requests :
           /\ Step(r) /\ answer'[r] # answer[r]
           /\ answer'[r].outcome = "data_integrity_error"
           => expected[r] # None]_vars

(* An idempotency record never goes away and never changes, except that a      *)
(* request may claim the next generation once the record has expired.          *)
RecordsOnlyReoccupied ==
    [][\A s \in Scopes : idem[s] # None /\ idem'[s] # idem[s] =>
           /\ idem'[s] # None
           /\ idem'[s].gen = idem[s].gen + 1
           /\ Expired(idem[s], clock)]_vars

(* In the end no request is under way: there is no cycle of waits on rows,     *)
(* unique keys and the writer lock, and no endless retry.                      *)
EveryRequestEnds == <>[](\A r \in Requests : pc[r] \notin Running)

(* The intake implements its contract: each request takes effect at its commit,*)
(* or at the read of the record it replays or is refused for.                  *)
Contract == INSTANCE IntakeContract WITH
    over <- {r \in Requests : pc[r] \in Over}
ContractSpec == Contract!Spec
===============================================================================
