------------------------------ MODULE IntakeData ------------------------------
(* What a TestAsset create command is, and the rows the intake writes: the     *)
(* idempotency records, assets, content claims, sources and audit events of    *)
(* app/models/evie_ai, reduced to the columns the intake decides by.           *)
EXTENDS Integers

CONSTANTS
    Requests,             \* calls of TestAssetIntakeService.execute
    Projects,             \* project codes
    ActiveProjects,       \* those ProjectScopeService accepts
    Keys,                 \* (trusted actor, idempotency key) pairs
    Contents,             \* normalised contents, one per content fingerprint
    Requirements,         \* (requirement id, requirement version id) pairs
    RequirementProject,   \* the project each resolvable requirement belongs to
    Manual,               \* the other kind of source
    Commands,             \* the create commands a client may send
    Retention,            \* idempotency_retention_days, in clock ticks
    None                  \* a NULL column, a missing row, an absent value

Sources == Requirements \cup {Manual}
Command == [project: Projects, key: Keys, content: Contents, source: Sources]

ASSUME ProjectAssumption == ActiveProjects \subseteq Projects
ASSUME SourceAssumption  == /\ RequirementProject \in [Requirements -> Projects]
                            /\ Manual \notin Requirements
ASSUME CommandAssumption == Commands \subseteq Command
ASSUME RetentionAssumption == Retention \in Nat \ {0}

-------------------------------------------------------------------------------
(* The columns of uq_test_asset_idempotency_scope_key; operation_type is       *)
(* always create_asset here.                                                   *)
Scope(c) == <<c.project, c.key>>

(* build_create_asset_request_fingerprint: the source and the content, never   *)
(* the project, the actor or the key.                                          *)
RequestPrint(c) == <<c.content, c.source>>

(* The columns of uq_test_asset_content_claims_project_fingerprint.            *)
ContentKey(c) == <<c.project, c.content>>

(* source_identity_hash: a requirement is itself, a manual source is the       *)
(* request that brought it.                                                    *)
SourceIdentity(c) ==
    IF c.source = Manual THEN <<"manual", Scope(c), RequestPrint(c)>>
                         ELSE <<"requirement", c.source>>

(* RequirementRepository.resolve_source_version finds a row.                   *)
Resolvable(c) ==
    c.source \in Requirements => RequirementProject[c.source] = c.project

Scopes      == Projects \X Keys
Prints      == Contents \X Sources
ContentKeys == Projects \X Contents
Identities  == ({"manual"} \X Scopes \X Prints) \cup ({"requirement"} \X Requirements)

(* An asset's public id is fresh in every attempt: it is named after the       *)
(* request and the attempt that inserts it.                                    *)
Attempts == {1, 2}
AssetIds == Requests \X Attempts

Results == [asset: AssetIds, created: BOOLEAN]
Rows    == [print: Prints, expires: Nat, gen: Nat \ {0}, result: Results \cup {None}]

Decisions == {"asset_created", "exact_duplicate_reused"}
Audits    == [event: Decisions \cup {"source_added"}, asset: AssetIds,
              source: Identities, scope: Scopes, gen: Nat \ {0}, by: Requests]

Successes == {"created", "exact_duplicate_reused", "idempotency_replay"}
Refusals  == {"project_inactive", "idempotency_conflict", "source_scope_mismatch",
              "data_integrity_error"}
Answers   == [outcome: Successes, asset: AssetIds, gen: Nat \ {0}]
             \cup [outcome: Refusals]

(* NULL is no value of any column.                                             *)
ASSUME NoneAssumption ==
    /\ None \notin Requests
    /\ None \notin AssetIds
    /\ None \notin ContentKeys
    /\ None \notin Results
    /\ None \notin Rows
    /\ None \notin Answers
    /\ None \notin Successes
    /\ None \notin Command

(* _is_expired                                                                 *)
Expired(row, now) == row.expires <= now

(* Mutants: the retention is subtracted; every claim is of generation one.     *)
FreshRowBackdated(c, now, g) ==
    [print |-> RequestPrint(c), expires |-> now - Retention, gen |-> g,
     result |-> None]
FreshRowGenOne(c, now, g) ==
    [print |-> RequestPrint(c), expires |-> now + Retention, gen |-> 1,
     result |-> None]

(* A record as it is inserted or reoccupied: the claim of one generation,      *)
(* with no result yet.                                                         *)
FreshRow(c, now, g) ==
    [print |-> RequestPrint(c), expires |-> now + Retention, gen |-> g,
     result |-> None]

(* Mutant: the UPDATE of complete() is never executed.                         *)
NotCompleted(row, a, new) == row

(* TestAssetIdempotencyRepository.complete: its WHERE clause and its SET.      *)
MayComplete(row, g)  == row.gen = g /\ row.result = None
Completed(row, a, new) == [row EXCEPT !.result = [asset |-> a, created |-> new]]

Audit(event, a, c, g, r) ==
    [event |-> event, asset |-> a, source |-> SourceIdentity(c),
     scope |-> Scope(c), gen |-> g, by |-> r]
===============================================================================
