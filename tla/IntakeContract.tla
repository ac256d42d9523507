---------------------------- MODULE IntakeContract ----------------------------
(* What the TestAsset intake promises: every request takes effect at one       *)
(* instant, on the committed tables as they are at that instant, or not at     *)
(* all.  No locks, transactions, attempts or retries.                          *)
EXTENDS IntakeData

VARIABLES clock, idem, assets, claims, sources, audits, answer, over

tables == <<idem, assets, claims, sources, audits>>
vars   == <<clock, tables, answer, over>>

Init ==
    /\ clock = 0
    /\ idem    = [s \in Scopes |-> None]
    /\ assets  = [a \in AssetIds |-> None]
    /\ claims  = [k \in ContentKeys |-> None]
    /\ sources = {}
    /\ audits  = {}
    /\ answer  = [r \in Requests |-> None]
    /\ over    = {}

(* Every request is over once; its answer reaches the client, or is lost.      *)
Finish(r) == r \notin over /\ over' = over \cup {r} /\ UNCHANGED clock
Say(r, reply) == answer' \in {answer, [answer EXCEPT ![r] = reply]}

(* A scope may be claimed when it was never used or its record has expired;    *)
(* each claim of a scope is a generation of its own.                           *)
Claimable(s, t) == idem[s] = None \/ Expired(idem[s], t)
NextGen(s) == IF idem[s] = None THEN 1 ELSE idem[s].gen + 1

Record(c, t, a, new) ==
    idem' = [idem EXCEPT ![Scope(c)] =
                 Completed(FreshRow(c, t, NextGen(Scope(c))), a, new)]

Reply(outcome, a, g) == [outcome |-> outcome, asset |-> a, gen |-> g]

(* The first request for a content creates its asset ...                       *)
Create(r, c, t) ==
    \E a \in AssetIds :
        LET g == NextGen(Scope(c)) IN
        /\ Claimable(Scope(c), t) /\ Resolvable(c)
        /\ claims[ContentKey(c)] = None /\ assets[a] = None
        /\ Record(c, t, a, TRUE)
        /\ assets'  = [assets EXCEPT ![a] = ContentKey(c)]
        /\ claims'  = [claims EXCEPT ![ContentKey(c)] = a]
        /\ sources' = sources \cup {<<a, SourceIdentity(c)>>}
        /\ audits'  = audits \cup {Audit("asset_created", a, c, g, r)}
        /\ Say(r, Reply("created", a, g))

(* ... and every later one shares it, adding at most its source.               *)
Reuse(r, c, t) ==
    LET a   == claims[ContentKey(c)]
        g   == NextGen(Scope(c))
        src == <<a, SourceIdentity(c)>>
    IN
    /\ Claimable(Scope(c), t) /\ Resolvable(c) /\ a # None
    /\ Record(c, t, a, FALSE)
    /\ sources' = sources \cup {src}
    /\ audits'  = audits \cup {Audit("exact_duplicate_reused", a, c, g, r)}
                  \cup (IF src \in sources THEN {}
                        ELSE {Audit("source_added", a, c, g, r)})
    /\ Say(r, Reply("exact_duplicate_reused", a, g))
    /\ UNCHANGED <<assets, claims>>

(* A request repeated before its record expires gets the stored result.        *)
Replay(r, c, t) ==
    LET row == idem[Scope(c)] IN
    /\ ~Claimable(Scope(c), t) /\ row.print = RequestPrint(c)
    /\ Say(r, Reply("idempotency_replay", row.result.asset, row.gen))
    /\ UNCHANGED tables

(* A refused request, or one whose process died, changes nothing.  The two     *)
(* refusals a client acts on are given for their reason only.                  *)
Refuse(r, c, t) ==
    /\ \/ Say(r, [outcome |-> "data_integrity_error"])
       \/ /\ c.project \notin ActiveProjects
          /\ Say(r, [outcome |-> "project_inactive"])
       \/ /\ ~Claimable(Scope(c), t) /\ idem[Scope(c)].print # RequestPrint(c)
          /\ Say(r, [outcome |-> "idempotency_conflict"])
       \/ /\ Claimable(Scope(c), t) /\ ~Resolvable(c)
          /\ Say(r, [outcome |-> "source_scope_mismatch"])
    /\ UNCHANGED tables

(* A request may decide by a clock reading it took earlier.                    *)
Tick == clock' = clock + 1 /\ UNCHANGED <<tables, answer, over>>

Next ==
    \/ Tick
    \/ \E r \in Requests :
           /\ Finish(r)
           /\ \E c \in Commands, t \in 0 .. clock :
                 Create(r, c, t) \/ Reuse(r, c, t) \/ Replay(r, c, t) \/ Refuse(r, c, t)

Spec == Init /\ [][Next]_vars
===============================================================================
