-------------------------- MODULE ExecutionGateProofs -------------------------
(* Proofs about ExecutionGate, for every set of users, subjects and requests:  *)
(* the stored list is well formed, a block in force had two persons, and the   *)
(* store implements GateContract: a list written in two steps, truncated and   *)
(* read back in another order is one decision per subject, changed by one call *)
(* at a time.                                                                  *)
EXTENDS ExecutionGate, SequenceTheorems, FiniteSetTheorems, TLAPS

USE DEF Item

(* Lists as the store keeps them: typed, one record per subject.               *)
Distinct(list) ==
    \A i, j \in DOMAIN list : list[i].subject = list[j].subject => i = j
Proper(list) == list \in Seq(Items) /\ Distinct(list)

(* Every record of the list satisfies the two-person rule.                     *)
Vouched(list) ==
    DualApproval => \A i \in DOMAIN list : TwoPersons(list[i].subject, list[i].rec)

(* The list a request is about to write is as good as the stored one; calls    *)
(* that were admitted stay what they were.                                     *)
Admission ==
    \A r \in Requests :
        /\ pc[r] = "idle" => call[r] = None
        /\ pc[r] = "decide" => call[r] \in Calls /\ Admitted(call[r])
Inv ==
    /\ TypeOK
    /\ Admission
    /\ \A r \in Requests : Distinct(items[r])
    /\ Vouched(table)
    /\ \A r \in Requests : Vouched(items[r])
-------------------------------------------------------------------------------
(* Lists.                                                                      *)

(* What is stored about a subject is a record of the list, or None.            *)
LEMMA StoredRecord ==
    ASSUME NEW list \in Seq(Items), NEW s \in Subjects, Stored(list, s) # None
    PROVE  \E i \in DOMAIN list : list[i].subject = s /\ list[i].rec = Stored(list, s)
<1>1. Places(list, s) # {}
  BY DEF Stored
<1>2. (CHOOSE i \in Places(list, s) : TRUE) \in Places(list, s)
  BY <1>1
<1> QED BY <1>1, <1>2 DEF Stored, Places

(* A stored decision is of its type.                                           *)
LEMMA StoredType ==
    ASSUME NEW list \in Seq(Items), NEW s \in Subjects
    PROVE  Stored(list, s) \in Records \cup {None}
<1>1. CASE Stored(list, s) = None
  BY <1>1
<1>2. CASE Stored(list, s) # None
  <2>1. PICK i \in DOMAIN list : list[i].rec = Stored(list, s)
    BY <1>2, StoredRecord
  <2>2. list[i] \in Items
    BY <2>1
  <2> QED BY <2>1, <2>2 DEF Items
<1> QED BY <1>1, <1>2

(* Putting a record adds it or replaces the one of its subject, and keeps the  *)
(* others.                                                                     *)
LEMMA PutProper ==
    ASSUME NEW list, Proper(list), NEW s \in Subjects, NEW rec \in Records
    PROVE  /\ Proper(Put(list, s, rec))
           /\ \A i \in DOMAIN Put(list, s, rec) :
                 \/ Put(list, s, rec)[i] = Item(s, rec)
                 \/ \E j \in DOMAIN list : Put(list, s, rec)[i] = list[j]
<1> DEFINE new == Put(list, s, rec)
<1>0. list \in Seq(Items) /\ Item(s, rec) \in Items
  BY DEF Proper, Items
<1>1. CASE Places(list, s) = {}
  <2>1. new = <<Item(s, rec)>> \o list
    BY <1>1 DEF Put
  <2>2. <<Item(s, rec)>> \in Seq(Items) /\ Len(<<Item(s, rec)>>) = 1
    BY <1>0
  <2>3. new \in Seq(Items) /\ Len(new) = 1 + Len(list)
    BY <1>0, <2>1, <2>2, ConcatProperties
  <2>4. new[1] = Item(s, rec)
    BY <1>0, <2>1, <2>2, ConcatProperties
  <2>5. \A i \in DOMAIN new : i # 1 => i - 1 \in DOMAIN list /\ new[i] = list[i - 1]
    BY <1>0, <2>1, <2>2, <2>3, ConcatProperties
  <2>6. \A j \in DOMAIN list : list[j].subject # s
    BY <1>1 DEF Places
  <2>7. Distinct(new)
    <3> SUFFICES ASSUME NEW i \in DOMAIN new, NEW j \in DOMAIN new,
                        new[i].subject = new[j].subject
                 PROVE  i = j
      BY DEF Distinct
    <3>1. i \in Int /\ j \in Int
      BY <2>3
    <3>2. new[1].subject = s
      BY <2>4
    <3>3. CASE i = 1 \/ j = 1
      BY <2>5, <2>6, <3>2, <3>3
    <3>4. CASE i # 1 /\ j # 1
      <4>1. i - 1 = j - 1
        BY <2>5, <3>4 DEF Proper, Distinct
      <4> QED BY <3>1, <4>1
    <3> QED BY <3>3, <3>4
  <2>8. \A i \in DOMAIN new : new[i] = Item(s, rec) \/ \E j \in DOMAIN list : new[i] = list[j]
    BY <2>4, <2>5
  <2> QED BY <2>3, <2>7, <2>8 DEF Proper
<1>2. CASE Places(list, s) # {}
  <2>1. new = [i \in DOMAIN list |-> IF list[i].subject = s THEN Item(s, rec) ELSE list[i]]
    BY <1>2 DEF Put
  <2>2. DOMAIN new = 1 .. Len(list) /\ DOMAIN list = 1 .. Len(list) /\ Len(list) \in Nat
    BY <1>0, <2>1
  <2>3. \A i \in DOMAIN list : new[i] \in Items /\ new[i].subject = list[i].subject
    BY <1>0, <2>1
  <2>4. new \in Seq(Items)
    BY <2>1, <2>2, <2>3, SeqDef
  <2>5. Distinct(new)
    BY <2>2, <2>3 DEF Proper, Distinct
  <2> QED BY <2>1, <2>2, <2>4, <2>5 DEF Proper
<1> QED BY <1>1, <1>2

(* Truncating keeps at most Limit of a list's records.                         *)
LEMMA KeptProper ==
    ASSUME NEW list, Proper(list)
    PROVE  /\ Proper(Kept(list)) /\ Len(Kept(list)) <= Limit
           /\ \A i \in DOMAIN Kept(list) : i \in DOMAIN list /\ Kept(list)[i] = list[i]
<1> DEFINE k == IF Len(list) < Limit THEN Len(list) ELSE Limit
<1>0. list \in Seq(Items) /\ Len(list) \in Nat /\ DOMAIN list = 1 .. Len(list)
  BY DEF Proper
<1>1. k \in Nat /\ k <= Len(list) /\ k <= Limit
  BY <1>0, GateAssumption
<1>2. Kept(list) = SubSeq(list, 1, k)
  BY DEF Kept
<1> HIDE DEF k
<1>3. SubSeq(list, 1, k) \in Seq(Items) /\ Len(SubSeq(list, 1, k)) = k
      /\ \A i \in 1 .. k : SubSeq(list, 1, k)[i] = list[i]
  BY <1>0, <1>1, SubSeqProperties
<1>4. DOMAIN Kept(list) = 1 .. k /\ \A i \in 1 .. k : i \in DOMAIN list
  BY <1>0, <1>1, <1>2, <1>3
<1> QED BY <1>1, <1>2, <1>3, <1>4 DEF Proper, Distinct

(* Reading back reorders at most.                                              *)
LEMMA RereadProper ==
    ASSUME NEW list, Proper(list)
    PROVE  /\ Proper(Reread(list)) /\ Len(Reread(list)) = Len(list)
           /\ \A i \in DOMAIN Reread(list) :
                 \E j \in DOMAIN list : Reread(list)[i] = list[j]
<1>0. list \in Seq(Items) /\ Len(list) \in Nat /\ DOMAIN list = 1 .. Len(list)
  BY DEF Proper
<1>1. CASE ~Database
  BY <1>0, <1>1 DEF Reread
<1>2. CASE Database
  <2> DEFINE new == [i \in DOMAIN list |-> list[Len(list) + 1 - i]]
  <2>1. Reread(list) = new
    BY <1>2 DEF Reread
  <2>2. \A i \in DOMAIN list : Len(list) + 1 - i \in DOMAIN list
    BY <1>0
  <2>3. new \in [1 .. Len(list) -> Items]
    BY <1>0, <2>2
  <2>4. new \in Seq(Items) /\ Len(new) = Len(list) /\ DOMAIN new = DOMAIN list
    BY <1>0, <2>3, SeqDef
  <2>5. Distinct(new)
    <3> SUFFICES ASSUME NEW i \in DOMAIN list, NEW j \in DOMAIN list,
                        new[i].subject = new[j].subject
                 PROVE  i = j
      BY <2>4 DEF Distinct
    <3>1. Len(list) + 1 - i = Len(list) + 1 - j
      BY <2>2 DEF Proper, Distinct
    <3> QED BY <1>0, <3>1
  <2> QED BY <2>1, <2>2, <2>4, <2>5 DEF Proper
<1> QED BY <1>1, <1>2
-------------------------------------------------------------------------------
(* The record a call leaves.                                                   *)
LEMMA OutcomeType ==
    ASSUME NEW c \in Calls, Admitted(c), NEW old \in Records \cup {None},
           Changes(c, old)
    PROVE  Outcome(c, old) \in Records
<1>1. CASE c.op = "save"
  BY <1>1 DEF Outcome, Saved, Records, Calls, Admitted, NeedsSecond, Changes
<1>2. CASE c.op = "approve"
  BY <1>2 DEF Outcome, Approved, Records, Calls, Admitted, Changes
<1>3. CASE c.op = "revoke"
  BY <1>3 DEF Outcome, Revoked, Records, Calls, Admitted, Changes
<1> QED BY <1>1, <1>2, <1>3 DEF Calls

(* It satisfies the two-person rule: a block saved in force is the decision of *)
(* somebody who may bypass approval, an approved one has this call's user as   *)
(* its second person, and a revoked one is not in force.                       *)
LEMMA OutcomeVouched ==
    ASSUME NEW r \in Requests, call[r] \in Calls, Admitted(call[r]),
           NEW old \in Records \cup {None}, Changes(call[r], old), DualApproval
    PROVE  TwoPersons(call[r].subject, Outcome(call[r], old))
<1> DEFINE c == call[r]
<1>1. CASE c.op = "save"
  BY <1>1 DEF Outcome, Saved, NeedsSecond, InForce, TwoPersons
<1>2. CASE c.op = "approve"
  <2>1. old \in Records /\ Approvable(old, c.user) /\ c.user \in Privileged
    BY <1>2 DEF Changes, Admitted
  <2>2. Outcome(c, old).by = old.by /\ Outcome(c, old).second = c.user
    BY <1>2, <2>1 DEF Outcome, Approved, Records
  <2>3. HasApproved(c.user, c.subject)
    BY <1>2, CallAssumption DEF HasApproved
  <2> QED BY <2>1, <2>2, <2>3 DEF TwoPersons, Approvable
<1>3. CASE c.op = "revoke"
  <2>1. old \in Records
    BY <1>3 DEF Changes
  <2>2. Outcome(c, old).revoked
    BY <1>3, <2>1 DEF Outcome, Revoked, Records
  <2> QED BY <2>2 DEF TwoPersons, InForce
<1> QED BY <1>1, <1>2, <1>3 DEF Calls

(* Calls are never taken back, so what was vouched for stays so.               *)
LEMMA CallsStay ==
    ASSUME Admission, Next, TypeOK
    PROVE  \A r \in Requests : call[r] # None => call'[r] = call[r]
<1>1. ASSUME NEW r \in Requests, Receive(r)
      PROVE  \A q \in Requests : call[q] # None => call'[q] = call[q]
  BY <1>1 DEF Receive, Admission, TypeOK
<1>2. CASE UNCHANGED call
  BY <1>2
<1>3. ASSUME NEW r \in Requests, Step(r)
      PROVE  UNCHANGED call
  BY <1>3 DEF Step, RefuseAndReport, ReadAndDecide, Erase, Rewrite, Report, WriteFails
<1>4. ASSUME NEW s \in Watched, Show(s)
      PROVE  UNCHANGED call
  BY <1>4 DEF Show, request
<1>5. Crash => UNCHANGED call
  BY DEF Crash
<1> QED BY <1>1, <1>2, <1>3, <1>4, <1>5 DEF Next

(* A record stays vouched for as long as approvals do.                         *)
LEMMA VouchedStays ==
    ASSUME \A r \in Requests : call[r] # None => call'[r] = call[r]
    PROVE  \A s \in Subjects, rec \in Records : TwoPersons(s, rec) => TwoPersons(s, rec)'
BY DEF TwoPersons, HasApproved, InForce
-------------------------------------------------------------------------------
(* The store is empty and no call has been made yet.                           *)
THEOREM InvInit == Init => Inv
<1> SUFFICES ASSUME Init PROVE Inv
  OBVIOUS
<1>1. << >> \in Lists /\ DOMAIN << >> = {}
  BY GateAssumption DEF Lists
<1>2. TypeOK
  BY <1>1 DEF Init, TypeOK
<1>3. Admission
  BY DEF Init, Admission
<1>4. Vouched(table) /\ \A r \in Requests : Distinct(items[r]) /\ Vouched(items[r])
  BY <1>1 DEF Init, Distinct, Vouched
<1> QED BY <1>2, <1>3, <1>4 DEF Inv

(* The list ReadAndDecide leaves for the request to write.                     *)
LEMMA DecideItems ==
    ASSUME Inv, NEW r \in Requests, pc[r] = "decide",
           Changes(call[r], Stored(table, call[r].subject))
    PROVE  LET new == Kept(Put(table, call[r].subject,
                               Outcome(call[r], Stored(table, call[r].subject))))
           IN  new \in Lists /\ Distinct(new) /\ Vouched(new)
<1> DEFINE c   == call[r]
           old == Stored(table, c.subject)
           rec == Outcome(c, old)
           put == Put(table, c.subject, rec)
           new == Kept(put)
<1>1. c \in Calls /\ Admitted(c) /\ c.subject \in Subjects
  BY DEF Inv, Admission, Calls
<1>2. Proper(table)
  BY DEF Inv, TypeOK, Lists, Proper, Distinct
<1>3. old \in Records \cup {None}
  BY <1>1, <1>2, StoredType DEF Proper
<1>4. rec \in Records
  BY <1>1, <1>3, OutcomeType
<1>5. DualApproval => TwoPersons(c.subject, rec)
  BY <1>1, <1>3, OutcomeVouched
<1> HIDE DEF c, old, rec
<1>6. /\ Proper(put)
      /\ \A i \in DOMAIN put :
            put[i] = Item(c.subject, rec) \/ \E j \in DOMAIN table : put[i] = table[j]
  BY <1>1, <1>2, <1>4, PutProper
<1>7. Vouched(put)
  BY <1>5, <1>6 DEF Vouched, Inv
<1> HIDE DEF put
<1>8. /\ Proper(new) /\ Len(new) <= Limit
      /\ \A i \in DOMAIN new : i \in DOMAIN put /\ new[i] = put[i]
  BY <1>6, KeptProper
<1>9. Vouched(new)
  BY <1>7, <1>8 DEF Vouched
<1> QED BY <1>8, <1>9 DEF Proper, Lists, c, old, rec, put

(* Every place of a list holds a record of a subject.                          *)
LEMMA ListItems ==
    ASSUME NEW list \in Lists, NEW i \in DOMAIN list
    PROVE  list[i].subject \in Subjects /\ list[i].rec \in Records
<1>1. list \in Seq(Items)
  BY DEF Lists
<1>2. list[i] \in Items
  BY <1>1
<1> QED BY <1>2 DEF Items

(* Every step keeps it: receiving records a call that was admitted, deciding   *)
(* writes a vouched record into a vouched list, and the other steps move lists *)
(* between the requests and the table.                                         *)
THEOREM InvNext == Inv /\ [Next]_vars => Inv'
<1> SUFFICES ASSUME Inv, [Next]_vars PROVE Inv'
  OBVIOUS
<1> USE DEF Inv
<1>0. CASE UNCHANGED vars
  BY <1>0 DEF vars, request, TypeOK, Admission, Distinct, Vouched, TwoPersons, HasApproved, InForce
<1>a. ASSUME Next
      PROVE  \A s \in Subjects, rec \in Records : TwoPersons(s, rec) => TwoPersons(s, rec)'
  BY <1>a, CallsStay, VouchedStays
(* Whatever lists appear among the old ones are vouched for in the new state.  *)
<1>b. ASSUME Next, NEW list \in Lists, Vouched(list)
      PROVE  Vouched(list)'
  <2>1. \A i \in DOMAIN list : list[i].subject \in Subjects /\ list[i].rec \in Records
    BY <1>b, ListItems
  <2> QED BY <1>a, <1>b, <2>1 DEF Vouched
(* Steps that leave the lists alone.                                           *)
<1>c. ASSUME Next, UNCHANGED <<table, items>>, TypeOK', Admission'
      PROVE  Inv'
  <2>1. Vouched(table)'
    BY <1>b, <1>c DEF TypeOK, Vouched
  <2>2. \A r \in Requests : Vouched(items[r])'
    BY <1>b, <1>c DEF TypeOK, Vouched
  <2>3. \A r \in Requests : Distinct(items[r])'
    BY <1>c DEF Distinct
  <2> QED BY <1>c, <2>1, <2>2, <2>3
<1>1. ASSUME NEW r \in Requests, Receive(r)
      PROVE  Inv'
  <2>1. PICK c \in Commands :
            /\ call' = [call EXCEPT ![r] = c]
            /\ \/ Finish(r, "refused")
               \/ Admitted(c) /\ Goto(r, "decide") /\ UNCHANGED answer
               \/ ~Admitted(c) /\ Reported(c) /\ Goto(r, "refuse") /\ UNCHANGED answer
               \/ ~Admitted(c) /\ ~Reported(c) /\ Finish(r, "refused")
    BY <1>1 DEF Receive
  <2>2. c \in Calls
    BY CallAssumption
  <2>3. TypeOK'
    BY <1>1, <2>1, <2>2 DEF Receive, TypeOK, Finish, Goto
  <2>4. Admission'
    BY <1>1, <2>1, <2>2 DEF Receive, TypeOK, Admission, Admitted, Finish, Goto
  <2> QED BY <1>1, <1>c, <2>3, <2>4 DEF Receive, Next
<1>2. ASSUME NEW r \in Requests, RefuseAndReport(r)
      PROVE  Inv'
  <2>1. TypeOK' /\ Admission'
    BY <1>2 DEF RefuseAndReport, TypeOK, Admission, Admitted, Finish, Goto
  <2> QED BY <1>2, <1>c, <2>1 DEF RefuseAndReport, Next, Step
<1>3. ASSUME NEW r \in Requests, ReadAndDecide(r)
      PROVE  Inv'
  <2> DEFINE c   == call[r]
             old == Stored(table, c.subject)
             new == Kept(Put(table, c.subject, Outcome(c, old)))
  <2>0. Next
    BY <1>3 DEF Next, Step
  <2>1. CASE Changes(c, old)
    <3>1. /\ items' = [items EXCEPT ![r] = new]
          /\ pc' = [pc EXCEPT ![r] = "erase"] /\ lock' = r
          /\ UNCHANGED <<table, call, answer, history, shown>>
      BY <1>3, <2>1 DEF ReadAndDecide, Decide, Goto
    <3>2. new \in Lists /\ Distinct(new) /\ Vouched(new)
      BY <1>3, <2>1, DecideItems DEF ReadAndDecide
    <3> HIDE DEF new
    <3>3. TypeOK'
      BY <3>1, <3>2 DEF TypeOK
    <3>4. Admission'
      BY <3>1 DEF TypeOK, Admission, Admitted
    <3>5. \A q \in Requests : Distinct(items[q])'
      BY <3>1, <3>2 DEF TypeOK, Distinct
    <3>6. Vouched(table)'
      BY <2>0, <1>b, <3>1 DEF TypeOK, Vouched
    <3>7. \A q \in Requests : Vouched(items[q])'
      <4> SUFFICES ASSUME NEW q \in Requests PROVE Vouched(items[q])'
        OBVIOUS
      <4>1. CASE q = r
        BY <4>1, <2>0, <1>b, <3>1, <3>2 DEF TypeOK, Vouched
      <4>2. CASE q # r
        BY <4>2, <2>0, <1>b, <3>1 DEF TypeOK, Vouched
      <4> QED BY <4>1, <4>2
    <3> QED BY <3>3, <3>4, <3>5, <3>6, <3>7
  <2>2. CASE ~Changes(c, old)
    <3>1. UNCHANGED <<table, items>>
      BY <1>3, <2>2 DEF ReadAndDecide, Decide
    <3>2. TypeOK' /\ Admission'
      BY <1>3, <2>2 DEF ReadAndDecide, Decide, Finish, Goto, TypeOK, Admission, Admitted
    <3> QED BY <2>0, <3>1, <3>2, <1>c
  <2> QED BY <2>1, <2>2
<1>4. ASSUME NEW r \in Requests, Erase(r)
      PROVE  Inv'
  <2>0. Next /\ << >> \in Lists /\ DOMAIN << >> = {}
    BY <1>4, GateAssumption DEF Next, Step, Lists
  <2>1. TypeOK' /\ Admission'
    BY <1>4, <2>0 DEF Erase, Goto, TypeOK, Admission, Admitted
  <2>2. Vouched(table)'
    BY <1>4, <2>0 DEF Erase, Vouched
  <2>3. \A q \in Requests : Distinct(items[q])' /\ Vouched(items[q])'
    BY <1>4, <2>0, <1>b DEF Erase, TypeOK, Distinct, Vouched
  <2> QED BY <2>1, <2>2, <2>3
<1>5. ASSUME NEW r \in Requests, Rewrite(r)
      PROVE  Inv'
  <2> DEFINE list == items[r]
  <2>0. Next /\ << >> \in Lists /\ DOMAIN << >> = {}
    BY <1>5, GateAssumption DEF Next, Step, Lists
  <2>1. list \in Lists /\ Proper(list) /\ Vouched(list)
    BY DEF TypeOK, Lists, Proper
  <2>2. /\ Proper(Reread(list)) /\ Len(Reread(list)) = Len(list)
        /\ \A i \in DOMAIN Reread(list) : \E j \in DOMAIN list : Reread(list)[i] = list[j]
    BY <2>1, RereadProper
  <2>3. Reread(list) \in Lists /\ Distinct(Reread(list)) /\ Vouched(Reread(list))
    BY <2>1, <2>2 DEF Lists, Proper, Vouched
  <2>4. /\ table' = Reread(list) /\ items' = [items EXCEPT ![r] = << >>] /\ lock' = None
        /\ pc' = [pc EXCEPT ![r] = "report"] /\ UNCHANGED <<call, answer, history, shown>>
    BY <1>5 DEF Rewrite, Goto
  <2> HIDE DEF list
  <2>5. TypeOK' /\ Admission'
    BY <2>0, <2>3, <2>4 DEF TypeOK, Admission, Admitted, Distinct
  <2>6. Vouched(table)'
    BY <2>0, <2>3, <2>4, <1>b DEF Vouched
  <2>7. \A q \in Requests : Distinct(items[q])' /\ Vouched(items[q])'
    <3> SUFFICES ASSUME NEW q \in Requests
                 PROVE  Distinct(items[q])' /\ Vouched(items[q])'
      OBVIOUS
    <3>1. CASE q = r
      BY <3>1, <2>0, <2>4 DEF TypeOK, Distinct, Vouched
    <3>2. CASE q # r
      BY <3>2, <2>0, <2>4, <1>b DEF TypeOK, Distinct, Vouched
    <3> QED BY <3>1, <3>2
  <2> QED BY <2>5, <2>6, <2>7
<1>6. ASSUME NEW r \in Requests, Report(r)
      PROVE  Inv'
  <2>1. TypeOK' /\ Admission'
    BY <1>6 DEF Report, TypeOK, Admission, Admitted, Finish, Goto
  <2> QED BY <1>6, <1>c, <2>1 DEF Report, Next, Step
<1>7. ASSUME NEW r \in Requests, WriteFails(r)
      PROVE  Inv'
  <2>0. Next /\ << >> \in Lists /\ DOMAIN << >> = {}
    BY <1>7, GateAssumption DEF Next, Step, Lists
  <2>1. TypeOK' /\ Admission'
    BY <1>7, <2>0 DEF WriteFails, Finish, Goto, TypeOK, Admission, Admitted
  <2>2. Vouched(table)'
    BY <1>7, <2>0, <1>b DEF WriteFails, TypeOK, Vouched
  <2>3. \A q \in Requests : Distinct(items[q])' /\ Vouched(items[q])'
    <3> SUFFICES ASSUME NEW q \in Requests
                 PROVE  Distinct(items[q])' /\ Vouched(items[q])'
      OBVIOUS
    <3>1. CASE q = r
      BY <3>1, <1>7, <2>0 DEF WriteFails, TypeOK, Distinct, Vouched
    <3>2. CASE q # r
      BY <3>2, <1>7, <2>0, <1>b DEF WriteFails, TypeOK, Distinct, Vouched
    <3> QED BY <3>1, <3>2
  <2> QED BY <2>1, <2>2, <2>3
<1>8. ASSUME NEW s \in Watched, Show(s)
      PROVE  Inv'
  <2>0. UNCHANGED <<table, items, pc, call>> /\ Next
    BY <1>8 DEF Show, request, Next
  <2>1. Stored(table, s) \in Records \cup {None}
    BY CallAssumption, StoredType DEF TypeOK, Lists
  <2>2. TypeOK' /\ Admission'
    BY <1>8, <2>1 DEF Show, request, TypeOK, Admission, Admitted
  <2> QED BY <2>0, <2>2, <1>c
<1>9. CASE Crash
  <2>0. Next /\ << >> \in Lists /\ DOMAIN << >> = {}
    BY <1>9, GateAssumption DEF Next, Lists
  <2>1. TypeOK' /\ Admission'
    BY <1>9, <2>0 DEF Crash, TypeOK, Admission, Admitted
  <2>2. Vouched(table)'
    BY <1>9, <2>0, <1>b DEF Crash, TypeOK, Vouched
  <2>3. \A q \in Requests : Distinct(items[q])' /\ Vouched(items[q])'
    BY <1>9, <2>0 DEF Crash, Distinct, Vouched
  <2> QED BY <2>1, <2>2, <2>3
<1> QED
  BY <1>0, <1>1, <1>2, <1>3, <1>4, <1>5, <1>6, <1>7, <1>8, <1>9 DEF Next, Step

(* The stored list, the requests and what readers were shown keep their types: *)
(* never more than Limit decisions, never two about one subject.               *)
THEOREM GateTypeCorrect == Spec => []TypeOK
<1>1. Inv => TypeOK
  BY DEF Inv
<1> QED BY <1>1, InvInit, InvNext, PTL DEF Spec

(* Under dual approval no block is in force by one person's decision, whatever *)
(* users save, approve and revoke at once, and whatever writes fail.           *)
THEOREM BlocksHaveTwoPersons == Spec => []TwoPersonRule
<1>1. Inv => TwoPersonRule
  BY DEF Inv, Vouched, TwoPersonRule
<1> QED BY <1>1, InvInit, InvNext, PTL DEF Spec
-------------------------------------------------------------------------------
(* Lists as functions: what is stored about each subject.                      *)

(* A subject's decision is the record at its place in the list.                *)
LEMMA StoredAt ==
    ASSUME NEW list, Proper(list), NEW s, NEW i \in DOMAIN list, list[i].subject = s
    PROVE  Stored(list, s) = list[i].rec /\ Stored(list, s) # None
<1>1. i \in Places(list, s)
  BY DEF Places
<1>2. (CHOOSE j \in Places(list, s) : TRUE) \in Places(list, s)
  BY <1>1
<1>3. (CHOOSE j \in Places(list, s) : TRUE) = i
  BY <1>2 DEF Places, Proper, Distinct
<1>4. list[i] \in Items
  BY DEF Proper
<1> QED BY <1>1, <1>3, <1>4, GateAssumption DEF Stored, Items

LEMMA StoredNowhere ==
    ASSUME NEW list, NEW s, \A i \in DOMAIN list : list[i].subject # s
    PROVE  Stored(list, s) = None
BY DEF Stored, Places

(* Lists with the same records store the same.                                 *)
LEMMA SameStored ==
    ASSUME NEW l, Proper(l), NEW m, Proper(m), NEW s,
           \A i \in DOMAIN l : \E j \in DOMAIN m : l[i] = m[j],
           \A j \in DOMAIN m : \E i \in DOMAIN l : l[i] = m[j]
    PROVE  Stored(l, s) = Stored(m, s)
<1>1. CASE \E i \in DOMAIN l : l[i].subject = s
  <2>1. PICK i \in DOMAIN l : l[i].subject = s
    BY <1>1
  <2>2. PICK j \in DOMAIN m : l[i] = m[j]
    OBVIOUS
  <2>3. Stored(l, s) = l[i].rec
    BY <2>1, StoredAt
  <2>4. Stored(m, s) = m[j].rec
    BY <2>1, <2>2, StoredAt
  <2> QED BY <2>2, <2>3, <2>4
<1>2. CASE \A i \in DOMAIN l : l[i].subject # s
  BY <1>2, StoredNowhere
<1> QED BY <1>1, <1>2

(* Reading back changes the order only.                                        *)
LEMMA RereadStored ==
    ASSUME NEW list, Proper(list), NEW s
    PROVE  Stored(Reread(list), s) = Stored(list, s)
<1>1. CASE ~Database
  BY <1>1 DEF Reread
<1>2. CASE Database
  <2>0. list \in Seq(Items) /\ Len(list) \in Nat /\ DOMAIN list = 1 .. Len(list)
    BY DEF Proper
  <2>1. Reread(list) = [i \in DOMAIN list |-> list[Len(list) + 1 - i]]
    BY <1>2 DEF Reread
  <2>2. \A j \in DOMAIN list : /\ Len(list) + 1 - j \in DOMAIN Reread(list)
                               /\ Reread(list)[Len(list) + 1 - j] = list[j]
    <3> TAKE j \in DOMAIN list
    <3>1. Len(list) + 1 - j \in DOMAIN list /\ Len(list) + 1 - (Len(list) + 1 - j) = j
      BY <2>0
    <3> QED BY <2>1, <3>1
  <2> QED BY <2>2, RereadProper, SameStored
<1> QED BY <1>1, <1>2

(* Putting a record changes what is stored about its subject.                  *)
LEMMA PutStored ==
    ASSUME NEW list, Proper(list), NEW s \in Subjects, NEW rec \in Records, NEW t
    PROVE  Stored(Put(list, s, rec), t) = IF t = s THEN rec ELSE Stored(list, t)
<1> DEFINE new == Put(list, s, rec)
<1>0. list \in Seq(Items) /\ Len(list) \in Nat /\ DOMAIN list = 1 .. Len(list)
      /\ Proper(new)
      /\ \A i \in DOMAIN new : new[i] = Item(s, rec) \/ \E j \in DOMAIN list : new[i] = list[j]
  BY PutProper DEF Proper
<1>1. \E i \in DOMAIN new : new[i] = Item(s, rec)
  <2>1. CASE Places(list, s) = {}
    <3>1. new = <<Item(s, rec)>> \o list
      BY <2>1 DEF Put
    <3>2. 1 \in DOMAIN new /\ new[1] = Item(s, rec)
      BY <1>0, <3>1
    <3> QED BY <3>2
  <2>2. CASE Places(list, s) # {}
    BY <2>2 DEF Put, Places
  <2> QED BY <2>1, <2>2
<1>2. \A j \in DOMAIN list : list[j].subject # s => \E i \in DOMAIN new : new[i] = list[j]
  <2>1. CASE Places(list, s) = {}
    <3>1. new = <<Item(s, rec)>> \o list
      BY <2>1 DEF Put
    <3>2. \A j \in DOMAIN list : j + 1 \in DOMAIN new /\ new[j + 1] = list[j]
      BY <1>0, <3>1
    <3> QED BY <3>2
  <2>2. CASE Places(list, s) # {}
    BY <2>2 DEF Put
  <2> QED BY <2>1, <2>2
<1> HIDE DEF new
<1>3. CASE t = s
  <2>1. PICK i \in DOMAIN new : new[i] = Item(s, rec)
    BY <1>1
  <2>2. new[i].subject = t /\ new[i].rec = rec
    BY <1>3, <2>1
  <2>3. Stored(new, t) = rec
    BY <1>0, <2>2, StoredAt
  <2> QED BY <1>3, <2>3 DEF new
<1>4. CASE t # s
  <2>1. CASE \E j \in DOMAIN list : list[j].subject = t
    <3>1. PICK j \in DOMAIN list : list[j].subject = t
      BY <2>1
    <3>2. PICK i \in DOMAIN new : new[i] = list[j]
      BY <1>2, <1>4, <3>1
    <3>3. Stored(list, t) = list[j].rec /\ Stored(new, t) = list[j].rec
      BY <1>0, <3>1, <3>2, StoredAt
    <3> QED BY <1>4, <3>3 DEF new
  <2>2. CASE \A j \in DOMAIN list : list[j].subject # t
    <3>1. \A i \in DOMAIN new : new[i].subject # t
      BY <1>0, <1>4, <2>2
    <3>2. Stored(new, t) = None /\ Stored(list, t) = None
      BY <2>2, <3>1, StoredNowhere
    <3> QED BY <1>4, <3>2 DEF new
  <2> QED BY <2>1, <2>2
<1> QED BY <1>3, <1>4

(* Truncating a list that is one too long costs the last subject its decision. *)
LEMMA KeptStored ==
    ASSUME NEW list, Proper(list), Len(list) <= Limit + 1, NEW t
    PROVE  Stored(Kept(list), t) =
               IF Len(list) = Limit + 1 /\ t = list[Limit + 1].subject THEN None
               ELSE Stored(list, t)
<1>0. /\ list \in Seq(Items) /\ Len(list) \in Nat /\ DOMAIN list = 1 .. Len(list)
      /\ Limit \in Nat \ {0}
  BY GateAssumption DEF Proper
<1>1. CASE Len(list) # Limit + 1
  <2>a. \A n, m \in Nat : n <= m + 1 /\ n # m + 1 => n < m \/ n = m
    OBVIOUS
  <2>0. Len(list) < Limit \/ Len(list) = Limit
    BY <1>0, <1>1, <2>a
  <2>1. Kept(list) = SubSeq(list, 1, Len(list))
    BY <2>0 DEF Kept
  <2>2. Kept(list) = list
    BY <1>0, <2>1
  <2> QED BY <1>1, <2>2
<1>2. CASE Len(list) = Limit + 1
  <2>1. Kept(list) = SubSeq(list, 1, Limit)
    BY <1>0, <1>2 DEF Kept
  <2>2. DOMAIN Kept(list) = 1 .. Limit /\ \A i \in 1 .. Limit : Kept(list)[i] = list[i]
    BY <1>0, <1>2, <2>1
  <2>3. Proper(Kept(list))
    BY KeptProper
  <2>4. Limit + 1 \in DOMAIN list
    BY <1>0, <1>2
  <2>5. CASE t = list[Limit + 1].subject
    <3>1. \A i \in DOMAIN Kept(list) : Kept(list)[i].subject # t
      <4> SUFFICES ASSUME NEW i \in 1 .. Limit, list[i].subject = t PROVE FALSE
        BY <2>2
      <4>1. i \in DOMAIN list /\ i # Limit + 1
        BY <1>0, <1>2
      <4> QED BY <2>4, <2>5, <4>1 DEF Proper, Distinct
    <3> QED BY <1>2, <2>5, <3>1, StoredNowhere
  <2>6. CASE t # list[Limit + 1].subject
    <3>1. CASE \E i \in DOMAIN list : list[i].subject = t
      <4>1. PICK i \in DOMAIN list : list[i].subject = t
        BY <3>1
      <4>2. i \in DOMAIN Kept(list) /\ Kept(list)[i] = list[i]
        BY <1>0, <1>2, <2>2, <2>6, <4>1
      <4>3. Stored(list, t) = list[i].rec /\ Stored(Kept(list), t) = list[i].rec
        BY <2>3, <4>1, <4>2, StoredAt
      <4> QED BY <2>6, <4>3
    <3>2. CASE \A i \in DOMAIN list : list[i].subject # t
      <4>1. \A i \in DOMAIN Kept(list) : Kept(list)[i].subject # t
        BY <3>2, KeptProper
      <4>2. Stored(list, t) = None /\ Stored(Kept(list), t) = None
        BY <3>2, <4>1, StoredNowhere
      <4> QED BY <2>6, <4>2
    <3> QED BY <3>1, <3>2
  <2> QED BY <2>5, <2>6
<1> QED BY <1>1, <1>2

(* A list is as long as the number of subjects it holds.                       *)
HeldIn(list) == {s \in Subjects : Stored(list, s) # None}

LEMMA HeldCount ==
    ASSUME NEW list, Proper(list)
    PROVE  Cardinality(HeldIn(list)) = Len(list)
<1>0. list \in Seq(Items) /\ Len(list) \in Nat /\ DOMAIN list = 1 .. Len(list)
  BY DEF Proper
<1> DEFINE f == [i \in 1 .. Len(list) |-> list[i].subject]
<1>1. \A i \in 1 .. Len(list) : list[i].subject \in HeldIn(list)
  <2> TAKE i \in 1 .. Len(list)
  <2>0. i \in DOMAIN list /\ list[i] \in Items
    BY <1>0
  <2>1. i \in DOMAIN list /\ list[i].subject \in Subjects
    BY <2>0 DEF Items
  <2>2. Stored(list, list[i].subject) # None
    BY <2>1, StoredAt
  <2> QED BY <2>1, <2>2 DEF HeldIn
<1>2. f \in Injection(1 .. Len(list), HeldIn(list))
  BY <1>0, <1>1 DEF Injection, IsInjective, Proper, Distinct
<1>3. \A s \in HeldIn(list) : \E i \in 1 .. Len(list) : f[i] = s
  <2> TAKE s \in HeldIn(list)
  <2>1. \E i \in DOMAIN list : list[i].subject = s
    BY StoredNowhere DEF HeldIn
  <2> QED BY <1>0, <2>1
<1>4. f \in Surjection(1 .. Len(list), HeldIn(list))
  BY <1>1, <1>3 DEF Surjection
<1>5. ExistsBijection(1 .. Len(list), HeldIn(list))
  BY <1>2, <1>4 DEF ExistsBijection, Bijection
<1> QED BY <1>0, <1>5, FS_CountingElements

(* A record that is put makes the list one longer when its subject is new; the *)
(* last place is then that of the list before.                                 *)
LEMMA PutLength ==
    ASSUME NEW list, Proper(list), NEW s \in Subjects, NEW rec \in Records
    PROVE  /\ Stored(list, s) # None => Len(Put(list, s, rec)) = Len(list)
           /\ Stored(list, s) = None => Len(Put(list, s, rec)) = Len(list) + 1
           /\ Stored(list, s) = None /\ Len(list) > 0 =>
                  Put(list, s, rec)[Len(list) + 1] = list[Len(list)]
<1>0. list \in Seq(Items) /\ Len(list) \in Nat /\ DOMAIN list = 1 .. Len(list)
  BY DEF Proper
<1>1. CASE Stored(list, s) # None
  <2>1. Places(list, s) # {}
    BY <1>1 DEF Stored
  <2>2. Put(list, s, rec) =
            [i \in DOMAIN list |-> IF list[i].subject = s THEN Item(s, rec) ELSE list[i]]
    BY <2>1 DEF Put
  <2>3. DOMAIN Put(list, s, rec) = 1 .. Len(list)
    BY <1>0, <2>2
  <2>4. Put(list, s, rec) \in Seq(Items)
    BY PutProper DEF Proper
  <2>5. Len(Put(list, s, rec)) = Len(list)
    BY <1>0, <2>3, <2>4, LenProperties
  <2> QED BY <1>1, <2>5
<1>2. CASE Stored(list, s) = None
  <2>1. Places(list, s) = {}
    <3> SUFFICES ASSUME NEW i \in DOMAIN list, list[i].subject = s PROVE FALSE
      BY DEF Places
    <3> QED BY <1>2, StoredAt
  <2>2. Put(list, s, rec) = <<Item(s, rec)>> \o list
    BY <2>1 DEF Put
  <2> QED BY <1>0, <1>2, <2>2
<1> QED BY <1>1, <1>2
-------------------------------------------------------------------------------
(* The steps of the contract.                                                  *)

(* The decisions of a list.                                                    *)
DecisionsOf(list) == [s \in Subjects |-> Stored(list, s)]

LEMMA SameCount == Contract!Cardinality(Contract!Held) = Cardinality(HeldIn(Current))
BY DEF Contract!Cardinality, Cardinality, Contract!Held, HeldIn

LEMMA SameGateData ==
    /\ Contract!Held = HeldIn(Current)
    /\ \A u, d : Contract!MayDecide(u, d) <=> MayDecide(u, d)
    /\ \A old, u, d : Contract!Saved(old, u, d) = Saved(old, u, d)
    /\ \A rec, u : Contract!Approvable(rec, u) <=> Approvable(rec, u)
    /\ \A rec, u : Contract!Approved(rec, u) = Approved(rec, u)
    /\ \A rec, u : Contract!Revocable(rec, u) <=> Revocable(rec, u)
    /\ \A rec : Contract!Revoked(rec) = Revoked(rec)
    /\ Contract!Decisions = Decisions
BY DEF Contract!Held, HeldIn, Contract!MayDecide, MayDecide, Contract!Saved, Saved,
       Contract!NeedsSecond, NeedsSecond, Contract!Approvable, Approvable,
       Contract!Approved, Approved, Contract!Revocable, Revocable, Contract!Revoked,
       Revoked, Contract!Decisions, Decisions

(* A call that may change its record changes it as the contract says, and a    *)
(* save in a full store may drop another subject's decision.                   *)
LEMMA ChangeContract ==
    ASSUME NEW list \in Lists, Proper(list), NEW c \in Calls, Admitted(c),
           Changes(c, Stored(list, c.subject)),
           DecisionsOf(Current) = DecisionsOf(list),
           DecisionsOf(Current)' = DecisionsOf(Kept(Put(list, c.subject,
                                       Outcome(c, Stored(list, c.subject)))))
    PROVE  Contract!Next
<1> DEFINE s    == c.subject
           old  == Stored(list, s)
           rec  == Outcome(c, old)
           put  == Put(list, s, rec)
           D    == DecisionsOf(list)
           next == [D EXCEPT ![s] = rec]
<1>1. /\ s \in Subjects /\ c.user \in Users /\ old \in Records \cup {None}
      /\ Len(list) <= Limit /\ Len(list) \in Nat /\ Limit \in Nat \ {0}
  BY StoredType, GateAssumption DEF Calls, Admitted, Lists
<1>2. rec \in Records
  BY <1>1, OutcomeType
<1>3. D[s] = old /\ Contract!Held = HeldIn(list)
  BY <1>1, SameGateData DEF DecisionsOf, HeldIn
<1> HIDE DEF s, old, rec
<1>4. Proper(put) /\ \A t : Stored(put, t) = IF t = s THEN rec ELSE Stored(list, t)
  BY <1>1, <1>2, PutProper, PutStored
<1>5. /\ old # None => Len(put) = Len(list)
      /\ old = None => Len(put) = Len(list) + 1
      /\ old = None /\ Len(list) > 0 => put[Len(list) + 1] = list[Len(list)]
  BY <1>1, <1>2, PutLength DEF old
<1> HIDE DEF put
<1>6. Len(put) <= Limit + 1
  BY <1>1, <1>5
<1>7. \A t : Stored(Kept(put), t) =
                 IF Len(put) = Limit + 1 /\ t = put[Limit + 1].subject THEN None
                 ELSE Stored(put, t)
  BY <1>4, <1>6, KeptStored
<1>8. CASE Len(put) # Limit + 1
  <2>1. DecisionsOf(Kept(put)) = next
    BY <1>1, <1>4, <1>7, <1>8 DEF DecisionsOf
  <2>2. DecisionsOf(Current)' = next
    BY <2>1 DEF put, rec, old, s
  <2>3. CASE c.op = "save"
    <3>1. rec = Saved(old, c.user, c.decision) /\ MayDecide(c.user, c.decision)
          /\ c.decision \in Decisions
      BY <2>3 DEF rec, old, s, Outcome, Admitted, Calls
    <3>2. Contract!Save(c.user, s, c.decision)
      BY <1>3, <2>2, <3>1, SameGateData DEF Contract!Save, DecisionsOf
    <3> QED BY <1>1, <3>1, <3>2, SameGateData DEF Contract!Next
  <2>4. CASE c.op = "approve"
    <3>1. /\ rec = Approved(old, c.user) /\ old # None /\ Approvable(old, c.user)
          /\ c.user \in Privileged
      BY <2>4 DEF rec, old, s, Outcome, Admitted, Changes
    <3>2. Contract!Approve(c.user, s)
      BY <1>1, <1>3, <2>2, <3>1, SameGateData
         DEF Contract!Approve, DecisionsOf, HeldIn, old
    <3> QED BY <1>1, <3>2 DEF Contract!Next
  <2>5. CASE c.op = "revoke"
    <3>1. rec = Revoked(old) /\ old # None /\ Revocable(old, c.user)
      BY <2>5 DEF rec, old, s, Outcome, Changes
    <3>2. Contract!Revoke(c.user, s)
      BY <1>1, <1>3, <2>2, <3>1, SameGateData
         DEF Contract!Revoke, DecisionsOf, HeldIn, old
    <3> QED BY <1>1, <3>2 DEF Contract!Next
  <2> QED BY <2>3, <2>4, <2>5 DEF Calls
<1>9. CASE Len(put) = Limit + 1
  <2> DEFINE dropped == put[Limit + 1].subject
  <2>1. old = None /\ Len(list) = Limit /\ put[Limit + 1] = list[Limit]
    BY <1>1, <1>5, <1>9
  <2>2. Limit \in DOMAIN list /\ list[Limit] \in Items
    BY <1>1, <2>1 DEF Lists
  <2>3. dropped \in HeldIn(list)
    <3>1. dropped = list[Limit].subject /\ dropped \in Subjects
      BY <2>1, <2>2 DEF Items
    <3> QED BY <2>2, <3>1, StoredAt DEF HeldIn
  <2>4. s \notin HeldIn(list) /\ Cardinality(HeldIn(list)) >= Limit
    BY <1>1, <2>1, HeldCount DEF HeldIn, old
  <2> HIDE DEF dropped
  <2>5. DecisionsOf(Kept(put)) = [next EXCEPT ![dropped] = None]
    BY <1>1, <1>4, <1>7, <1>9, <2>3 DEF DecisionsOf, dropped, HeldIn
  <2>6. DecisionsOf(Current)' = [next EXCEPT ![dropped] = None]
    BY <2>5 DEF put, rec, old, s
  <2>7. c.op = "save"
    BY <2>1 DEF Changes, old, s
  <2>8. rec = Saved(old, c.user, c.decision) /\ MayDecide(c.user, c.decision)
        /\ c.decision \in Decisions
    BY <2>7 DEF rec, old, s, Outcome, Admitted, Calls
  <2>9. /\ s \notin Contract!Held /\ Contract!Cardinality(Contract!Held) >= Limit
        /\ dropped \in Contract!Held
    BY <1>3, <2>3, <2>4, SameCount, SameGateData
  <2>10. /\ Contract!MayDecide(c.user, c.decision) /\ c.decision \in Contract!Decisions
         /\ rec = Contract!Saved(D[s], c.user, c.decision)
    BY <1>3, <2>8, SameGateData
  <2> HIDE DEF D
  <2>11. DecisionsOf(Current) = D /\ DecisionsOf(Current)' = [next EXCEPT ![dropped] = None]
    BY <2>6 DEF D
  <2> DEFINE E == DecisionsOf(Current)
  <2>12. /\ E' = [[E EXCEPT ![s] = Contract!Saved(E[s], c.user, c.decision)]
                     EXCEPT ![dropped] = None]
    BY <2>10, <2>11
  <2>13. \E x \in Contract!Held :
            E' = [[E EXCEPT ![s] = Contract!Saved(E[s], c.user, c.decision)] EXCEPT ![x] = None]
    BY <2>9, <2>12
  <2>14. Contract!Save(c.user, s, c.decision)
    BY <2>9, <2>10, <2>13 DEF Contract!Save, DecisionsOf
  <2> QED BY <1>1, <2>10, <2>14 DEF Contract!Next
<1> QED BY <1>8, <1>9
-------------------------------------------------------------------------------
(* Until it has written its list, a request holds FILE_LOCK; until it has      *)
(* erased the old one, its new list is that of its call over the stored one.   *)
Planned(r) ==
    LET c == call[r]  old == Stored(table, c.subject) IN
    /\ c \in Calls /\ Admitted(c) /\ Changes(c, old)
    /\ items[r] = Kept(Put(table, c.subject, Outcome(c, old)))

Storing(r) ==
    /\ pc[r] \in {"erase", "rewrite"} => lock = r
    /\ pc[r] = "erase" => Planned(r)
    /\ pc[r] = "rewrite" => table = <<>>

StoreInv == Inv /\ \A r \in Requests : Storing(r)

LEMMA InitStoreInv == Init => StoreInv
<1>1. Init => \A r \in Requests : Storing(r)
  BY DEF Init, Storing
<1> QED BY <1>1, InvInit DEF StoreInv

(* What keeps a request's part: nobody else holding the lock, its own columns  *)
(* and, while it is about to erase the table, the table.                       *)
LEMMA StoringStays ==
    ASSUME NEW q \in Requests, Storing(q), pc'[q] = pc[q], call'[q] = call[q],
           items'[q] = items[q],
           pc[q] \in {"erase", "rewrite"} => lock' = lock /\ table' = table
    PROVE  Storing(q)'
BY DEF Storing, Planned

LEMMA NextStoreInv == StoreInv /\ [Next]_vars => StoreInv'
<1> SUFFICES ASSUME StoreInv, [Next]_vars PROVE StoreInv'
  OBVIOUS
<1>0. Inv' /\ TypeOK /\ Admission /\ Inv /\ \A r \in Requests : Storing(r)
  BY InvNext DEF StoreInv, Inv
<1>n. \A r \in Requests : r # None
  BY CallAssumption
<1> USE DEF Goto, Finish
<1>1. ASSUME NEW r \in Requests, Receive(r) \/ Step(r), NEW q \in Requests
      PROVE  Storing(q)'
  <2>1. CASE q # r
    <3>1. pc'[q] = pc[q] /\ call'[q] = call[q] /\ items'[q] = items[q]
      <4>1. CASE ReadAndDecide(r)
        BY <1>0, <2>1, <4>1 DEF ReadAndDecide, Decide, TypeOK
      <4>2. CASE Receive(r) \/ RefuseAndReport(r) \/ Erase(r) \/ Rewrite(r) \/ Report(r)
                 \/ WriteFails(r)
        BY <1>0, <2>1, <4>2
           DEF Receive, RefuseAndReport, Erase, Rewrite, Report, WriteFails, TypeOK
      <4> QED BY <1>1, <4>1, <4>2 DEF Step
    <3>2. lock = q => lock' = lock /\ table' = table
      <4> SUFFICES ASSUME lock = q PROVE lock' = lock /\ table' = table
        OBVIOUS
      <4>1. ~(pc[r] \in {"erase", "rewrite"})
        BY <1>0, <2>1 DEF Storing
      <4>2. ~ReadAndDecide(r) /\ ~Erase(r) /\ ~Rewrite(r)
        BY <1>n, <4>1 DEF ReadAndDecide, Erase, Rewrite
      <4> QED BY <1>1, <2>1, <4>2 DEF Step, Receive, RefuseAndReport, Report, WriteFails
    <3> QED BY <1>0, <3>1, <3>2, StoringStays DEF Storing
  <2>2. CASE q = r
    <3>1. CASE ReadAndDecide(r)
      <4> DEFINE c   == call[r]
                 old == Stored(table, c.subject)
      <4>1. c \in Calls /\ Admitted(c) /\ pc[r] = "decide"
        BY <1>0, <3>1 DEF ReadAndDecide, Admission
      <4>2. CASE Changes(c, old)
        <5>1. /\ items' = [items EXCEPT ![r] = Kept(Put(table, c.subject, Outcome(c, old)))]
              /\ lock' = r /\ pc' = [pc EXCEPT ![r] = "erase"]
              /\ UNCHANGED <<table, call>>
          BY <3>1, <4>2 DEF ReadAndDecide, Decide
        <5> HIDE DEF c, old
        <5>2. /\ items'[r] = Kept(Put(table, c.subject, Outcome(c, old)))
              /\ pc'[r] = "erase"
          BY <1>0, <5>1 DEF TypeOK
        <5>3. Planned(r)'
          BY <4>1, <4>2, <5>1, <5>2 DEF Planned, c, old
        <5> QED BY <2>2, <5>1, <5>2, <5>3 DEF Storing
      <4>3. CASE ~Changes(c, old)
        <5>1. pc'[r] \in {"report", "done"}
          BY <1>0, <3>1, <4>3 DEF ReadAndDecide, Decide, TypeOK
        <5> QED BY <2>2, <5>1 DEF Storing
      <4> QED BY <4>2, <4>3
    <3>2. CASE Erase(r)
      <4>1. pc'[r] = "rewrite" /\ table' = <<>> /\ lock' = lock /\ lock = r
        BY <1>0, <3>2 DEF Erase, Storing, TypeOK
      <4> QED BY <2>2, <4>1 DEF Storing
    <3>3. CASE Receive(r) \/ RefuseAndReport(r) \/ Rewrite(r) \/ Report(r) \/ WriteFails(r)
      <4>1. pc'[r] \in {"refuse", "decide", "report", "done"}
        BY <1>0, <3>3 DEF Receive, RefuseAndReport, Rewrite, Report, WriteFails, TypeOK
      <4> QED BY <2>2, <4>1 DEF Storing
    <3> QED BY <1>1, <3>1, <3>2, <3>3 DEF Step
  <2> QED BY <2>1, <2>2
<1>2. ASSUME NEW s \in Watched, Show(s), NEW q \in Requests PROVE Storing(q)'
  BY <1>0, <1>2, StoringStays DEF Show, request
<1>3. ASSUME Crash, NEW q \in Requests PROVE Storing(q)'
  BY <1>3 DEF Crash, Storing
<1>4. ASSUME UNCHANGED vars, NEW q \in Requests PROVE Storing(q)'
  BY <1>0, <1>4, StoringStays DEF vars, request
<1> QED BY <1>0, <1>1, <1>2, <1>3, <1>4 DEF StoreInv, Next
-------------------------------------------------------------------------------
(* The refinement, step by step.                                               *)

(* Only the holder of FILE_LOCK has a list to write: its list is the current   *)
(* one, and while nobody is between the two writes the table is.               *)
LEMMA CurrentIs ==
    ASSUME StoreInv
    PROVE  /\ \A r \in Requests : pc[r] = "rewrite" => Current = items[r]
           /\ (\A r \in Requests : pc[r] # "rewrite") => Current = table
<1>1. \A q, r \in Requests : pc[q] = "rewrite" /\ pc[r] = "rewrite" => q = r
  BY DEF StoreInv, Storing
<1> QED BY <1>1 DEF Current

LEMMA CurrentBecomes ==
    ASSUME StoreInv'
    PROVE  /\ \A r \in Requests : pc'[r] = "rewrite" => Current' = items'[r]
           /\ (\A r \in Requests : pc'[r] # "rewrite") => Current' = table'
<1>1. \A q, r \in Requests : pc'[q] = "rewrite" /\ pc'[r] = "rewrite" => q = r
  BY DEF StoreInv, Storing
<1> QED BY <1>1 DEF Current

LEMMA InvProper ==
    ASSUME Inv
    PROVE  /\ table \in Lists /\ Proper(table)
           /\ \A r \in Requests : items[r] \in Lists /\ Proper(items[r])
BY DEF Inv, TypeOK, Lists, Proper, Distinct

(* An empty list holds no decision.                                            *)
LEMMA NothingStored == DecisionsOf(<<>>) = [s \in Subjects |-> None]
BY StoredNowhere DEF DecisionsOf

(* Where the requests between their writes and their lists stay, and the table *)
(* too, so do the decisions.                                                   *)
LEMMA DecisionsStay ==
    ASSUME table' = table,
           \A r \in Requests : (pc'[r] = "rewrite") <=> (pc[r] = "rewrite"),
           \A r \in Requests : pc[r] = "rewrite" => items'[r] = items[r],
           StoreInv, StoreInv'
    PROVE  Current' = Current
<1>1. CASE \E r \in Requests : pc[r] = "rewrite"
  <2>1. PICK r \in Requests : pc[r] = "rewrite"
    BY <1>1
  <2> QED BY <2>1, CurrentIs, CurrentBecomes
<1>2. CASE \A r \in Requests : pc[r] # "rewrite"
  BY <1>2, CurrentIs, CurrentBecomes
<1> QED BY <1>1, <1>2

(* Erasing the old list is the step that takes effect ...                      *)
LEMMA EraseContract ==
    ASSUME StoreInv, StoreInv', NEW r \in Requests, Erase(r)
    PROVE  Contract!Next
<1> DEFINE c   == call[r]
           new == Kept(Put(table, c.subject, Outcome(c, Stored(table, c.subject))))
<1>0. TypeOK /\ Inv /\ pc[r] = "erase" /\ lock = r
  BY DEF StoreInv, Inv, Erase, Storing
<1>1. c \in Calls /\ Admitted(c) /\ Changes(c, Stored(table, c.subject)) /\ items[r] = new
  BY <1>0 DEF StoreInv, Storing, Planned
<1>2. \A q \in Requests : pc[q] # "rewrite"
  BY <1>0 DEF StoreInv, Storing
<1>3. Current = table
  BY <1>2, CurrentIs
<1>4. pc'[r] = "rewrite" /\ items'[r] = items[r]
  BY <1>0 DEF Erase, Goto, TypeOK
<1>5. Current' = new
  BY <1>1, <1>4, CurrentBecomes
<1>6. DecisionsOf(Current) = DecisionsOf(table) /\ DecisionsOf(Current)' = DecisionsOf(new)
  BY <1>3, <1>5 DEF DecisionsOf
<1>7. table \in Lists /\ Proper(table)
  BY <1>0, InvProper
<1> QED BY <1>1, <1>6, <1>7, ChangeContract

(* ... writing the new one changes its order at most ...                       *)
LEMMA RewriteContract ==
    ASSUME StoreInv, StoreInv', NEW r \in Requests, Rewrite(r)
    PROVE  DecisionsOf(Current)' = DecisionsOf(Current)
<1>0. TypeOK /\ Inv /\ pc[r] = "rewrite" /\ lock = r
  BY DEF StoreInv, Inv, Rewrite, Storing
<1>1. Current = items[r] /\ Proper(items[r])
  BY <1>0, CurrentIs, InvProper
<1>2. \A q \in Requests : pc'[q] # "rewrite"
  <2>1. pc' = [pc EXCEPT ![r] = "report"] /\ pc \in [Requests -> {"idle", "refuse",
            "decide", "erase", "rewrite", "report", "done", "lost"}]
    BY <1>0 DEF Rewrite, Goto, TypeOK
  <2>2. \A q \in Requests : q # r => pc[q] # "rewrite"
    BY <1>0 DEF StoreInv, Storing
  <2> QED BY <2>1, <2>2
<1>3. Current' = Reread(items[r])
  BY <1>2, CurrentBecomes DEF Rewrite
<1> QED BY <1>1, <1>3, RereadStored DEF DecisionsOf

(* ... and a failure or a restart between the two loses everything.            *)
LEMMA LoseContract ==
    ASSUME StoreInv, StoreInv', Disturbances # {}, table' = table,
           NEW r \in Requests, pc[r] = "rewrite", \A q \in Requests : pc'[q] # "rewrite"
    PROVE  Contract!Next
<1>1. table = <<>>
  BY DEF StoreInv, Storing
<1>2. Current' = <<>>
  BY <1>1, CurrentBecomes
<1>3. DecisionsOf(Current)' = [s \in Subjects |-> None]
  BY <1>2, NothingStored DEF DecisionsOf
<1> QED BY <1>3 DEF Contract!Next, Contract!Lose, DecisionsOf

LEMMA FailContract ==
    ASSUME StoreInv, StoreInv', NEW r \in Requests, WriteFails(r)
    PROVE  Contract!Next \/ Current' = Current
<1>0. TypeOK /\ Disturbances # {} /\ table' = table
      /\ pc' = [pc EXCEPT ![r] = "done"] /\ items' = [items EXCEPT ![r] = <<>>]
  BY DEF StoreInv, Inv, WriteFails, Goto, Finish
<1>1. /\ pc'[r] = "done"
      /\ \A q \in Requests : q # r => pc'[q] = pc[q] /\ items'[q] = items[q]
  BY <1>0 DEF TypeOK
<1>2. CASE pc[r] = "rewrite"
  <2>1. \A q \in Requests : q # r => pc[q] # "rewrite"
    BY <1>2 DEF StoreInv, Storing
  <2>2. \A q \in Requests : pc'[q] # "rewrite"
    BY <1>1, <2>1
  <2> QED BY <1>0, <1>2, <2>2, LoseContract
<1>3. CASE pc[r] # "rewrite"
  BY <1>0, <1>1, <1>3, DecisionsStay
<1> QED BY <1>2, <1>3

LEMMA CrashContract ==
    ASSUME StoreInv, StoreInv', Crash
    PROVE  Contract!Next \/ Current' = Current
<1>1. /\ Disturbances # {} /\ table' = table
      /\ \A q \in Requests : pc'[q] # "rewrite"
  BY DEF Crash
<1>2. CASE \E r \in Requests : pc[r] = "rewrite"
  BY <1>1, <1>2, LoseContract
<1>3. CASE \A r \in Requests : pc[r] # "rewrite"
  BY <1>1, <1>3, CurrentIs, CurrentBecomes
<1> QED BY <1>2, <1>3

(* The steps that touch neither the table nor a list being written.            *)
LEMMA OtherContract ==
    ASSUME StoreInv, StoreInv',
           \/ \E r \in Requests : \/ Receive(r) \/ RefuseAndReport(r)
                                  \/ ReadAndDecide(r) \/ Report(r)
           \/ \E s \in Watched : Show(s)
           \/ UNCHANGED vars
    PROVE  Current' = Current
<1>0. TypeOK
  BY DEF StoreInv, Inv
<1>1. ASSUME NEW r \in Requests, Receive(r) \/ RefuseAndReport(r) \/ Report(r)
      PROVE  Current' = Current
  <2>1. /\ table' = table /\ items' = items /\ pc[r] # "rewrite" /\ pc'[r] # "rewrite"
        /\ \A q \in Requests : q # r => pc'[q] = pc[q]
    BY <1>0, <1>1 DEF Receive, RefuseAndReport, Report, Goto, Finish, TypeOK
  <2> QED BY <2>1, DecisionsStay
<1>2. ASSUME NEW r \in Requests, ReadAndDecide(r)
      PROVE  Current' = Current
  <2>1. /\ table' = table /\ pc[r] # "rewrite" /\ pc'[r] # "rewrite"
        /\ \A q \in Requests : q # r => pc'[q] = pc[q] /\ items'[q] = items[q]
    BY <1>0, <1>2 DEF ReadAndDecide, Decide, Goto, Finish, TypeOK
  <2> QED BY <2>1, DecisionsStay
<1>3. ASSUME NEW s \in Watched, Show(s) PROVE Current' = Current
  BY <1>3 DEF Show, request, Current
<1>4. CASE UNCHANGED vars
  BY <1>4 DEF vars, request, Current
<1> QED BY <1>1, <1>2, <1>3, <1>4

(* Requests that save, approve and revoke at once, each writing the whole list *)
(* in two steps, change one decision at a time as the contract allows: nobody  *)
(* else's save is overwritten, a decision goes missing only to make room for a *)
(* new one in a full store, and all of them only to a failure or a restart.    *)
THEOREM StoreImplementsContract == Spec => ContractSpec
<1> DEFINE decisions == DecisionsOf(Current)
<1>1. Init => Contract!Init
  <2> SUFFICES ASSUME Init PROVE Contract!Init
    OBVIOUS
  <2>1. Current = <<>>
    BY DEF Init, Current
  <2> QED BY <2>1, NothingStored DEF Contract!Init, DecisionsOf
<1>2. StoreInv /\ StoreInv' /\ [Next]_vars => Contract!Next \/ decisions' = decisions
  <2> SUFFICES ASSUME StoreInv, StoreInv', [Next]_vars
               PROVE  Contract!Next \/ decisions' = decisions
    OBVIOUS
  <2>1. ASSUME Current' = Current PROVE decisions' = decisions
    BY <2>1 DEF DecisionsOf
  <2>2. ASSUME NEW r \in Requests, Receive(r) \/ Step(r)
        PROVE  Contract!Next \/ decisions' = decisions
    <3>1. CASE Erase(r)
      BY <3>1, EraseContract
    <3>2. CASE Rewrite(r)
      BY <3>2, RewriteContract
    <3>3. CASE WriteFails(r)
      BY <2>1, <3>3, FailContract
    <3>4. CASE Receive(r) \/ RefuseAndReport(r) \/ ReadAndDecide(r) \/ Report(r)
      BY <2>1, <3>4, OtherContract
    <3> QED BY <2>2, <3>1, <3>2, <3>3, <3>4 DEF Step
  <2>3. CASE Crash
    BY <2>1, <2>3, CrashContract
  <2>4. CASE (\E s \in Watched : Show(s)) \/ UNCHANGED vars
    BY <2>1, <2>4, OtherContract
  <2> QED BY <2>2, <2>3, <2>4 DEF Next
<1>3. StoreInv /\ StoreInv' /\ [Next]_vars
          => [Contract!Next]_([s \in Subjects |-> Stored(Current, s)])
  BY <1>2 DEF DecisionsOf
<1> QED BY <1>1, <1>3, InitStoreInv, NextStoreInv, PTL
        DEF Spec, ContractSpec, Contract!Spec
===============================================================================
