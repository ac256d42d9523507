-------------------------- MODULE WorkbenchRunProofs --------------------------
(* Proofs about WorkbenchRun, for any runs and cases, any time to live and     *)
(* timeout, and whatever may go wrong.                                         *)
EXTENDS WorkbenchRun, TLAPS

-------------------------------------------------------------------------------
(* What typing needs to know beside TypeOK: a worker that reports has come to  *)
(* a result, and one that commits has loaded its run and its case.             *)
Loads == [status: Verdicts, result: Verdicts \cup {"unknown"}]

Staged(r) ==
    /\ pc[r] \in {"report", "record"} => verdict[r] \in Verdicts
    /\ pc[r] = "commit" => loaded[r] \in Loads

TypeInv == TypeOK /\ \A r \in Runs : Staged(r)

(* No run has been started yet.                                                *)
LEMMA InitTypeInv == Init => TypeInv
BY RunAssumption DEF Init, TypeInv, TypeOK, Staged, Attempts

(* An update of the job in memory keeps its types.                             *)
LEMMA UpdateJobType ==
    ASSUME TypeOK, NEW r \in Runs, NEW s \in Statuses, UpdateJob(r, s)
    PROVE  /\ job' \in [Runs -> Statuses \cup {None}]
           /\ age' \in [Runs -> (0..(Ttl + 1)) \cup {None}]
<1>1. 0 \in 0..(Ttl + 1)
  BY RunAssumption
<1>2. CASE job[r] = None
  BY <1>2 DEF UpdateJob, TypeOK, memory
<1>3. CASE job[r] # None
  BY <1>1, <1>3 DEF UpdateJob, TypeOK
<1> QED BY <1>2, <1>3

(* So does reading it.                                                         *)
LEMMA ReadJobType ==
    ASSUME TypeOK, NEW r \in Runs, ReadJob(r)
    PROVE  /\ job' \in [Runs -> Statuses \cup {None}]
           /\ age' \in [Runs -> (0..(Ttl + 1)) \cup {None}]
           /\ Cached(r) \in Statuses \cup {None}
BY DEF ReadJob, Cached, TypeOK

(* An update of the row keeps the types and does not count beyond its bound.   *)
LEMMA UpdateRowType ==
    ASSUME TypeInv, NEW r \in Runs, NEW s \in Statuses \ {"setup_failed"},
           NEW next \in {"setup", "persist"}, UpdateRow(r, s, next),
           UNCHANGED <<verdict, process, memory, center, view>>
    PROVE  TypeInv'
<1> USE DEF UpdateRow, Goto, process, memory, center, TypeInv
<1>1. row' \in [Runs -> (Statuses \ {"setup_failed"}) \cup {None}]
  BY DEF TypeOK
<1>2. tries' \in [Runs -> 0..Attempts]
  BY DEF TypeOK, Attempts
<1>3. TypeOK'
  BY <1>1, <1>2 DEF TypeOK
<1>4. \A q \in Runs : Staged(q)'
  BY DEF TypeOK, Staged
<1> QED BY <1>3, <1>4

(* The runner ends, or is killed, with a verdict.                              *)
LEMMA ConcludeType ==
    ASSUME TypeInv, NEW r \in Runs, NEW v \in Verdicts, Conclude(r, v),
           runner' \in [Runs -> {None, "silent", "partial", "passed", "failed", "killed"}]
    PROVE  TypeInv'
<1> USE DEF Conclude, Goto, memory, center, TypeInv
<1>1. TypeOK'
  BY DEF TypeOK
<1>2. \A q \in Runs : Staged(q)'
  BY DEF TypeOK, Staged
<1> QED BY <1>1, <1>2

(* A move of one run: of its request, its worker, its runner or its reader.    *)
Move(r) == StartRun(r) \/ Step(r) \/ RunnerExits(r) \/ RunnerWrites(r) \/ GetRun(r)

(* Every move of a run keeps the types.                                        *)
LEMMA MoveType ==
    ASSUME TypeInv, NEW r \in Runs, Move(r)
    PROVE  TypeInv'
<1> USE DEF Goto, worker, process, memory, center, TypeInv
<1>1. CASE StartRun(r) \/ AppendRow(r) \/ StartFails(r) \/ Launch(r)
  <2>1. TypeOK'
    BY <1>1 DEF StartRun, AppendRow, StartFails, Launch, TypeOK, Statuses
  <2>2. \A q \in Runs : Staged(q)'
    BY <1>1 DEF StartRun, AppendRow, StartFails, Launch, TypeOK, Staged
  <2> QED BY <2>1, <2>2
<1>2. CASE MarkJob(r)
  <2>1. UpdateJob(r, "running") /\ "running" \in Statuses
    BY <1>2 DEF MarkJob, Statuses
  <2>2. TypeOK'
    BY <1>2, <2>1, UpdateJobType DEF MarkJob, TypeOK, Attempts
  <2>3. \A q \in Runs : Staged(q)'
    BY <1>2 DEF MarkJob, TypeOK, Staged
  <2> QED BY <2>2, <2>3
<1>3. CASE MarkRow(r)
  BY <1>3, UpdateRowType DEF MarkRow, Statuses
<1>4. CASE SetupFails(r)
  <2>1. UpdateJob(r, "setup_failed") /\ "setup_failed" \in Statuses
    BY <1>4 DEF SetupFails, Statuses
  <2>2. TypeOK'
    BY <1>4, <2>1, UpdateJobType DEF SetupFails, TypeOK
  <2>3. \A q \in Runs : Staged(q)'
    BY <1>4 DEF SetupFails, TypeOK, Staged
  <2> QED BY <2>2, <2>3
<1>5. CASE StartRunner(r) \/ ReadLine(r) \/ ReadLineReturns(r) \/ WorkerRaises(r)
  <2>1. TypeOK'
    BY <1>5 DEF StartRunner, ReadLine, ReadLineReturns, WorkerRaises, TypeOK
  <2>2. \A q \in Runs : Staged(q)'
    BY <1>5 DEF StartRunner, ReadLine, ReadLineReturns, WorkerRaises, TypeOK, Staged
  <2> QED BY <2>1, <2>2
<1>6. CASE RunnerEnded(r)
  BY <1>6, ConcludeType DEF RunnerEnded, Exited, Verdicts, TypeOK
<1>7. CASE KillRunner(r)
  BY <1>7, ConcludeType DEF KillRunner, Verdicts, TypeOK
<1>8. CASE Report(r)
  <2>1. UpdateJob(r, verdict[r]) /\ verdict[r] \in Statuses
    BY <1>8 DEF Report, Staged, Statuses
  <2>2. TypeOK'
    BY <1>8, <2>1, UpdateJobType DEF Report, TypeOK, Attempts
  <2>3. \A q \in Runs : Staged(q)'
    BY <1>8 DEF Report, TypeOK, Staged
  <2> QED BY <2>2, <2>3
<1>9. CASE Record(r)
  BY <1>9, UpdateRowType DEF Record, Staged, Statuses, Verdicts
<1>10. CASE LoadCase(r)
  <2>1. ReadJob(r)
    BY <1>10 DEF LoadCase
  <2>2. CaseOf[r] \in Cases
    BY RunAssumption
  <2>3. FinalStatus(r) \in Persistable => FinalStatus(r) \in Verdicts
    BY DEF Persistable
  <2>4. loaded' \in [Runs -> Loads \cup {None}]
    BY <1>10, <2>2, <2>3 DEF LoadCase, TypeOK, Loads
  <2>5. TypeOK'
    BY <1>10, <2>1, <2>4, ReadJobType DEF LoadCase, TypeOK, Loads
  <2>6. \A q \in Runs : Staged(q)'
    BY <1>10, <2>2, <2>3 DEF LoadCase, TypeOK, Staged, Loads
  <2> QED BY <2>5, <2>6
<1>11. CASE CommitCase(r)
  <2>1. loaded[r] \in Loads /\ CaseOf[r] \in Cases
    BY <1>11, RunAssumption DEF CommitCase, Staged
  <2>2. loaded[r].status \in Verdicts
    BY <2>1 DEF Loads
  <2>3. TypeOK'
    BY <1>11, <2>1, <2>2 DEF CommitCase, TypeOK
  <2>4. \A q \in Runs : Staged(q)'
    BY <1>11 DEF CommitCase, TypeOK, Staged
  <2> QED BY <2>3, <2>4
<1>12. CASE PersistFails(r)
  <2>1. TypeOK'
    BY <1>12 DEF PersistFails, TypeOK
  <2>2. \A q \in Runs : Staged(q)'
    BY <1>12 DEF PersistFails, TypeOK, Staged
  <2> QED BY <2>1, <2>2
<1>13. CASE RunnerExits(r) \/ RunnerWrites(r)
  BY <1>13 DEF RunnerExits, RunnerWrites, TypeOK, Staged
<1>14. CASE GetRun(r)
  <2>1. TypeOK'
    BY <1>14, ReadJobType DEF GetRun, TypeOK
  <2>2. \A q \in Runs : Staged(q)'
    BY <1>14 DEF GetRun, TypeOK, Staged
  <2> QED BY <2>1, <2>2
<1> QED BY <1>1, <1>2, <1>3, <1>4, <1>5, <1>6, <1>7, <1>8, <1>9, <1>10, <1>11, <1>12,
           <1>13, <1>14 DEF Move, Step

(* A tick does not count beyond the bounds of time.                            *)
LEMMA TickType == ASSUME TypeInv, Tick PROVE TypeInv'
<1> USE DEF Tick, worker, center, TypeInv
<1>1. elapsed' \in [Runs -> 0..Timeout] /\ age' \in [Runs -> (0..(Ttl + 1)) \cup {None}]
  BY RunAssumption DEF TypeOK, Aged
<1>2. TypeOK'
  BY <1>1 DEF TypeOK
<1>3. \A q \in Runs : Staged(q)'
  BY DEF Staged
<1> QED BY <1>2, <1>3

(* A restart keeps the types.                                                  *)
LEMMA CrashType == ASSUME TypeInv, Crash PROVE TypeInv'
<1> USE DEF Crash, process, TypeInv
<1>1. TypeOK'
  BY DEF TypeOK, Attempts
<1>2. \A q \in Runs : Staged(q)'
  BY DEF Staged, TypeOK
<1> QED BY <1>1, <1>2

(* Every step of the system keeps the types.                                   *)
LEMMA NextType == TypeInv /\ [Next]_vars => TypeInv'
<1>1. TypeInv /\ UNCHANGED vars => TypeInv'
  BY DEF vars, worker, process, memory, center, TypeInv, TypeOK, Staged
<1> QED BY <1>1, MoveType, TickType, CrashType DEF Next, Move

(* Whatever fails and whenever the server restarts, every copy of a run's      *)
(* state is of its type and the attempts are bounded.                          *)
THEOREM RunTypeCorrect == Spec => []TypeOK
<1>1. TypeInv => TypeOK
  BY DEF TypeInv
<1> QED BY <1>1, InitTypeInv, NextType, PTL DEF Spec
-------------------------------------------------------------------------------
(* A move of one run leaves every copy of the state of the others alone.       *)
LEMMA RunsApart ==
    ASSUME TypeOK, NEW r \in Runs, Move(r), NEW q \in Runs, q # r
    PROVE  /\ pc'[q] = pc[q] /\ verdict'[q] = verdict[q] /\ job'[q] = job[q]
           /\ age'[q] = age[q] /\ row'[q] = row[q] /\ executions'[q] = executions[q]
           /\ loaded'[q] = loaded[q] /\ view'[q] = view[q]
<1> USE DEF Goto, UpdateJob, ReadJob, UpdateRow, Conclude, worker, process, memory,
            center, TypeOK
<1>1. CASE StartRun(r) \/ AppendRow(r) \/ StartFails(r) \/ Launch(r)
  BY <1>1 DEF StartRun, AppendRow, StartFails, Launch
<1>2. CASE MarkJob(r) \/ MarkRow(r) \/ SetupFails(r) \/ StartRunner(r)
  BY <1>2 DEF MarkJob, MarkRow, SetupFails, StartRunner
<1>3. CASE RunnerEnded(r) \/ KillRunner(r) \/ ReadLine(r) \/ ReadLineReturns(r)
  BY <1>3 DEF RunnerEnded, KillRunner, ReadLine, ReadLineReturns
<1>4. CASE Report(r) \/ Record(r) \/ WorkerRaises(r)
  BY <1>4 DEF Report, Record, WorkerRaises
<1>5. CASE LoadCase(r) \/ CommitCase(r) \/ PersistFails(r)
  BY <1>5 DEF LoadCase, CommitCase, PersistFails
<1>6. CASE RunnerExits(r) \/ RunnerWrites(r) \/ GetRun(r)
  BY <1>6 DEF RunnerExits, RunnerWrites, GetRun
<1> QED BY <1>1, <1>2, <1>3, <1>4, <1>5, <1>6 DEF Move, Step
-------------------------------------------------------------------------------
(* Why the copies of a result agree: none of them is final before the worker   *)
(* has concluded, and it concludes once; afterwards every copy, the one in its *)
(* session too, can only be of that conclusion.                                *)
Early == {"new", "append", "launch", "prepare", "mark", "setup", "poll", "readline"}

Agreed(r) ==
    /\ job[r] \in Verdicts => job[r] = verdict[r]
    /\ row[r] \in Verdicts => row[r] = verdict[r]
    /\ executions[r] \in Verdicts => executions[r] = verdict[r]
Undecided(r) ==
    job[r] \notin Verdicts /\ row[r] \notin Verdicts /\ executions[r] \notin Verdicts

Consistent(r) ==
    /\ Agreed(r)
    /\ pc[r] \in Early => Undecided(r)
    /\ pc[r] = "commit" => loaded[r].status = verdict[r]

(* A case shows a result that one of its runs ended with.                      *)
Attributed(c) ==
    case[c].result # "unknown" =>
        \E r \in Runs : CaseOf[r] = c /\ executions[r] = case[c].result

VerdictInv ==
    /\ TypeInv
    /\ \A r \in Runs : Consistent(r)
    /\ \A c \in Cases : Attributed(c)

(* Nothing has been concluded yet.                                             *)
LEMMA InitVerdictInv == Init => VerdictInv
BY InitTypeInv, NoneAssumption
   DEF Init, VerdictInv, Consistent, Agreed, Undecided, Attributed, Statuses

(* A move of a run keeps its own copies consistent.                            *)
LEMMA MoveConsistent ==
    ASSUME TypeInv, NEW r \in Runs, Consistent(r), Move(r)
    PROVE  Consistent(r)'
<1> USE DEF Goto, worker, process, memory, center, TypeInv, TypeOK, Consistent, Agreed,
            Undecided, Early
<1>0. None \notin Verdicts
  BY NoneAssumption DEF Statuses
<1>1. CASE StartRun(r) \/ AppendRow(r) \/ StartFails(r) \/ Launch(r)
  BY <1>1 DEF StartRun, AppendRow, StartFails, Launch, Verdicts
<1>2. CASE MarkJob(r) \/ SetupFails(r)
  BY <1>2 DEF MarkJob, SetupFails, UpdateJob, Verdicts
<1>3. CASE MarkRow(r)
  BY <1>3 DEF MarkRow, UpdateRow, Verdicts
<1>4. CASE StartRunner(r) \/ ReadLine(r) \/ ReadLineReturns(r) \/ WorkerRaises(r)
  BY <1>4 DEF StartRunner, ReadLine, ReadLineReturns, WorkerRaises
<1>5. CASE RunnerEnded(r) \/ KillRunner(r)
  BY <1>5 DEF RunnerEnded, KillRunner, Conclude
<1>6. CASE Report(r)
  BY <1>6 DEF Report, UpdateJob
<1>7. CASE Record(r)
  BY <1>7 DEF Record, UpdateRow
<1>8. CASE LoadCase(r)
  <2>1. job'[r] \in {job[r], None}
    BY <1>8 DEF LoadCase, ReadJob, Cached
  <2>2. FinalStatus(r) \in Persistable => FinalStatus(r) = job[r]
    BY DEF FinalStatus, Cached, Persistable, Verdicts
  <2>3. pc'[r] = "commit" => loaded'[r].status = verdict[r]
    BY <1>8, <2>2 DEF LoadCase, Persistable
  <2> QED BY <1>0, <1>8, <2>1, <2>3 DEF LoadCase
<1>9. CASE CommitCase(r) \/ PersistFails(r)
  BY <1>9 DEF CommitCase, PersistFails
<1>10. CASE RunnerExits(r) \/ RunnerWrites(r)
  BY <1>10 DEF RunnerExits, RunnerWrites
<1>11. CASE GetRun(r)
  <2>1. job'[r] \in {job[r], None}
    BY <1>11 DEF GetRun, ReadJob, Cached
  <2> QED BY <1>0, <1>11, <2>1 DEF GetRun
<1> QED BY <1>1, <1>2, <1>3, <1>4, <1>5, <1>6, <1>7, <1>8, <1>9, <1>10, <1>11
        DEF Move, Step

(* The results of cases stay attributed: only a commit changes any, and the    *)
(* execution it overwrites can only be the same result of the same run.        *)
LEMMA MoveAttributed ==
    ASSUME VerdictInv, NEW r \in Runs, Move(r), NEW c \in Cases
    PROVE  Attributed(c)'
<1> USE DEF VerdictInv, TypeInv
<1>1. CASE CommitCase(r)
  <2> DEFINE s == loaded[r].status
  <2>1. /\ CaseOf[r] \in Cases /\ s \in Verdicts /\ s = verdict[r]
        /\ executions' = [executions EXCEPT ![r] = s]
    BY <1>1, RunAssumption DEF CommitCase, Staged, Consistent, Loads
  <2>2. case'[c].result \in {case[c].result, s}
        /\ (case'[c].result = case[c].result \/ CaseOf[r] = c)
    BY <1>1, <2>1 DEF CommitCase, TypeOK
  <2>3. executions'[r] = s /\ \A q \in Runs : q # r => executions'[q] = executions[q]
    BY <2>1 DEF TypeOK
  <2> HIDE DEF s
  <2>4. CASE case'[c].result = case[c].result
    <3>1. SUFFICES ASSUME case[c].result # "unknown" PROVE Attributed(c)'
      BY <2>4 DEF Attributed
    <3>2. PICK q \in Runs : CaseOf[q] = c /\ executions[q] = case[c].result
      BY <3>1 DEF Attributed
    <3>3. executions[q] \in Verdicts
      BY <3>1, <3>2 DEF TypeOK
    <3>4. executions'[q] = executions[q]
      BY <2>1, <2>3, <3>3 DEF Consistent, Agreed
    <3> QED BY <2>4, <3>2, <3>4 DEF Attributed
  <2>5. CASE case'[c].result = s /\ CaseOf[r] = c
    BY <2>3, <2>5 DEF Attributed
  <2> QED BY <2>2, <2>4, <2>5
<1>2. CASE ~CommitCase(r)
  <2>1. UNCHANGED <<executions, case>>
    BY <1>2 DEF Move, Step, StartRun, AppendRow, StartFails, Launch, MarkJob, MarkRow,
       SetupFails, StartRunner, RunnerEnded, KillRunner, Conclude, ReadLine,
       ReadLineReturns, Report, Record, WorkerRaises, LoadCase, PersistFails,
       RunnerExits, RunnerWrites, GetRun, center
  <2> QED BY <2>1 DEF Attributed
<1> QED BY <1>1, <1>2

(* Every step keeps the copies consistent.                                     *)
LEMMA NextVerdictInv == VerdictInv /\ [Next]_vars => VerdictInv'
<1> SUFFICES ASSUME VerdictInv, [Next]_vars PROVE VerdictInv'
  OBVIOUS
<1>1. TypeInv'
  BY NextType DEF VerdictInv
<1>2. ASSUME NEW r \in Runs, Move(r) PROVE VerdictInv'
  <2>1. ASSUME NEW q \in Runs PROVE Consistent(q)'
    <3>1. CASE q = r
      BY <1>2, <3>1, MoveConsistent DEF VerdictInv
    <3>2. CASE q # r
      BY <1>2, <3>2, RunsApart DEF VerdictInv, TypeInv, Consistent, Agreed, Undecided
    <3> QED BY <3>1, <3>2
  <2>2. \A c \in Cases : Attributed(c)'
    BY <1>2, MoveAttributed
  <2> QED BY <1>1, <2>1, <2>2 DEF VerdictInv
<1>3. CASE Tick \/ UNCHANGED vars
  <2>1. UNCHANGED <<pc, verdict, job, row, executions, case, loaded>>
    BY <1>3 DEF Tick, vars, worker, memory, center
  <2> QED BY <1>1, <2>1 DEF VerdictInv, Consistent, Agreed, Undecided, Attributed
<1>4. CASE Crash
  <2>1. UNCHANGED <<verdict, row, executions, case>>
    BY <1>4 DEF Crash
  <2>2. \A r \in Runs : job'[r] = None /\ pc'[r] # "commit" /\ (pc'[r] \in Early => pc[r] \in Early)
    BY <1>4 DEF Crash, Early
  <2>3. None \notin Verdicts
    BY NoneAssumption DEF Statuses
  <2> QED BY <1>1, <2>1, <2>2, <2>3 DEF VerdictInv, Consistent, Agreed, Undecided, Attributed
<1> QED BY <1>2, <1>3, <1>4 DEF Next, Move

(* Whatever fails and whenever the server restarts, a final result in the job, *)
(* in the row or in the case center is the one the worker concluded, and a     *)
(* case never shows a result that none of its runs ended with.                 *)
THEOREM OneVerdictEverywhere == Spec => []OneVerdict
<1>1. VerdictInv => OneVerdict
  BY DEF VerdictInv, Consistent, Agreed, Attributed, OneVerdict
<1> QED BY <1>1, InitVerdictInv, NextVerdictInv, PTL DEF Spec
-------------------------------------------------------------------------------
(* Where the result of a run is on its way: it is concluded from "report" on,  *)
(* in the row once the worker has recorded it, in the job from the report on   *)
(* for as long as there is a job, and from there in test_case_executions.      *)
Arrived(r) ==
    /\ verdict[r] # None =>
           pc[r] \in {"report", "record", "persist", "commit", "over", "lost"}
    /\ pc[r] \in {"persist", "commit", "over"} /\ verdict[r] # None => row[r] = verdict[r]
    /\ pc[r] \in {"record", "persist"} /\ verdict[r] # None /\ job[r] # None
           => job[r] = verdict[r]
    /\ pc[r] = "over" /\ verdict[r] # None /\ job[r] # None => executions[r] = verdict[r]

ArrivalInv == VerdictInv /\ \A r \in Runs : Arrived(r)

(* Nothing is on its way at first.                                             *)
LEMMA InitArrivalInv == Init => ArrivalInv
BY InitVerdictInv DEF Init, ArrivalInv, Arrived

(* A move of a run takes its result on, if neither a database call fails nor   *)
(* the worker raises.                                                          *)
LEMMA MoveArrived ==
    ASSUME "db" \notin Disturbances, "raise" \notin Disturbances,
           TypeInv, NEW r \in Runs, Consistent(r), Arrived(r), Move(r)
    PROVE  Arrived(r)'
<1> USE DEF Goto, worker, process, memory, center, TypeInv, TypeOK, Arrived
<1>0. ~May("db") /\ ~May("raise") /\ None \notin Verdicts
  BY NoneAssumption DEF May, Statuses
<1>1. CASE StartRun(r) \/ AppendRow(r) \/ Launch(r)
  BY <1>1 DEF StartRun, AppendRow, Launch
<1>2. CASE MarkJob(r) \/ SetupFails(r)
  BY <1>2 DEF MarkJob, SetupFails, UpdateJob
<1>3. CASE MarkRow(r)
  BY <1>3 DEF MarkRow, UpdateRow
<1>4. CASE StartRunner(r) \/ ReadLine(r) \/ ReadLineReturns(r)
  BY <1>4 DEF StartRunner, ReadLine, ReadLineReturns
<1>5. CASE RunnerEnded(r) \/ KillRunner(r)
  BY <1>5 DEF RunnerEnded, KillRunner, Conclude
<1>6. CASE Report(r)
  BY <1>6 DEF Report, UpdateJob
<1>7. CASE Record(r)
  BY <1>0, <1>7 DEF Record, UpdateRow
<1>8. CASE LoadCase(r)
  <2>1. job'[r] = Cached(r) /\ Cached(r) \in {job[r], None}
    BY <1>8 DEF LoadCase, ReadJob, Cached
  <2>2. pc'[r] = "over" /\ verdict[r] # None => job'[r] = None
    <3> SUFFICES ASSUME Cached(r) # None, verdict[r] # None PROVE pc'[r] # "over"
      BY <2>1
    <3>1. FinalStatus(r) = verdict[r]
      BY <1>8, <2>1 DEF FinalStatus, LoadCase
    <3> QED BY <1>8, <3>1 DEF LoadCase, Persistable
  <2>3. pc'[r] \in {"commit", "over"}
    BY <1>8 DEF LoadCase
  <2> QED BY <1>8, <2>1, <2>2, <2>3 DEF LoadCase
<1>9. CASE CommitCase(r)
  BY <1>9 DEF CommitCase, Consistent
<1>10. CASE RunnerExits(r) \/ RunnerWrites(r)
  BY <1>10 DEF RunnerExits, RunnerWrites
<1>11. CASE GetRun(r)
  <2>1. job'[r] \in {job[r], None}
    BY <1>11 DEF GetRun, ReadJob, Cached
  <2> QED BY <1>11, <2>1 DEF GetRun
<1> QED BY <1>0, <1>1, <1>2, <1>3, <1>4, <1>5, <1>6, <1>7, <1>8, <1>9, <1>10, <1>11
        DEF Move, Step, StartFails, WorkerRaises, PersistFails

(* So does every step.                                                         *)
LEMMA NextArrivalInv ==
    ASSUME "db" \notin Disturbances, "raise" \notin Disturbances
    PROVE  ArrivalInv /\ [Next]_vars => ArrivalInv'
<1> SUFFICES ASSUME ArrivalInv, [Next]_vars PROVE ArrivalInv'
  OBVIOUS
<1>1. VerdictInv'
  BY NextVerdictInv DEF ArrivalInv
<1>2. ASSUME NEW r \in Runs, Move(r), NEW q \in Runs PROVE Arrived(q)'
  <2>1. CASE q = r
    BY <1>2, <2>1, MoveArrived DEF ArrivalInv, VerdictInv
  <2>2. CASE q # r
    BY <1>2, <2>2, RunsApart DEF ArrivalInv, VerdictInv, TypeInv, Arrived
  <2> QED BY <2>1, <2>2
<1>3. CASE Tick \/ UNCHANGED vars
  <2>1. UNCHANGED <<pc, verdict, job, row, executions>>
    BY <1>3 DEF Tick, vars, worker, memory, center
  <2> QED BY <1>1, <2>1 DEF ArrivalInv, Arrived
<1>4. CASE Crash
  BY <1>1, <1>4 DEF Crash, ArrivalInv, Arrived
<1> QED BY <1>1, <1>2, <1>3, <1>4 DEF Next, Move, ArrivalInv

(* If no database call fails and no worker raises, every result a worker came  *)
(* to is in the run's row when the worker is done, although its job may have   *)
(* been evicted at any time and the server may restart.                        *)
THEOREM ResultsReachRows ==
    ASSUME "db" \notin Disturbances, "raise" \notin Disturbances
    PROVE  Spec => []ResultReachesRow
<1>1. ArrivalInv => ResultReachesRow
  BY DEF ArrivalInv, Arrived, ResultReachesRow
<1> QED BY <1>1, InitArrivalInv, NextArrivalInv, PTL DEF Spec

(* Under the same conditions, it is in test_case_executions as well if the job *)
(* is still in memory when the worker is done.                                 *)
THEOREM CachedResultsAreRecorded ==
    ASSUME "db" \notin Disturbances, "raise" \notin Disturbances
    PROVE  Spec => []CachedRunsAreRecorded
<1>1. ArrivalInv => CachedRunsAreRecorded
  BY DEF ArrivalInv, Arrived, CachedRunsAreRecorded
<1> QED BY <1>1, InitArrivalInv, NextArrivalInv, PTL DEF Spec
-------------------------------------------------------------------------------
(* Why readers do not go back: a job is ahead of its row only while the worker *)
(* is between the two updates, and then it has just been updated and cannot be *)
(* evicted; at all other times the row has caught up.                          *)
Told(r) == IF Cached(r) # None THEN Cached(r) ELSE row[r]

Starting == {"append", "launch", "prepare"}
Working  == {"setup", "poll", "readline", "report"}
Ending   == {"persist", "commit", "over"}

Synchronized(r) ==
    /\ pc[r] = "new" => job[r] = None /\ age[r] = None
    /\ pc[r] \in Starting => job[r] = "queued" /\ age[r] = None
    /\ pc[r] = "mark" => job[r] = "running" /\ age[r] = 0
    /\ pc[r] \in Working => job[r] \in {"running", None}
    /\ pc[r] = "record" /\ job[r] # None => age[r] = 0
    /\ pc[r] \in {"new", "append"} <=> row[r] = None
    /\ pc[r] \in {"launch", "prepare", "mark"} => row[r] = "queued"
    /\ pc[r] \in Working \cup {"record"} => row[r] = "running"
    /\ pc[r] \in Ending => Rank(job[r]) <= Rank(row[r])
    /\ pc[r] \notin {"refused", "lost"}

Forward(r) == Synchronized(r) /\ Rank(view[r]) <= Rank(Told(r))

ForwardInv == TypeInv /\ \A r \in Runs : Forward(r)

(* The ranks of the answers.                                                   *)
LEMMA Ranks ==
    /\ Rank(None) = 0 /\ Rank("queued") = 1 /\ Rank("running") = 2
    /\ \A s \in Verdicts \cup {"setup_failed"} : Rank(s) = 3
    /\ \A s \in Statuses \cup {None} : Rank(s) \in 0..3
<1>1. /\ None # "queued" /\ None # "running"
      /\ \A s \in Verdicts \cup {"setup_failed"} : s # None /\ s # "queued" /\ s # "running"
  BY NoneAssumption DEF Statuses, Verdicts
<1>2. Rank(None) = 0 /\ Rank("queued") = 1 /\ Rank("running") = 2
  BY <1>1 DEF Rank
<1>3. \A s \in Verdicts \cup {"setup_failed"} : Rank(s) = 3
  BY <1>1 DEF Rank
<1> QED BY <1>2, <1>3 DEF Statuses

(* Nobody has been told anything yet.                                          *)
LEMMA InitForwardInv == Init => ForwardInv
BY InitTypeInv, Ranks
   DEF Init, ForwardInv, Forward, Synchronized, Told, Cached, Stale,
       Starting, Working, Ending

(* What a reader is told is the job, where it cannot be evicted, or the row.   *)
LEMMA ToldBounds ==
    ASSUME TypeInv, NEW r \in Runs, Forward(r)
    PROVE  /\ pc[r] \in Starting \cup {"mark"} => Told(r) = job[r]
           /\ pc[r] \in Working => Told(r) = "running"
           /\ pc[r] = "record" /\ job[r] # None => Told(r) = job[r]
           /\ pc[r] = "record" /\ job[r] = None => Told(r) = "running"
           /\ pc[r] \in Ending => Rank(Told(r)) <= Rank(row[r])
           /\ Rank(view[r]) \in 0..3 /\ Rank(row[r]) \in 0..3 /\ Rank(job[r]) \in 0..3
           /\ Rank(Told(r)) \in 0..3
<1> USE DEF TypeInv, Forward, Synchronized, Told, Cached, Stale
<1>0. None \notin {"queued", "running"}
  BY NoneAssumption DEF Statuses
<1>1. pc[r] \in Starting \cup {"mark"} => Told(r) = job[r]
  BY <1>0, RunAssumption DEF Starting
<1>2. pc[r] \in Working => Told(r) = "running"
  BY <1>0 DEF Working
<1>3. pc[r] = "record" => Told(r) = IF job[r] # None THEN job[r] ELSE "running"
  BY RunAssumption DEF Working
<1>4. /\ job[r] \in Statuses \cup {None} /\ row[r] \in Statuses \cup {None}
      /\ view[r] \in Statuses \cup {None} /\ Told(r) \in Statuses \cup {None}
  BY DEF TypeOK
<1>5. Rank(view[r]) \in 0..3 /\ Rank(row[r]) \in 0..3 /\ Rank(job[r]) \in 0..3
      /\ Rank(Told(r)) \in 0..3
  BY <1>4, Ranks
<1>6. pc[r] \in Ending => Rank(Told(r)) <= Rank(row[r])
  BY <1>5
<1> QED BY <1>1, <1>2, <1>3, <1>5, <1>6

(* A reader that asks again is not told less, and what the others are told     *)
(* does not change by its asking.                                              *)
LEMMA ReadForward ==
    ASSUME TypeInv, NEW r \in Runs, Forward(r), ReadJob(r), UNCHANGED row,
           pc'[r] = pc[r], view'[r] \in {view[r], Told(r)}
    PROVE  Forward(r)'
<1>1. job'[r] = Cached(r) /\ Cached(r) \in {job[r], None}
      /\ age'[r] = (IF Stale(r) THEN None ELSE age[r])
  BY DEF ReadJob, Cached, TypeInv, TypeOK
<1>2. Told(r)' = Told(r)
  <2>1. CASE Stale(r)
    BY <1>1, <2>1 DEF Told, Cached, Stale
  <2>2. CASE ~Stale(r)
    BY <1>1, <2>2 DEF Told, Cached, Stale
  <2> QED BY <2>1, <2>2
<1>3. Rank(view'[r]) <= Rank(Told(r))
  BY ToldBounds DEF Forward
<1>4. Synchronized(r)'
  <2>1. CASE Stale(r)
    <3>1. pc[r] \notin Starting \cup {"mark"}
      BY <2>1, RunAssumption DEF Stale, Forward, Synchronized, Starting
    <3>2. job'[r] = None /\ Rank(None) = 0
      BY <1>1, <2>1, Ranks DEF Cached
    <3> QED BY <1>1, <2>1, <3>1, <3>2, ToldBounds DEF Forward, Synchronized
  <2>2. CASE ~Stale(r)
    BY <1>1, <2>2 DEF Cached, Forward, Synchronized
  <2> QED BY <2>1, <2>2
<1> QED BY <1>2, <1>3, <1>4 DEF Forward

(* A move of a run takes what readers are told forward, if neither a database  *)
(* call nor the setup fails.                                                   *)
LEMMA MoveForward ==
    ASSUME "db" \notin Disturbances, "setup" \notin Disturbances,
           TypeInv, NEW r \in Runs, Forward(r), Move(r)
    PROVE  Forward(r)'
<1> USE DEF Goto, worker, process, memory, center, TypeInv, TypeOK
<1>0. ~May("db") /\ ~May("setup") /\ None \notin Statuses
  BY NoneAssumption DEF May
<1>1. CASE GetRun(r)
  BY <1>1, ReadForward DEF GetRun, Told
<1>2. CASE LoadCase(r)
  <2>1. ReadJob(r) /\ UNCHANGED <<row, view>> /\ pc[r] = "persist" /\ pc'[r] \in Ending
    BY <1>2 DEF LoadCase, Ending
  <2>2. job'[r] = Cached(r) /\ Cached(r) \in {job[r], None}
    BY <2>1 DEF ReadJob, Cached
  <2>3. Told(r)' = Told(r)
    BY <2>1 DEF ReadJob, Told, Cached, Stale
  <2> QED BY <2>1, <2>2, <2>3, Ranks, ToldBounds
       DEF Forward, Synchronized, Ending, Starting, Working
<1>3. CASE StartRun(r) \/ AppendRow(r) \/ Launch(r)
  <2>1. Synchronized(r)'
    BY <1>0, <1>3 DEF StartRun, AppendRow, Launch, Forward, Synchronized, Starting,
       Working, Ending, Statuses
  <2>2. pc'[r] \in Starting /\ view' = view
    BY <1>3 DEF StartRun, AppendRow, Launch, Starting
  <2>3. Told(r)' = "queued"
    BY <1>0, <2>1, <2>2 DEF Told, Cached, Stale, Synchronized, Statuses
  <2>4. Rank(view[r]) <= 1
    <3>1. Told(r) \in {None, "queued"}
      BY <1>3 DEF StartRun, AppendRow, Launch, Told, Cached, Forward, Synchronized, Starting
    <3> QED BY <3>1, Ranks, ToldBounds DEF Forward
  <2> QED BY <2>1, <2>2, <2>3, <2>4, Ranks DEF Forward
<1>4. CASE MarkJob(r)
  <2>1. job[r] = "queued" /\ row[r] = "queued"
    BY <1>4 DEF MarkJob, Forward, Synchronized, Starting
  <2>2. pc'[r] = "mark" /\ job'[r] = "running" /\ age'[r] = 0 /\ UNCHANGED <<row, view>>
    BY <1>0, <1>4, <2>1 DEF MarkJob, UpdateJob, Statuses
  <2>3. Told(r)' = "running"
    BY <1>0, <2>2, RunAssumption DEF Told, Cached, Stale, Statuses
  <2>4. Rank(view[r]) <= 1
    BY <1>4, <2>1, Ranks, ToldBounds DEF MarkJob, Starting, Forward
  <2>5. Synchronized(r)'
    BY <1>0, <2>1, <2>2 DEF Synchronized, Starting, Working, Ending, Statuses
  <2> QED BY <2>2, <2>3, <2>4, <2>5, Ranks DEF Forward
<1>5. CASE MarkRow(r)
  <2>1. job[r] = "running" /\ age[r] = 0 /\ Told(r) = "running"
    BY <1>5, ToldBounds DEF MarkRow, Forward, Synchronized
  <2>2. CASE pc'[r] = "setup"
    <3>1. row'[r] = "running" /\ UNCHANGED <<job, age, view>>
      BY <1>0, <1>5, <2>2 DEF MarkRow, UpdateRow
    <3>2. Told(r)' = "running"
      BY <2>1, <3>1 DEF Told, Cached, Stale
    <3>3. Synchronized(r)'
      BY <1>0, <2>1, <2>2, <3>1 DEF Synchronized, Starting, Working, Ending, Statuses
    <3> QED BY <2>1, <3>1, <3>2, <3>3 DEF Forward
  <2> QED BY <1>0, <1>5, <2>2 DEF MarkRow, UpdateRow
<1>6. CASE \/ StartRunner(r) \/ ReadLine(r) \/ ReadLineReturns(r)
           \/ RunnerEnded(r) \/ KillRunner(r)
  <2>1. pc[r] \in Working /\ pc'[r] \in Working /\ UNCHANGED <<job, age, row, view>>
    BY <1>6 DEF StartRunner, ReadLine, ReadLineReturns, RunnerEnded, KillRunner, Conclude,
       Working
  <2>2. Told(r)' = Told(r)
    BY <2>1 DEF Told, Cached, Stale
  <2>3. Synchronized(r)'
    BY <2>1 DEF Forward, Synchronized, Starting, Working, Ending
  <2> QED BY <2>1, <2>2, <2>3 DEF Forward
<1>7. CASE Report(r)
  <2>1. row[r] = "running" /\ Told(r) = "running" /\ verdict[r] \in Verdicts
    BY <1>7, ToldBounds DEF Report, Forward, Synchronized, Working, Staged
  <2>2. pc'[r] = "record" /\ UNCHANGED <<row, view>>
    BY <1>7 DEF Report
  <2>3. \/ job'[r] = verdict[r] /\ age'[r] = 0
        \/ job'[r] = None
    BY <1>7 DEF Report, UpdateJob
  <2>4. Told(r)' \in {verdict[r], "running"}
    BY <1>0, <2>1, <2>2, <2>3, RunAssumption DEF Told, Cached, Stale, Statuses
  <2>5. Rank(view[r]) <= 2 /\ Rank(verdict[r]) = 3
    BY <2>1, Ranks DEF Forward
  <2>6. Synchronized(r)'
    BY <1>0, <2>1, <2>2, <2>3 DEF Synchronized, Starting, Working, Ending, Statuses
  <2> QED BY <2>2, <2>4, <2>5, <2>6, Ranks DEF Forward
<1>8. CASE Record(r)
  <2>1. /\ row'[r] = verdict[r] /\ verdict[r] \in Verdicts /\ Rank(verdict[r]) = 3
        /\ pc'[r] = "persist" /\ UNCHANGED <<job, age, view>>
    BY <1>0, <1>8, Ranks DEF Record, UpdateRow, Staged
  <2>2. Told(r)' = IF job[r] # None THEN Told(r) ELSE verdict[r]
    BY <1>8, <2>1, RunAssumption DEF Record, Told, Cached, Stale, Forward, Synchronized
  <2>3. Synchronized(r)'
    BY <1>0, <2>1, ToldBounds
       DEF Synchronized, Starting, Working, Ending, Statuses
  <2>4. Rank(view[r]) <= Rank(Told(r)')
    BY <2>1, <2>2, ToldBounds DEF Forward
  <2> QED BY <2>1, <2>3, <2>4 DEF Forward
<1>9. CASE WorkerRaises(r)
  <2>1. /\ pc[r] \in {"prepare"} \cup Working /\ pc'[r] = "persist"
        /\ UNCHANGED <<job, age, row, view>>
    BY <1>9 DEF WorkerRaises, Working
  <2>2. Told(r)' = Told(r)
    BY <2>1 DEF Told, Cached, Stale
  <2>3. row[r] # None /\ Rank(job[r]) <= Rank(row[r])
    BY <1>0, <2>1, Ranks DEF Forward, Synchronized, Starting, Working, Statuses
  <2>4. Synchronized(r)'
    BY <2>1, <2>3 DEF Synchronized, Starting, Working, Ending
  <2> QED BY <2>1, <2>2, <2>4 DEF Forward
<1>10. CASE CommitCase(r)
  <2>1. pc[r] \in Ending /\ pc'[r] \in Ending /\ UNCHANGED <<job, age, row, view>>
    BY <1>10 DEF CommitCase, Ending
  <2>2. Told(r)' = Told(r)
    BY <2>1 DEF Told, Cached, Stale
  <2>3. Synchronized(r)'
    BY <2>1 DEF Forward, Synchronized, Starting, Working, Ending
  <2> QED BY <2>1, <2>2, <2>3 DEF Forward
<1>11. CASE RunnerExits(r) \/ RunnerWrites(r)
  BY <1>11 DEF RunnerExits, RunnerWrites, Forward, Synchronized, Told, Cached, Stale
<1> QED BY <1>0, <1>1, <1>2, <1>3, <1>4, <1>5, <1>6, <1>7, <1>8, <1>9, <1>10, <1>11
        DEF Move, Step, StartFails, SetupFails, PersistFails

(* Time makes no reader be told less: the job that it makes stale is behind    *)
(* its row, since no time passes while the worker is between the two updates.  *)
LEMMA TickForward ==
    ASSUME ForwardInv, Tick, NEW r \in Runs
    PROVE  Forward(r)'
<1> USE DEF ForwardInv, TypeInv
<1>1. /\ pc[r] \in {"new", "refused", "over", "lost", "readline", "poll"}
      /\ UNCHANGED <<pc, job, row, view>>
  BY DEF Tick, Waiting, worker
<1>2. CASE pc[r] = "new"
  <2>1. Told(r)' = Told(r)
    BY <1>1, <1>2 DEF Told, Cached, Forward, Synchronized
  <2>2. age'[r] = None
    BY <1>2 DEF Tick, Forward, Synchronized
  <2> QED BY <1>1, <1>2, <2>1, <2>2 DEF Forward, Synchronized, Starting, Working, Ending
<1>3. CASE pc[r] # "new"
  <2>1. pc[r] \in Working \cup Ending
    BY <1>1, <1>3 DEF Forward, Synchronized, Working, Ending
  <2>2. Synchronized(r)'
    BY <1>1, <2>1 DEF Forward, Synchronized, Starting, Working, Ending
  <2>3. Told(r)' \in {Told(r), row[r]}
    <3>1. Told(r)' \in {job[r], row[r]} /\ Told(r) \in {job[r], row[r]}
      BY <1>1 DEF Told, Cached
    <3>2. CASE Stale(r) => Stale(r)'
      BY <1>1, <3>2 DEF Told, Cached
    <3>3. CASE Stale(r) /\ ~Stale(r)'
      <4>1. age[r] \in Nat /\ age[r] > Ttl /\ age'[r] = Aged(age[r], Ttl + 1)
        BY <3>3 DEF Stale, Tick, TypeOK
      <4>2. age'[r] > Ttl
        BY <4>1, RunAssumption DEF Aged
      <4>3. age'[r] # None
        <5>1. age[r] \in 0..(Ttl + 1)
          BY <3>3 DEF Stale, TypeOK
        <5>2. age'[r] \in 0..(Ttl + 1)
          BY <4>1, <5>1, RunAssumption DEF Aged
        <5> QED BY <5>2, NoneAssumption
      <4> QED BY <3>3, <4>2, <4>3 DEF Stale
    <3> QED BY <3>2, <3>3
  <2>4. Rank(view[r]) <= Rank(row[r])
    BY <2>1, ToldBounds DEF Forward, Synchronized
  <2> QED BY <1>1, <2>2, <2>3, <2>4 DEF Forward
<1> QED BY <1>2, <1>3

(* Every step takes every reader's answers forward.                            *)
LEMMA NextForwardInv ==
    ASSUME {"db", "setup", "crash"} \cap Disturbances = {}
    PROVE  ForwardInv /\ [Next]_vars => ForwardInv'
<1> SUFFICES ASSUME ForwardInv, [Next]_vars PROVE ForwardInv'
  OBVIOUS
<1>1. TypeInv'
  BY NextType DEF ForwardInv
<1>2. ASSUME NEW r \in Runs, Move(r), NEW q \in Runs PROVE Forward(q)'
  <2>1. CASE q = r
    BY <1>2, <2>1, MoveForward DEF ForwardInv
  <2>2. CASE q # r
    BY <1>2, <2>2, RunsApart
       DEF ForwardInv, TypeInv, Forward, Synchronized, Told, Cached, Stale
  <2> QED BY <2>1, <2>2
<1>3. CASE Tick
  BY <1>1, <1>3, TickForward DEF ForwardInv
<1>4. CASE UNCHANGED vars
  BY <1>1, <1>4 DEF ForwardInv, Forward, Synchronized, Told, Cached, Stale, vars, worker, memory
<1>5. ~Crash
  BY DEF Crash, May
<1> QED BY <1>1, <1>2, <1>3, <1>4, <1>5 DEF Next, Move, ForwardInv

(* Only a read changes what a reader was told, to what it is told now.         *)
LEMMA ViewStep ==
    ASSUME ForwardInv, [Next]_vars
    PROVE  [\A r \in Runs : Rank(view'[r]) >= Rank(view[r])]_view
<1>0. \A r \in Runs : Rank(view[r]) \in 0..3
  BY ToldBounds DEF ForwardInv
<1>1. ASSUME NEW r \in Runs, GetRun(r) PROVE \A q \in Runs : Rank(view'[q]) >= Rank(view[q])
  <2>1. view' = [view EXCEPT ![r] = Told(r)]
    BY <1>1 DEF GetRun, Told
  <2>2. Rank(Told(r)) >= Rank(view[r])
    BY <1>0, ToldBounds DEF ForwardInv, Forward
  <2> QED BY <1>0, <2>1, <2>2 DEF ForwardInv, TypeInv, TypeOK
<1>2. (\A r \in Runs : ~GetRun(r)) => UNCHANGED view
  BY DEF Next, Step, StartRun, AppendRow, StartFails, Launch, MarkJob, MarkRow, SetupFails,
     StartRunner, RunnerEnded, KillRunner, Conclude, ReadLine, ReadLineReturns, Report,
     Record, WorkerRaises, LoadCase, CommitCase, PersistFails, RunnerExits, RunnerWrites,
     Tick, Crash, vars
<1> QED BY <1>1, <1>2

(* If neither a database call nor the setup fails and the server does not      *)
(* restart, nobody who asks for a run again is told an earlier state of it,    *)
(* although reading evicts jobs and jobs and rows are updated one by one.      *)
THEOREM ReadersGoForward ==
    ASSUME {"db", "setup", "crash"} \cap Disturbances = {}
    PROVE  Spec => ReadsNeverGoBack
<1> QED BY InitForwardInv, NextForwardInv, ViewStep, PTL DEF Spec, ReadsNeverGoBack
===============================================================================
