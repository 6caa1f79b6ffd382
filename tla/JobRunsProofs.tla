---------------------------- MODULE JobRunsProofs ----------------------------
(***************************************************************************)
(* Theorems about JobRuns, for any set of processes and any number of       *)
(* crashes: type correctness, and what the account lock guarantees as long  *)
(* as no connection that holds one is lost.                                *)
(***************************************************************************)
EXTENDS JobRuns, FiniteSetTheorems, TLAPS

(***************************************************************************)
(* Type correctness.  A finished job takes back the RUNNING row its         *)
(* process wrote, so the number of those rows has to be a natural number:   *)
(* it is never below the number of processes that are executing the job.    *)
(* A crashed process leaves its row behind.                                *)
(***************************************************************************)
Executing(p) == pc[p] \in {"skip", "body", "plan", "mark", "send", "bind"}
Executors(j) == {p \in Procs : Executing(p) /\ job[p] = j}

RowsCover ==
  \A j \in Jobs :
    IsFiniteSet(Executors(j)) /\ Cardinality(Executors(j)) <= rows[j].RUNNING

\* A process that finishes a job finds a RUNNING row of it.
LEMMA RunningRow ==
  ASSUME TypeOK, RowsCover, NEW p \in Procs, Executing(p)
  PROVE  job[p] \in Jobs /\ rows[job[p]].RUNNING \in Nat \ {0}
<1>1. job[p] \in Jobs
  BY DEF TypeOK, Working, Executing
<1>2. p \in Executors(job[p]) /\ IsFiniteSet(Executors(job[p]))
  BY <1>1 DEF Executors, RowsCover
<1>3. Cardinality(Executors(job[p])) \in Nat /\ Cardinality(Executors(job[p])) # 0
  BY <1>2, FS_CardinalityType, FS_EmptySet
<1>4. rows[job[p]].RUNNING \in Nat
  BY <1>1 DEF TypeOK, Statuses
<1> QED
  BY <1>1, <1>3, <1>4 DEF RowsCover

\* What Finish does to the rows.
LEMMA FinishRows ==
  ASSUME TypeOK, RowsCover, NEW p \in Procs, Executing(p),
         NEW status \in Statuses \ {"RUNNING"}, Finish(p, status)
  PROVE  /\ rows' \in [Jobs -> [Statuses -> Nat]]
         /\ rows'[job[p]].RUNNING = rows[job[p]].RUNNING - 1
         /\ rows'[job[p]][status] = rows[job[p]][status] + 1
         /\ \A s \in Statuses \ {"RUNNING", status} : rows'[job[p]][s] = rows[job[p]][s]
         /\ \A j \in Jobs \ {job[p]} : rows'[j] = rows[j]
<1>1. job[p] \in Jobs /\ rows[job[p]].RUNNING \in Nat \ {0}
  BY RunningRow
<1>2. rows \in [Jobs -> [Statuses -> Nat]]
  BY DEF TypeOK
<1>3. rows[job[p]] \in [Statuses -> Nat]
  BY <1>1, <1>2
<1>4. rows' = [rows EXCEPT ![job[p]] = [rows[job[p]] EXCEPT !["RUNNING"] = @ - 1, ![status] = @ + 1]]
  BY <1>1, <1>2 DEF Finish
<1>5. rows'[job[p]] = [rows[job[p]] EXCEPT !["RUNNING"] = @ - 1, ![status] = @ + 1]
  BY <1>1, <1>2, <1>4
<1>6. rows'[job[p]] \in [Statuses -> Nat]
  BY <1>1, <1>3, <1>5 DEF Statuses
<1>7. \A j \in Jobs \ {job[p]} : rows'[j] = rows[j]
  BY <1>2, <1>4
<1>8. rows' \in [Jobs -> [Statuses -> Nat]]
  BY <1>2, <1>4, <1>5, <1>6
<1> QED
  BY <1>1, <1>3, <1>5, <1>7, <1>8 DEF Statuses

\* Fewer executors and no fewer rows: the rows still cover them.
LEMMA CoverKept ==
  ASSUME TypeOK, RowsCover, rows' \in [Jobs -> [Statuses -> Nat]], NEW j \in Jobs,
         Executors(j)' \subseteq Executors(j), rows'[j].RUNNING >= rows[j].RUNNING
  PROVE  IsFiniteSet(Executors(j)') /\ Cardinality(Executors(j)') <= rows'[j].RUNNING
<1>1. IsFiniteSet(Executors(j)) /\ Cardinality(Executors(j)) <= rows[j].RUNNING
  BY DEF RowsCover
<1>2. /\ IsFiniteSet(Executors(j)') /\ Cardinality(Executors(j)') <= Cardinality(Executors(j))
      /\ Cardinality(Executors(j)') \in Nat /\ Cardinality(Executors(j)) \in Nat
  BY <1>1, FS_Subset, FS_CardinalityType
<1>3. rows[j].RUNNING \in Nat /\ rows'[j].RUNNING \in Nat
  BY DEF TypeOK, Statuses
<1> QED
  BY <1>1, <1>2, <1>3

\* A finished job keeps the types and the cover.
LEMMA FinishCover ==
  ASSUME TypeOK, RowsCover, NEW p \in Procs, Executing(p),
         NEW status \in Statuses \ {"RUNNING"}, Finish(p, status),
         intent' \in {"ABSENT", "PLANNED", "SUBMITTING", "SUBMITTED"},
         atBroker' \in BOOLEAN, sends' \in Nat
  PROVE  TypeOK' /\ RowsCover'
<1>1. job[p] \in Jobs /\ rows[job[p]].RUNNING \in Nat \ {0}
  BY RunningRow
<1>2. rows' \in [Jobs -> [Statuses -> Nat]] /\ rows'[job[p]].RUNNING = rows[job[p]].RUNNING - 1
  BY FinishRows
<1>3. \A j \in Jobs \ {job[p]} : rows'[j] = rows[j]
  BY FinishRows
<1>4. pc' = [pc EXCEPT ![p] = "loop"] /\ job' = [job EXCEPT ![p] = "none"]
  BY DEF Finish, BackToLoop, Goto
<1>5. jobLock' \in [Jobs -> Procs \cup {NoProc}]
  BY <1>1 DEF Finish, Release, TypeOK
<1>6. TypeOK'
  BY <1>2, <1>4, <1>5 DEF Finish, TypeOK, Labels, Working, envVars
<1>7. ~Executing(p)' /\ job'[p] = "none" /\ \A q \in Procs \ {p} : pc'[q] = pc[q] /\ job'[q] = job[q]
  BY <1>4 DEF TypeOK, Executing
<1>8. \A j \in Jobs : Executors(j)' = Executors(j) \ {p}
  BY <1>7 DEF Executors, Executing
<1>9. ASSUME NEW j \in Jobs
      PROVE  IsFiniteSet(Executors(j)') /\ Cardinality(Executors(j)') <= rows'[j].RUNNING
  <2>1. CASE j = job[p]
    <3>1. p \in Executors(j) /\ IsFiniteSet(Executors(j)) /\ Cardinality(Executors(j)) <= rows[j].RUNNING
      BY <2>1 DEF Executors, RowsCover
    <3>2. IsFiniteSet(Executors(j)') /\ Cardinality(Executors(j)') = Cardinality(Executors(j)) - 1
      BY <1>8, <3>1, FS_RemoveElement
    <3>3. Cardinality(Executors(j)) \in Nat
      BY <3>1, FS_CardinalityType
    <3> QED
      BY <1>1, <1>2, <2>1, <3>1, <3>2, <3>3
  <2>2. CASE j # job[p]
    <3>1. rows'[j].RUNNING >= rows[j].RUNNING
      BY <1>3, <2>2 DEF TypeOK, Statuses
    <3> QED
      BY <1>2, <1>8, <3>1, CoverKept
  <2> QED
    BY <2>1, <2>2
<1> QED
  BY <1>6, <1>9 DEF RowsCover

\* A step that starts no execution and leaves the rows alone, or adds a failed
\* run, keeps the cover.
LEMMA QuietCover ==
  ASSUME TypeOK, TypeOK', RowsCover,
         \A q \in Procs : Executing(q)' => Executing(q) /\ job'[q] = job[q],
         \A j \in Jobs : rows'[j].RUNNING = rows[j].RUNNING
  PROVE  RowsCover'
<1>1. ASSUME NEW j \in Jobs
      PROVE  IsFiniteSet(Executors(j)') /\ Cardinality(Executors(j)') <= rows'[j].RUNNING
  <2>1. Executors(j)' \subseteq Executors(j)
    BY DEF Executors
  <2>2. rows' \in [Jobs -> [Statuses -> Nat]] /\ rows'[j].RUNNING >= rows[j].RUNNING
    BY DEF TypeOK, Statuses
  <2> QED
    BY <2>1, <2>2, CoverKept
<1> QED
  BY <1>1 DEF RowsCover

TypeInv == TypeOK /\ RowsCover

\* Every step keeps the types and the cover.
LEMMA TypeStep == TypeInv /\ [Next]_vars => TypeInv'
<1> SUFFICES ASSUME TypeOK, RowsCover, [Next]_vars PROVE TypeOK' /\ RowsCover'
  BY DEF TypeInv
<1> USE DEF TypeOK, Labels, Working, Executing, Goto, BackToLoop, dbVars, orderVars,
            procVars, envVars
<1>1. ASSUME NEW p \in Procs, Start(p) PROVE TypeOK' /\ RowsCover'
  <2>1. TypeOK'
    BY <1>1 DEF Start
  <2> QED
    BY <1>1, <2>1, QuietCover DEF Start
<1>2. ASSUME NEW p \in Procs, Crash(p) PROVE TypeOK' /\ RowsCover'
  <2>1. TypeOK'
    BY <1>2 DEF Crash, DropLocks
  <2> QED
    BY <1>2, <2>1, QuietCover DEF Crash
<1>3. ASSUME NEW p \in Procs, LoseConnection(p) PROVE TypeOK' /\ RowsCover'
  <2>1. TypeOK'
    BY <1>3 DEF LoseConnection, DropLocks
  <2> QED
    BY <1>3, <2>1, QuietCover DEF LoseConnection
<1>4. ASSUME NEW p \in Procs, Heartbeat(p) PROVE TypeOK' /\ RowsCover'
  <2>1. TypeOK'
    BY <1>4 DEF Heartbeat
  <2> QED
    BY <1>4, <2>1, QuietCover DEF Heartbeat
<1>5. ASSUME NEW p \in Procs, NEW j \in Jobs, Tick(p, j) PROVE TypeOK' /\ RowsCover'
  <2>1. TypeOK'
    <3>1. CASE Terminal(j)
      BY <1>5, <3>1 DEF Tick
    <3>2. CASE ~Terminal(j)
      BY <1>5, <3>2 DEF Tick
    <3> QED
      BY <3>1, <3>2
  <2>2. \A q \in Procs : Executing(q)' => Executing(q) /\ job'[q] = job[q]
    BY <1>5 DEF Tick
  <2> QED
    BY <1>5, <2>1, <2>2, QuietCover DEF Tick
<1>6. ASSUME NEW p \in Procs, Reconcile(p) PROVE TypeOK' /\ RowsCover'
  <2>1. TypeOK'
    BY <1>6 DEF Reconcile
  <2> QED
    BY <1>6, <2>1, QuietCover DEF Reconcile
<1>7. ASSUME NEW p \in Procs, SessionFails(p) PROVE TypeOK' /\ RowsCover'
  <2>1. TypeOK'
    BY <1>7 DEF SessionFails
  <2> QED
    BY <1>7, <2>1, QuietCover DEF SessionFails
<1>8. ASSUME NEW p \in Procs, TakeJobLock(p) PROVE TypeOK' /\ RowsCover'
  <2>1. job[p] \in Jobs
    BY <1>8 DEF TakeJobLock
  <2>2. rows' \in [Jobs -> [Statuses -> Nat]] /\ \A j \in Jobs : rows'[j].RUNNING = rows[j].RUNNING
    <3>1. CASE jobLock[job[p]] = NoProc
      BY <1>8, <3>1 DEF TakeJobLock, Statuses
    <3>2. CASE jobLock[job[p]] # NoProc
      <4>1. rows' = [rows EXCEPT ![job[p]] = [rows[job[p]] EXCEPT !["FAILED"] = @ + 1]]
        BY <1>8, <2>1, <3>2 DEF TakeJobLock
      <4>2. rows[job[p]] \in [Statuses -> Nat]
        BY <2>1
      <4>3. [rows[job[p]] EXCEPT !["FAILED"] = @ + 1] \in [Statuses -> Nat]
        BY <4>2 DEF Statuses
      <4> QED
        BY <2>1, <4>1, <4>2, <4>3 DEF Statuses
    <3> QED
      BY <3>1, <3>2
  <2>3. TypeOK'
    <3>1. jobLock' \in [Jobs -> Procs \cup {NoProc}]
      BY <1>8 DEF TakeJobLock
    <3>2. /\ pc' \in [Procs -> Labels] /\ job' \in [Procs -> Jobs \cup {"none"}]
          /\ \A q \in Procs : Working(q)' => job'[q] \in Jobs
      BY <1>8, <2>1 DEF TakeJobLock
    <3> QED
      BY <1>8, <2>2, <3>1, <3>2 DEF TakeJobLock
  <2>4. \A q \in Procs : Executing(q)' => Executing(q) /\ job'[q] = job[q]
    BY <1>8 DEF TakeJobLock
  <2> QED
    BY <2>2, <2>3, <2>4, QuietCover
<1>9. ASSUME NEW p \in Procs, LockConnectionFails(p) PROVE TypeOK' /\ RowsCover'
  <2>1. TypeOK'
    BY <1>9 DEF LockConnectionFails
  <2> QED
    BY <1>9, <2>1, QuietCover DEF LockConnectionFails
<1>10. ASSUME NEW p \in Procs, CheckTerminal(p) PROVE TypeOK' /\ RowsCover'
  <2>1. job[p] \in Jobs /\ pc[p] \in {"check", "checkMissed"}
    BY <1>10 DEF CheckTerminal
  <2>2. CASE Terminal(job[p])
    <3>1. TypeOK'
      <4>1. jobLock' \in [Jobs -> Procs \cup {NoProc}] /\ rows' = rows
        BY <1>10, <2>1, <2>2 DEF CheckTerminal, Release
      <4>2. /\ pc' \in [Procs -> Labels] /\ job' \in [Procs -> Jobs \cup {"none"}]
            /\ \A q \in Procs : Working(q)' => job'[q] \in Jobs
        BY <1>10, <2>2 DEF CheckTerminal
      <4> QED
        BY <1>10, <4>1, <4>2 DEF CheckTerminal
    <3> QED
      BY <1>10, <2>1, <2>2, <3>1, QuietCover DEF CheckTerminal
  <2>3. CASE ~Terminal(job[p])
    <3>1. /\ rows' = [rows EXCEPT ![job[p]] = [rows[job[p]] EXCEPT !.RUNNING = @ + 1]]
          /\ job' = job /\ jobLock' = jobLock
      BY <1>10, <2>3 DEF CheckTerminal, Started
    <3>2. /\ rows' \in [Jobs -> [Statuses -> Nat]] /\ rows'[job[p]].RUNNING = rows[job[p]].RUNNING + 1
          /\ \A j \in Jobs \ {job[p]} : rows'[j] = rows[j]
      BY <2>1, <3>1 DEF Statuses
    <3>3. TypeOK'
      <4>1. /\ pc' \in [Procs -> Labels] /\ job' \in [Procs -> Jobs \cup {"none"}]
            /\ \A q \in Procs : Working(q)' => job'[q] \in Jobs
        BY <1>10, <2>1, <2>3 DEF CheckTerminal
      <4> QED
        BY <1>10, <3>1, <3>2, <4>1 DEF CheckTerminal
    <3>4. \A q \in Procs \ {p} : Executing(q)' <=> Executing(q)
      BY <1>10, <2>3 DEF CheckTerminal
    <3>5. ASSUME NEW j \in Jobs
          PROVE  IsFiniteSet(Executors(j)') /\ Cardinality(Executors(j)') <= rows'[j].RUNNING
      <4>1. CASE j = job[p]
        <5>1. /\ IsFiniteSet(Executors(j)) /\ Cardinality(Executors(j)) <= rows[j].RUNNING
              /\ Cardinality(Executors(j)) \in Nat /\ rows[j].RUNNING \in Nat
          BY FS_CardinalityType DEF RowsCover, Statuses
        <5>2. /\ IsFiniteSet(Executors(j) \cup {p})
              /\ Cardinality(Executors(j) \cup {p}) <= rows[j].RUNNING + 1
          <6> HIDE DEF TypeOK, Labels, Working, Executing
          <6>1. /\ IsFiniteSet(Executors(j) \cup {p})
                /\ \/ Cardinality(Executors(j) \cup {p}) = Cardinality(Executors(j))
                   \/ Cardinality(Executors(j) \cup {p}) = Cardinality(Executors(j)) + 1
            BY <5>1, FS_AddElement, Zenon
          <6> QED
            BY <5>1, <6>1
        <5>3. Executors(j)' \subseteq Executors(j) \cup {p}
          BY <3>1, <3>4 DEF Executors
        <5>4. /\ IsFiniteSet(Executors(j)')
              /\ Cardinality(Executors(j)') <= Cardinality(Executors(j) \cup {p})
              /\ Cardinality(Executors(j)') \in Nat /\ Cardinality(Executors(j) \cup {p}) \in Nat
          BY <5>2, <5>3, FS_Subset, FS_CardinalityType
        <5> QED
          BY <3>2, <4>1, <5>1, <5>2, <5>4
      <4>2. CASE j # job[p]
        <5>1. Executors(j)' \subseteq Executors(j)
          BY <3>1, <3>4, <4>2 DEF Executors
        <5>2. rows'[j].RUNNING >= rows[j].RUNNING
          BY <3>2, <4>2 DEF Statuses
        <5> QED
          BY <3>2, <5>1, <5>2, CoverKept
      <4> QED
        BY <4>1, <4>2
    <3> QED
      BY <3>3, <3>5 DEF RowsCover
  <2> QED
    BY <2>2, <2>3
<1>11. ASSUME NEW p \in Procs, SkipMissed(p) PROVE TypeOK' /\ RowsCover'
  BY <1>11, FinishCover DEF SkipMissed, Statuses
<1>12. ASSUME NEW p \in Procs, RunBody(p) PROVE TypeOK' /\ RowsCover'
  BY <1>12, FinishCover DEF RunBody, Statuses
<1>13. ASSUME NEW p \in Procs, PlanOrResume(p) PROVE TypeOK' /\ RowsCover'
  <2>1. TypeOK'
    BY <1>13 DEF PlanOrResume
  <2> QED
    BY <1>13, <2>1, QuietCover DEF PlanOrResume
<1>14. ASSUME NEW p \in Procs, NothingToSubmit(p) PROVE TypeOK' /\ RowsCover'
  BY <1>14, FinishCover DEF NothingToSubmit, Statuses
<1>15. ASSUME NEW p \in Procs, ResumeUnknown(p) PROVE TypeOK' /\ RowsCover'
  BY <1>15, FinishCover DEF ResumeUnknown, Statuses
<1>16. ASSUME NEW p \in Procs, Mark(p) PROVE TypeOK' /\ RowsCover'
  <2>1. TypeOK'
    BY <1>16 DEF Mark
  <2> QED
    BY <1>16, <2>1, QuietCover DEF Mark
<1>17. ASSUME NEW p \in Procs, Send(p) PROVE TypeOK' /\ RowsCover'
  <2>1. TypeOK'
    BY <1>17 DEF Send
  <2> QED
    BY <1>17, <2>1, QuietCover DEF Send
<1>18. ASSUME NEW p \in Procs, Bind(p) PROVE TypeOK' /\ RowsCover'
  BY <1>18, FinishCover DEF Bind, Statuses
<1>19. CASE Advance
  <2>1. TypeOK'
    BY <1>19 DEF Advance, DayEnd
  <2> QED
    BY <1>19, <2>1, QuietCover DEF Advance
<1>20. CASE UNCHANGED vars
  <2>1. TypeOK'
    BY <1>20 DEF vars
  <2> QED
    BY <1>20, <2>1, QuietCover DEF vars
<1> QED
  BY <1>1, <1>2, <1>3, <1>4, <1>5, <1>6, <1>7, <1>8, <1>9, <1>10, <1>11, <1>12, <1>13,
     <1>14, <1>15, <1>16, <1>17, <1>18, <1>19, <1>20 DEF Next, Engine, RunJob

\* The type invariant holds when nothing has started.
LEMMA TypeInit == Init => TypeInv
<1> SUFFICES ASSUME Init PROVE TypeInv
  OBVIOUS
<1>1. TypeOK
  <2>1. rows \in [Jobs -> [Statuses -> Nat]] /\ clock \in 0 .. DayEnd
    BY DEF Init, DayEnd
  <2>2. \A p \in Procs : ~Working(p)
    BY DEF Init, Working
  <2> QED
    BY <2>1, <2>2 DEF Init, TypeOK, Labels
<1>2. \A j \in Jobs : Executors(j) = {} /\ rows[j].RUNNING = 0
  BY DEF Init, Executors, Executing, Statuses
<1> QED
  BY <1>1, <1>2, FS_EmptySet DEF TypeInv, RowsCover

\* Every variable holds a value of its kind whatever processes start, die and
\* lose their connections: no job takes back a RUNNING row it did not write.
THEOREM TypeCorrect == Spec => []TypeOK
<1>1. TypeInv => TypeOK
  BY DEF TypeInv
<1> QED
  BY <1>1, TypeInit, TypeStep, PTL DEF Spec
-----------------------------------------------------------------------------
(* What the account lock guarantees while no connection that holds a lock   *)
(* is lost: one process is on at a time, so nothing another process does    *)
(* comes between the steps of a job.                                        *)

\* The process that is on holds the account lock.
OneIsOn == broken = {} /\ \A p \in Procs : pc[p] # "off" => accountLock = p

\* A job is executed when no earlier run of it is terminal.
OneRunEach ==
  /\ \A j \in Jobs : rows[j].SUCCEEDED + rows[j].SKIPPED <= 1
  /\ \A p \in Procs : Executing(p) => rows[job[p]].SUCCEEDED + rows[job[p]].SKIPPED = 0

\* An order that left is no longer PLANNED, and one about to leave has not left.
OneSend ==
  /\ sends <= 1 /\ (atBroker <=> sends = 1)
  /\ intent \in {"ABSENT", "PLANNED"} => sends = 0
  /\ \A p \in Procs : /\ pc[p] = "mark" => intent = "PLANNED"
                      /\ pc[p] = "send" => sends = 0 /\ intent = "SUBMITTING"

SafeInv == losses = 0 => OneIsOn /\ OneRunEach /\ OneSend

\* A job that finishes while its process is alone on: its rows become terminal
\* at most once, and the process is back in its loop.
LEMMA FinishSafe ==
  ASSUME TypeInv, OneIsOn, OneRunEach, NEW p \in Procs, Executing(p),
         NEW status \in Statuses \ {"RUNNING"}, Finish(p, status)
  PROVE  OneIsOn' /\ OneRunEach' /\ \A q \in Procs : pc'[q] \notin {"mark", "send"}
<1>1. TypeOK /\ RowsCover
  BY DEF TypeInv
<1>2. /\ \A s \in Statuses \ {"RUNNING", status} : rows'[job[p]][s] = rows[job[p]][s]
      /\ rows'[job[p]][status] = rows[job[p]][status] + 1
      /\ \A j \in Jobs \ {job[p]} : rows'[j] = rows[j]
  BY <1>1, FinishRows
<1>3. /\ pc' = [pc EXCEPT ![p] = "loop"] /\ accountLock' = accountLock /\ broken' = broken
      /\ pc \in [Procs -> Labels]
  BY <1>1 DEF Finish, BackToLoop, Goto, TypeOK
<1>4. \A q \in Procs \ {p} : pc[q] = "off"
  BY DEF OneIsOn, Executing
<1>5. \A q \in Procs : pc'[q] \in {"off", "loop"}
  BY <1>3, <1>4
<1>6. OneIsOn'
  BY <1>3, <1>4 DEF OneIsOn, Executing
<1>7. job[p] \in Jobs /\ rows[job[p]].SUCCEEDED + rows[job[p]].SKIPPED = 0
  BY <1>1, RunningRow DEF OneRunEach
<1>8. rows[job[p]].SUCCEEDED \in Nat /\ rows[job[p]].SKIPPED \in Nat
  BY <1>1, <1>7 DEF TypeOK, Statuses
<1>9. rows'[job[p]].SUCCEEDED + rows'[job[p]].SKIPPED <= 1
  <2>1. CASE status = "SUCCEEDED"
    BY <1>2, <1>7, <1>8, <2>1 DEF Statuses
  <2>2. CASE status = "SKIPPED"
    BY <1>2, <1>7, <1>8, <2>2 DEF Statuses
  <2>3. CASE status \notin {"SUCCEEDED", "SKIPPED"}
    BY <1>2, <1>7, <1>8, <2>3 DEF Statuses
  <2> QED
    BY <2>1, <2>2, <2>3
<1>10. OneRunEach'
  BY <1>2, <1>5, <1>9 DEF OneRunEach, Executing
<1> QED
  BY <1>5, <1>6, <1>10

\* No step breaks it.
LEMMA SafeStep == TypeInv /\ SafeInv /\ [Next]_vars => SafeInv'
<1> DEFINE Safe == OneIsOn /\ OneRunEach /\ OneSend
<1> SUFFICES ASSUME TypeInv, SafeInv, [Next]_vars, losses' = 0 PROVE Safe'
  BY DEF SafeInv
<1> USE DEF Executing, Goto, BackToLoop, dbVars, orderVars, procVars, envVars
<1>0. Safe /\ TypeOK /\ RowsCover
  <2>1. losses \in Nat
    BY DEF TypeInv, TypeOK
  <2>2. losses' = losses \/ losses' = losses + 1
    <3>1. ASSUME NEW p \in Procs, RunJob(p) PROVE losses' = losses
      BY <3>1 DEF RunJob, TakeJobLock, LockConnectionFails, CheckTerminal, SkipMissed,
         Finish, RunBody,
         PlanOrResume, NothingToSubmit, ResumeUnknown, Mark, Send, Bind
    <3>2. ASSUME NEW p \in Procs, Engine(p) PROVE losses' = losses
      BY <3>1, <3>2 DEF Engine, Heartbeat, Tick, Reconcile, SessionFails
    <3> QED
      BY <3>2 DEF Next, Start, Crash, LoseConnection, Advance, vars
  <2> QED
    BY <2>1, <2>2 DEF SafeInv, TypeInv
<1>1. ASSUME NEW p \in Procs, Start(p) PROVE Safe'
  <2>1. OneIsOn'
    BY <1>1, <1>0, ProcAssumption DEF Start, LockIsFree, TypeOK, OneIsOn
  <2>2. OneRunEach'
    BY <1>1, <1>0, <2>1 DEF Start, LockIsFree, TypeOK, OneIsOn, OneRunEach
  <2>3. OneSend'
    BY <1>1, <1>0, <2>1 DEF Start, LockIsFree, TypeOK, OneIsOn, OneSend
  <2> QED
    BY <2>1, <2>2, <2>3
<1>2. ASSUME NEW p \in Procs, Crash(p) PROVE Safe'
  <2>1. OneIsOn'
    BY <1>2, <1>0 DEF Crash, DropLocks, TypeOK, OneIsOn
  <2>2. OneRunEach'
    BY <1>2, <1>0, <2>1 DEF Crash, DropLocks, TypeOK, OneIsOn, OneRunEach
  <2>3. OneSend'
    BY <1>2, <1>0, <2>1 DEF Crash, DropLocks, TypeOK, OneIsOn, OneSend
  <2> QED
    BY <2>1, <2>2, <2>3
<1>3. ASSUME NEW p \in Procs, Heartbeat(p) PROVE Safe'
  <2>1. OneIsOn'
    BY <1>3, <1>0 DEF Heartbeat, TypeOK, OneIsOn
  <2>2. OneRunEach'
    BY <1>3, <1>0, <2>1 DEF Heartbeat, TypeOK, OneIsOn, OneRunEach
  <2>3. OneSend'
    BY <1>3, <1>0, <2>1 DEF Heartbeat, TypeOK, OneIsOn, OneSend
  <2> QED
    BY <2>1, <2>2, <2>3
<1>4. ASSUME NEW p \in Procs, NEW j \in Jobs, Tick(p, j) PROVE Safe'
  <2>1. OneIsOn'
    BY <1>4, <1>0 DEF Tick, TypeOK, OneIsOn
  <2>2. OneRunEach'
    BY <1>4, <1>0, <2>1 DEF Tick, TypeOK, OneIsOn, OneRunEach
  <2>3. OneSend'
    BY <1>4, <1>0, <2>1 DEF Tick, TypeOK, OneIsOn, OneSend
  <2> QED
    BY <2>1, <2>2, <2>3
<1>5. ASSUME NEW p \in Procs, Reconcile(p) PROVE Safe'
  <2>1. OneIsOn'
    BY <1>5, <1>0 DEF Reconcile, TypeOK, OneIsOn
  <2>2. OneRunEach'
    BY <1>5, <1>0, <2>1 DEF Reconcile, TypeOK, OneIsOn, OneRunEach
  <2>3. OneSend'
    BY <1>5, <1>0, <2>1 DEF Reconcile, TypeOK, OneIsOn, OneSend
  <2> QED
    BY <2>1, <2>2, <2>3
<1>6. ASSUME NEW p \in Procs, SessionFails(p) PROVE Safe'
  <2>1. OneIsOn'
    BY <1>6, <1>0 DEF SessionFails, TypeOK, OneIsOn
  <2>2. OneRunEach'
    BY <1>6, <1>0, <2>1 DEF SessionFails, TypeOK, OneIsOn, OneRunEach
  <2>3. OneSend'
    BY <1>6, <1>0, <2>1 DEF SessionFails, TypeOK, OneIsOn, OneSend
  <2> QED
    BY <2>1, <2>2, <2>3
<1>7. ASSUME NEW p \in Procs, TakeJobLock(p) PROVE Safe'
  <2>1. OneIsOn'
    BY <1>7, <1>0 DEF TakeJobLock, TypeOK, Statuses, OneIsOn
  <2>2. OneRunEach'
    <3>1. job[p] \in Jobs /\ ~Executing(p)'
      BY <1>7, <1>0 DEF TakeJobLock, TypeOK, Working
    <3>2. \A j \in Jobs : rows'[j].SUCCEEDED = rows[j].SUCCEEDED /\ rows'[j].SKIPPED = rows[j].SKIPPED
      <4>1. CASE jobLock[job[p]] = NoProc
        BY <1>7, <4>1 DEF TakeJobLock
      <4>2. CASE jobLock[job[p]] # NoProc
        <5>1. rows' = [rows EXCEPT ![job[p]] = [rows[job[p]] EXCEPT !["FAILED"] = @ + 1]]
          BY <1>7, <3>1, <4>2 DEF TakeJobLock
        <5>2. \A j \in Jobs : rows[j] \in [Statuses -> Nat]
          BY <1>0 DEF TypeOK
        <5> QED
          BY <1>0, <3>1, <5>1, <5>2 DEF TypeOK, Statuses
      <4> QED
        BY <4>1, <4>2
    <3>3. \A q \in Procs : ~Executing(q)'
      BY <1>7, <1>0, <3>1 DEF TakeJobLock, TypeOK, OneIsOn
    <3> QED
      BY <1>0, <3>2, <3>3 DEF OneRunEach
  <2>3. OneSend'
    BY <1>7, <1>0, <2>1 DEF TakeJobLock, TypeOK, Statuses, OneIsOn, OneSend
  <2> QED
    BY <2>1, <2>2, <2>3
<1>8. ASSUME NEW p \in Procs, LockConnectionFails(p) PROVE Safe'
  <2>1. OneIsOn'
    BY <1>8, <1>0 DEF LockConnectionFails, TypeOK, OneIsOn
  <2>2. OneRunEach'
    BY <1>8, <1>0, <2>1 DEF LockConnectionFails, TypeOK, OneIsOn, OneRunEach
  <2>3. OneSend'
    BY <1>8, <1>0, <2>1 DEF LockConnectionFails, TypeOK, OneIsOn, OneSend
  <2> QED
    BY <2>1, <2>2, <2>3
<1>9. ASSUME NEW p \in Procs, CheckTerminal(p) PROVE Safe'
  <2>1. OneIsOn'
    BY <1>9, <1>0 DEF CheckTerminal, Terminal, Started, TypeOK, Statuses, OneIsOn
  <2>2. OneRunEach'
    <3>1. job[p] \in Jobs /\ \A q \in Procs \ {p} : ~Executing(q)'
      BY <1>9, <1>0 DEF CheckTerminal, TypeOK, Working, OneIsOn
    <3>2. \A j \in Jobs : rows[j] \in [Statuses -> Nat]
      BY <1>0 DEF TypeOK
    <3>3. CASE Terminal(job[p])
      BY <1>9, <1>0, <3>1, <3>3 DEF CheckTerminal, TypeOK, OneRunEach
    <3>4. CASE ~Terminal(job[p])
      <4>1. rows' = [rows EXCEPT ![job[p]] = [rows[job[p]] EXCEPT !["RUNNING"] = @ + 1]] /\ job' = job
        BY <1>9, <3>1, <3>4 DEF CheckTerminal, Started
      <4>2. \A j \in Jobs : rows'[j].SUCCEEDED = rows[j].SUCCEEDED /\ rows'[j].SKIPPED = rows[j].SKIPPED
        BY <1>0, <3>1, <3>2, <4>1 DEF TypeOK, Statuses
      <4>3. rows[job[p]].SUCCEEDED + rows[job[p]].SKIPPED = 0
        BY <3>1, <3>2, <3>4 DEF Terminal, Statuses
      <4> QED
        BY <1>0, <3>1, <4>1, <4>2, <4>3 DEF OneRunEach
    <3> QED
      BY <3>3, <3>4
  <2>3. OneSend'
    BY <1>9, <1>0, <2>1 DEF CheckTerminal, Terminal, Started, TypeOK, Statuses, OneIsOn, OneSend
  <2> QED
    BY <2>1, <2>2, <2>3
<1>10. ASSUME NEW p \in Procs, PlanOrResume(p) PROVE Safe'
  <2>1. OneIsOn'
    BY <1>10, <1>0 DEF PlanOrResume, TypeOK, OneIsOn
  <2>2. OneRunEach'
    BY <1>10, <1>0, <2>1 DEF PlanOrResume, TypeOK, OneIsOn, OneRunEach
  <2>3. OneSend'
    BY <1>10, <1>0, <2>1 DEF PlanOrResume, TypeOK, OneIsOn, OneSend
  <2> QED
    BY <2>1, <2>2, <2>3
<1>11. ASSUME NEW p \in Procs, Mark(p) PROVE Safe'
  <2>1. OneIsOn'
    BY <1>11, <1>0 DEF Mark, TypeOK, OneIsOn
  <2>2. OneRunEach'
    BY <1>11, <1>0, <2>1 DEF Mark, TypeOK, OneIsOn, OneRunEach
  <2>3. OneSend'
    BY <1>11, <1>0, <2>1 DEF Mark, TypeOK, OneIsOn, OneSend
  <2> QED
    BY <2>1, <2>2, <2>3
<1>12. ASSUME NEW p \in Procs, Send(p) PROVE Safe'
  <2>1. OneIsOn'
    BY <1>12, <1>0 DEF Send, TypeOK, OneIsOn
  <2>2. OneRunEach'
    BY <1>12, <1>0, <2>1 DEF Send, TypeOK, OneIsOn, OneRunEach
  <2>3. OneSend'
    <3>1. sends' = 1 /\ atBroker' = TRUE /\ intent' = intent
      BY <1>12, <1>0 DEF Send, OneSend
    <3>2. \A q \in Procs : pc'[q] \notin {"mark", "send"}
      BY <1>12, <1>0 DEF Send, TypeOK, OneIsOn
    <3>3. intent \notin {"ABSENT", "PLANNED"}
      BY <1>12, <1>0 DEF Send, OneSend
    <3> QED
      BY <3>1, <3>2, <3>3 DEF OneSend
  <2> QED
    BY <2>1, <2>2, <2>3
<1>13. ASSUME NEW p \in Procs, SkipMissed(p) PROVE Safe'
  <2>1. OneIsOn' /\ OneRunEach' /\ \A q \in Procs : pc'[q] \notin {"mark", "send"}
    BY <1>13, <1>0, FinishSafe DEF SkipMissed, Statuses
  <2> QED
    BY <1>13, <1>0, <2>1 DEF SkipMissed, OneSend
<1>14. ASSUME NEW p \in Procs, RunBody(p) PROVE Safe'
  <2>1. OneIsOn' /\ OneRunEach' /\ \A q \in Procs : pc'[q] \notin {"mark", "send"}
    BY <1>14, <1>0, FinishSafe DEF RunBody, Statuses
  <2> QED
    BY <1>14, <1>0, <2>1 DEF RunBody, OneSend
<1>15. ASSUME NEW p \in Procs, NothingToSubmit(p) PROVE Safe'
  <2>1. OneIsOn' /\ OneRunEach' /\ \A q \in Procs : pc'[q] \notin {"mark", "send"}
    BY <1>15, <1>0, FinishSafe DEF NothingToSubmit, Statuses
  <2> QED
    BY <1>15, <1>0, <2>1 DEF NothingToSubmit, OneSend
<1>16. ASSUME NEW p \in Procs, ResumeUnknown(p) PROVE Safe'
  <2>1. OneIsOn' /\ OneRunEach' /\ \A q \in Procs : pc'[q] \notin {"mark", "send"}
    BY <1>16, <1>0, FinishSafe DEF ResumeUnknown, Statuses
  <2> QED
    BY <1>16, <1>0, <2>1 DEF ResumeUnknown, OneSend
<1>17. ASSUME NEW p \in Procs, Bind(p) PROVE Safe'
  <2>1. OneIsOn' /\ OneRunEach' /\ \A q \in Procs : pc'[q] \notin {"mark", "send"}
    BY <1>17, <1>0, FinishSafe DEF Bind, Statuses
  <2> QED
    BY <1>17, <1>0, <2>1 DEF Bind, OneSend
<1>18. ASSUME NEW p \in Procs, LoseConnection(p) PROVE FALSE
  BY <1>18, <1>0 DEF LoseConnection, TypeOK
<1>19. CASE Advance \/ UNCHANGED vars
  BY <1>19, <1>0 DEF Advance, vars, OneIsOn, OneRunEach, OneSend
<1> QED
  BY <1>1, <1>2, <1>3, <1>4, <1>5, <1>6, <1>7, <1>8, <1>9, <1>10, <1>11, <1>12, <1>13,
     <1>14, <1>15, <1>16, <1>17, <1>18, <1>19 DEF Next, Engine, RunJob

\* The safety invariant holds when nothing has started.
LEMMA SafeInit == Init => SafeInv
BY DEF Init, SafeInv, OneIsOn, OneRunEach, OneSend, Executing, Statuses, Jobs

\* Both invariants hold of every behaviour.
LEMMA Safety == Spec => [](TypeInv /\ SafeInv)
BY TypeInit, TypeStep, SafeInit, SafeStep, PTL DEF Spec

\* As long as no connection that holds a lock is lost, a job has one terminal
\* run a day, however many processes are started and killed and wherever in a
\* job they die.
THEOREM OneTerminalRun == Spec => []CompletedOnce
<1>1. SafeInv => CompletedOnce
  BY DEF SafeInv, OneRunEach, CompletedOnce
<1> QED
  BY <1>1, Safety, PTL

\* Under the same condition the order leaves once: a process that takes over
\* from one that died in the middle of a submission does not submit again.
THEOREM OneSubmission == Spec => [](losses = 0 => SentOnce)
<1>1. SafeInv => (losses = 0 => SentOnce)
  BY DEF SafeInv, OneSend, SentOnce
<1> QED
  BY <1>1, Safety, PTL

\* Under the same condition the process that submits holds the account lock.
THEOREM LockedTrades == Spec => TradesUnderLock
<1>1. SafeInv /\ [Next]_vars =>
        [losses = 0 => \A p \in Procs : (pc[p] = "send" /\ pc'[p] = "bind") => accountLock = p]_vars
  BY DEF SafeInv, OneIsOn
<1> QED
  BY <1>1, Safety, PTL DEF Spec, TradesUnderLock
=============================================================================
