------------------------------- MODULE JobRuns -------------------------------
(***************************************************************************)
(* The daily jobs of one account on one trading day, and what keeps two    *)
(* service processes from running them twice: the MySQL advisory locks on  *)
(* the account and on each job, the heartbeat of the connection that holds *)
(* them, the scheduler's memory, and the job rows both processes see.      *)
(*                                                                         *)
(* A lock lives as long as the server sees the connection that took it.    *)
(* The rebalance is reduced to one order intent; the other jobs to their   *)
(* outcome.                                                                *)
(***************************************************************************)
EXTENDS Naturals

CONSTANTS
  Procs,      \* service processes started for the account
  MaxTroubles, \* bound: processes that die and lock connections that break
  MaxLosses    \* bound: connections among them

NoProc == "nobody"
Jobs   == {"rebalance", "eod", "prepare_signal"}

ASSUME ProcAssumption  == NoProc \notin Procs
ASSUME BoundAssumption == MaxTroubles \in Nat /\ MaxLosses \in Nat

VARIABLES
  \* MySQL
  accountLock,  \* the process whose connection holds the account lock
  jobLock,      \* for each job, the process holding its lock
  rows,         \* live_job_run: for each job, how many rows of each status
  intent,       \* status of the decision's order intent
  atBroker,     \* the broker has the order
  sends,        \* how often it was submitted
  \* each process
  pc, job,      \* where it is in which job
  handled,      \* _handled
  broken,       \* processes whose lock connection is lost
  \* environment
  clock, crashes, losses

dbVars   == <<accountLock, jobLock, rows>>
orderVars == <<intent, atBroker, sends>>
procVars == <<pc, job, handled, broken>>
envVars  == <<clock, crashes, losses>>
vars == <<dbVars, orderVars, procVars, envVars>>
-----------------------------------------------------------------------------
(* The day's schedule: tick() walks the jobs in this order. *)
DueAt      == [rebalance |-> 1, eod |-> 3, prepare_signal |-> 4]
WindowOver == 2
DayEnd     == 4

Statuses == {"RUNNING", "SUCCEEDED", "SKIPPED", "FAILED"}

\* has_terminal_job: a run that succeeded, or was skipped for good.
Terminal_SucceededOnly(j) == rows[j].SUCCEEDED > 0  \* variant
Terminal(j) == rows[j].SUCCEEDED + rows[j].SKIPPED > 0

Init ==
  /\ accountLock = NoProc /\ jobLock = [j \in Jobs |-> NoProc]
  /\ rows = [j \in Jobs |-> [s \in Statuses |-> 0]]
  /\ intent = "ABSENT" /\ atBroker = FALSE /\ sends = 0
  /\ pc = [p \in Procs |-> "off"] /\ job = [p \in Procs |-> "none"]
  /\ handled = [p \in Procs |-> {}] /\ broken = {}
  /\ clock = 0 /\ crashes = 0 /\ losses = 0

Goto(p, label) == pc' = [pc EXCEPT ![p] = label]

\* The exception reaches tick(), which logs it and goes on.
BackToLoop(p) == Goto(p, "loop") /\ job' = [job EXCEPT ![p] = "none"]

\* The server drops every lock of the connection of p.
DropLocks(p) ==
  /\ accountLock' = IF accountLock = p THEN NoProc ELSE accountLock
  /\ jobLock' = [j \in Jobs |-> IF jobLock[j] = p THEN NoProc ELSE jobLock[j]]
-----------------------------------------------------------------------------
(* The process. *)

LockIsFree_Unchecked == TRUE  \* variant: the result of GET_LOCK is ignored
LockIsFree == accountLock = NoProc

\* start(): a process that does not get the account lock exits.
Start(p) ==
  /\ pc[p] = "off" /\ LockIsFree
  /\ accountLock' = p
  /\ Goto(p, "loop")
  /\ handled' = [handled EXCEPT ![p] = {}]
  /\ UNCHANGED <<jobLock, rows, orderVars, job, broken, envVars>>

\* The lock connection answers SELECT 1, or the service stops.
Heartbeat_Ignored(p) == FALSE /\ UNCHANGED vars  \* variant: no heartbeat
Heartbeat(p) ==
  /\ pc[p] = "loop" /\ p \in broken
  /\ Goto(p, "off")
  /\ broken' = broken \ {p}
  /\ UNCHANGED <<dbVars, orderVars, job, handled, envVars>>

Crash(p) ==
  /\ pc[p] # "off" /\ crashes + losses < MaxTroubles
  /\ crashes' = crashes + 1
  /\ DropLocks(p)
  /\ Goto(p, "off") /\ job' = [job EXCEPT ![p] = "none"]
  /\ broken' = broken \ {p}
  /\ UNCHANGED <<rows, orderVars, handled, clock, losses>>

\* The server loses the lock connection; the process does not notice.
LoseConnection(p) ==
  /\ pc[p] # "off" /\ p \notin broken /\ losses < MaxLosses /\ crashes + losses < MaxTroubles
  /\ losses' = losses + 1
  /\ broken' = broken \cup {p}
  /\ DropLocks(p)
  /\ UNCHANGED <<rows, orderVars, pc, job, handled, clock, crashes>>

\* tick(): the first due job this process has not handled.
Due(p, j) ==
  /\ j \notin handled[p] /\ clock >= DueAt[j]
  /\ \A k \in Jobs : DueAt[k] < DueAt[j] => k \in handled[p]

Missed(j) == j = "rebalance" /\ clock >= WindowOver /\ intent = "ABSENT"

Tick(p, j) ==
  /\ pc[p] = "loop" /\ Due(p, j)
  /\ handled' = [handled EXCEPT ![p] = @ \cup {j}]
  /\ IF Terminal(j) THEN UNCHANGED <<pc, job>>
     ELSE /\ job' = [job EXCEPT ![p] = j]
          /\ Goto(p, IF Missed(j) THEN "missed"
                     ELSE IF j = "prepare_signal" THEN "lock" ELSE "session")
  /\ UNCHANGED <<dbVars, orderVars, broken, envVars>>

\* startup_reconcile runs on the lock connection: an order the broker has is
\* bound, one with no known result stops the job.
Reconcile(p) ==
  /\ pc[p] = "session" /\ p \notin broken
  /\ intent' = IF atBroker THEN "SUBMITTED" ELSE intent
  /\ IF intent' = "SUBMITTING" THEN BackToLoop(p) ELSE Goto(p, "lock") /\ UNCHANGED job
  /\ UNCHANGED <<dbVars, atBroker, sends, handled, broken, envVars>>

\* No session with the broker, or a lock connection that no longer answers.
SessionFails(p) ==
  /\ pc[p] = "session"
  /\ BackToLoop(p)
  /\ UNCHANGED <<dbVars, orderVars, handled, broken, envVars>>
-----------------------------------------------------------------------------
(* _run_job.  The broker jobs lock on the process's lock connection, the   *)
(* others on one of their own.                                             *)

OwnConnection(p) == job[p] = "prepare_signal" \/ pc[p] = "missed"

\* A lock somebody holds is recorded as a failed run.
TakeJobLock(p) ==
  LET j == job[p] IN
  /\ pc[p] \in {"lock", "missed"} /\ (OwnConnection(p) \/ p \notin broken)
  /\ IF jobLock[j] = NoProc
       THEN /\ jobLock' = [jobLock EXCEPT ![j] = p]
            /\ Goto(p, IF pc[p] = "missed" THEN "checkMissed" ELSE "check")
            /\ UNCHANGED <<rows, job>>
       ELSE /\ rows' = [rows EXCEPT ![j].FAILED = @ + 1]
            /\ BackToLoop(p) /\ UNCHANGED jobLock
  /\ UNCHANGED <<accountLock, orderVars, handled, broken, envVars>>

LockConnectionFails(p) ==
  /\ pc[p] = "lock" /\ p \in broken /\ ~OwnConnection(p)
  /\ BackToLoop(p)
  /\ UNCHANGED <<dbVars, orderVars, handled, broken, envVars>>

Release(p) ==
  jobLock' = [jobLock EXCEPT ![job[p]] = IF @ = p THEN NoProc ELSE @]

\* start_job_run, and a variant that forgets it.
Started_NoRow(j) == rows
Started(j) == [rows EXCEPT ![j].RUNNING = @ + 1]

\* Already terminal, or a RUNNING row of its own.
CheckTerminal(p) ==
  /\ pc[p] \in {"check", "checkMissed"}
  /\ IF Terminal(job[p])
       THEN Release(p) /\ BackToLoop(p) /\ UNCHANGED rows
       ELSE /\ rows' = Started(job[p])
            /\ Goto(p, IF pc[p] = "checkMissed" THEN "skip"
                       ELSE IF job[p] = "rebalance" THEN "plan" ELSE "body")
            /\ UNCHANGED <<jobLock, job>>
  /\ UNCHANGED <<accountLock, orderVars, handled, broken, envVars>>

\* finish_job_run, then the finally that releases the lock.
Finish(p, status) ==
  /\ rows' = [rows EXCEPT ![job[p]].RUNNING = @ - 1, ![job[p]][status] = @ + 1]
  /\ Release(p)
  /\ BackToLoop(p)
  /\ UNCHANGED <<accountLock, handled, broken, envVars>>

SkipMissed(p) == pc[p] = "skip" /\ Finish(p, "SKIPPED") /\ UNCHANGED orderVars

RunBody(p) ==
  /\ pc[p] = "body"
  /\ \E status \in {"SUCCEEDED", "SKIPPED", "FAILED"} : Finish(p, status)
  /\ UNCHANGED orderVars

\* The phase plans its intent, or resumes the planned one.
PlanOrResume(p) ==
  /\ pc[p] = "plan" /\ intent \in {"ABSENT", "PLANNED"}
  /\ intent' = "PLANNED"
  /\ Goto(p, "mark")
  /\ UNCHANGED <<dbVars, atBroker, sends, job, handled, broken, envVars>>

NothingToSubmit(p) ==
  pc[p] = "plan" /\ intent = "SUBMITTED" /\ Finish(p, "SUCCEEDED") /\ UNCHANGED orderVars

ResumeUnknown(p) ==
  pc[p] = "plan" /\ intent = "SUBMITTING" /\ Finish(p, "FAILED") /\ UNCHANGED orderVars

\* A conditional update: an intent that is no longer PLANNED stays as it is.
Mark(p) ==
  /\ pc[p] = "mark"
  /\ intent' = IF intent = "PLANNED" THEN "SUBMITTING" ELSE intent
  /\ Goto(p, "send")
  /\ UNCHANGED <<dbVars, atBroker, sends, job, handled, broken, envVars>>

Send(p) ==
  /\ pc[p] = "send"
  /\ sends' = sends + 1 /\ atBroker' = TRUE
  /\ Goto(p, "bind")
  /\ UNCHANGED <<dbVars, intent, job, handled, broken, envVars>>

\* The order is bound and the wait for its closure ends, well or badly.
Bind(p) ==
  /\ pc[p] = "bind"
  /\ intent' = "SUBMITTED"
  /\ \E status \in {"SUCCEEDED", "FAILED"} : Finish(p, status)
  /\ UNCHANGED <<atBroker, sends>>
-----------------------------------------------------------------------------
Advance ==
  /\ clock < DayEnd
  /\ clock' = clock + 1
  /\ UNCHANGED <<dbVars, orderVars, procVars, crashes, losses>>

RunJob(p) ==
  \/ TakeJobLock(p) \/ LockConnectionFails(p) \/ CheckTerminal(p) \/ SkipMissed(p)
  \/ RunBody(p) \/ PlanOrResume(p) \/ NothingToSubmit(p) \/ ResumeUnknown(p)
  \/ Mark(p) \/ Send(p) \/ Bind(p)

Engine(p) ==
  \/ Heartbeat(p) \/ \E j \in Jobs : Tick(p, j)
  \/ Reconcile(p) \/ SessionFails(p) \/ RunJob(p)

Next ==
  \/ \E p \in Procs : Start(p) \/ Engine(p) \/ Crash(p) \/ LoseConnection(p)
  \/ Advance

Spec == Init /\ [][Next]_vars

\* Every process keeps running its loop, and the day goes on.
FairSpec == Spec /\ WF_vars(Advance) /\ \A p \in Procs : WF_vars(Engine(p))
-----------------------------------------------------------------------------
(* Properties. *)

Labels == {"off", "loop", "session", "lock", "missed", "check", "checkMissed", "skip",
           "body", "plan", "mark", "send", "bind"}
Working(p) == pc[p] \notin {"off", "loop"}

TypeOK ==
  /\ accountLock \in Procs \cup {NoProc} /\ jobLock \in [Jobs -> Procs \cup {NoProc}]
  /\ rows \in [Jobs -> [Statuses -> Nat]]
  /\ intent \in {"ABSENT", "PLANNED", "SUBMITTING", "SUBMITTED"}
  /\ atBroker \in BOOLEAN /\ sends \in Nat
  /\ pc \in [Procs -> Labels] /\ job \in [Procs -> Jobs \cup {"none"}]
  /\ \A p \in Procs : Working(p) => job[p] \in Jobs
  /\ handled \in [Procs -> SUBSET Jobs] /\ broken \subseteq Procs
  /\ clock \in 0 .. DayEnd /\ crashes \in Nat /\ losses \in Nat

\* However many processes are started, killed and restarted, a job reaches a
\* terminal state once a day and its rows say so, as long as no process loses
\* the connection that holds its locks.
CompletedOnce == losses = 0 => \A j \in Jobs : rows[j].SUCCEEDED + rows[j].SKIPPED <= 1

\* A process that lost the account lock stops, at the end of the job it is in.
LostLockStops ==
  \A p \in Procs : (p \in broken) ~> (pc[p] = "off")

\* An order is submitted by the process that holds the account lock, as long as
\* no connection that holds one breaks.
TradesUnderLock ==
  [][losses = 0 => \A p \in Procs : (pc[p] = "send" /\ pc'[p] = "bind") => accountLock = p]_vars

\* The account lock keeps two processes from executing the day twice: the
\* order leaves once.
SentOnce == sends <= 1
=============================================================================
