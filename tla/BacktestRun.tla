------------------------------ MODULE BacktestRun ------------------------------
(***************************************************************************)
(* Backtest processes from their source files to their result directories. *)
(* A run parses experiment.yaml, executes rule.py or model.py and takes    *)
(* the digests it will record; works; stages its files in a hidden         *)
(* directory of runs_dir and renames that to its run id.  An error anywhere *)
(* after the digests is recorded by a failure directory published the same *)
(* way.  Files may be edited, any step may fail and a process may be       *)
(* killed at any time.                                                     *)
(*                                                                         *)
(* Contents of the source files are version numbers.  A run id ends in a   *)
(* random suffix: here any two runs may draw the same one.                 *)
(***************************************************************************)
EXTENDS Integers, Sequences

CONSTANTS Processes, RunIds,
          MaxEdits, MaxFaults  \* bounds

ASSUME BoundsAssumption == MaxEdits \in Nat /\ MaxFaults \in Nat

VARIABLES
  sources,    \* [experiment, strategy -> version], on disk
  pc, case,   \* each process' progress and its case, rule or model
  ran,        \* versions it parsed and executed
  recorded,   \* versions its digests are of
  runId,      \* its run id, or "none"
  staged,     \* its hidden directory: the files in it, or NoDirectory
  bundleDir,  \* its temporary directory for the bundle exists
  outcome,    \* what it ended with, "none" before
  stuck,      \* a deletion of its files failed
  published,  \* [run id -> [owner, status, files, ran, recorded]]
  edits, faults

inputs == <<sources, edits>>
made == <<case, ran, recorded, runId>>
files == <<staged, bundleDir, stuck, published>>
vars == <<inputs, pc, made, files, outcome, faults>>
--------------------------------------------------------------------------------
Sources == {"experiment", "strategy"}

NoDirectory == {"no directory"}

Order_RunFirst(p) ==  \* variant: run.json not last
  IF case[p] = "model" THEN <<"run.json", "tables", "plots", "bundle", "predictions">>
  ELSE <<"run.json", "tables", "plots">>
Order(p) ==
  IF case[p] = "model" THEN <<"tables", "plots", "bundle", "predictions", "run.json">>
  ELSE <<"tables", "plots", "run.json">>

Success == {"run.json", "tables", "plots"}

Expected(c) == IF c = "model" THEN Success \cup {"bundle", "predictions"} ELSE Success

Goto(p, label) == pc' = [pc EXCEPT ![p] = label]

End(p, result) == Goto(p, "ended") /\ outcome' = [outcome EXCEPT ![p] = result]

\* A fault is an exception of whatever the step calls.
Fault == faults < MaxFaults /\ faults' = faults + 1

Init ==
  /\ sources = [f \in Sources |-> 0] /\ edits = 0 /\ faults = 0
  /\ pc = [p \in Processes |-> "parse"] /\ case \in [Processes -> {"rule", "model"}]
  /\ ran = [p \in Processes |-> sources] /\ recorded = ran
  /\ runId = [p \in Processes |-> "none"]
  /\ staged = [p \in Processes |-> NoDirectory]
  /\ bundleDir = [p \in Processes |-> FALSE] /\ stuck = bundleDir
  /\ outcome = runId /\ published = <<>>

Edit ==
  /\ edits < MaxEdits /\ edits' = edits + 1
  /\ \E f \in Sources : sources' = [sources EXCEPT ![f] = edits']
  /\ UNCHANGED <<pc, made, files, outcome, faults>>
--------------------------------------------------------------------------------
(* Preparing: outside run_experiment's try. *)

Parse(p) ==
  /\ pc[p] = "parse" /\ Goto(p, IF case[p] = "rule" THEN "execute" ELSE "digest")
  /\ ran' = [ran EXCEPT ![p].experiment = sources.experiment]
  /\ UNCHANGED <<inputs, case, recorded, runId, files, outcome, faults>>

\* rule.py is digested after it ran; model.py before, and read once more to run.
Execute(p) ==
  /\ pc[p] = "execute" /\ Goto(p, IF case[p] = "rule" THEN "digest" ELSE "identify")
  /\ ran' = [ran EXCEPT ![p].strategy = sources.strategy]
  /\ UNCHANGED <<inputs, case, recorded, runId, files, outcome, faults>>

Digest(p) ==
  /\ pc[p] = "digest" /\ Goto(p, IF case[p] = "rule" THEN "identify" ELSE "execute")
  /\ recorded' = [recorded EXCEPT ![p].strategy = sources.strategy]
  /\ UNCHANGED <<inputs, case, ran, runId, files, outcome, faults>>

Identify(p) ==
  /\ pc[p] = "identify" /\ Goto(p, "work")
  /\ \E i \in RunIds : runId' = [runId EXCEPT ![p] = i]
  /\ recorded' = [recorded EXCEPT ![p].experiment = sources.experiment]
  /\ UNCHANGED <<inputs, case, ran, files, outcome, faults>>

Refuse(p) ==
  /\ pc[p] \in {"parse", "execute", "digest", "identify"} /\ Fault /\ End(p, "refused")
  /\ UNCHANGED <<inputs, made, files>>
--------------------------------------------------------------------------------
(* Working, and the bundle in a temporary directory. *)

\* Where an exception leads: through the temporary directory's deletion, if there is one.
Handler(p) == IF bundleDir[p] THEN "unwind" ELSE "failure"

Work(p) ==
  /\ pc[p] = "work"
  /\ \/ /\ Goto(p, "commit") /\ bundleDir' = [bundleDir EXCEPT ![p] = case[p] = "model"]
        /\ UNCHANGED faults
     \/ Fault /\ Goto(p, Handler(p)) /\ UNCHANGED bundleDir
  /\ UNCHANGED <<inputs, made, staged, stuck, published, outcome>>

\* Saving the bundle fails: its own temporary file goes with the directory.
SaveFails(p) ==
  /\ pc[p] = "commit" /\ bundleDir[p] /\ Fault /\ Goto(p, "unwind")
  /\ UNCHANGED <<inputs, made, files, outcome>>

\* Leaving the TemporaryDirectory, with a result or with an exception.
Unwind(p) ==
  /\ pc[p] \in {"unwind", "leave"}
  /\ \/ /\ bundleDir' = [bundleDir EXCEPT ![p] = FALSE]
        /\ IF pc[p] = "unwind" THEN Goto(p, "failure") /\ UNCHANGED outcome ELSE End(p, "success")
        /\ UNCHANGED <<stuck, faults>>
     \/ /\ Fault /\ Goto(p, "failure") /\ stuck' = [stuck EXCEPT ![p] = TRUE]
        /\ UNCHANGED <<bundleDir, outcome>>
  /\ UNCHANGED <<inputs, made, staged, published>>
--------------------------------------------------------------------------------
(* BacktestOutputWriter._commit, of a success and of a failure. *)

Free(i) == i \notin DOMAIN published

\* What an exception of the commit ends in.
Escape(p) ==
  IF pc[p] \in {"failure", "explain"} THEN End(p, "unrecorded")
  ELSE Goto(p, Handler(p)) /\ UNCHANGED outcome

Stage(p) ==
  /\ pc[p] \in {"commit", "failure"}
  /\ \/ /\ Free(runId[p]) /\ staged' = [staged EXCEPT ![p] = {}]
        /\ Goto(p, IF pc[p] = "commit" THEN "populate" ELSE "explain") /\ UNCHANGED outcome
        /\ UNCHANGED faults
     \/ ~Free(runId[p]) /\ Escape(p) /\ UNCHANGED <<staged, faults>>
     \/ Fault /\ Escape(p) /\ UNCHANGED staged
  /\ UNCHANGED <<inputs, made, bundleDir, stuck, published>>

Contents(p) == IF pc[p] = "populate" THEN Order(p) ELSE <<"run.json">>

\* The next file in the order: every earlier one is there.
Populate(p) ==
  /\ pc[p] \in {"populate", "explain"} /\ "run.json" \notin staged[p]
  /\ \E k \in DOMAIN Contents(p) :
       /\ Contents(p)[k] \notin staged[p]
       /\ \A j \in 1 .. k - 1 : Contents(p)[j] \in staged[p]
       /\ staged' = [staged EXCEPT ![p] = @ \cup {Contents(p)[k]}]
  /\ UNCHANGED <<inputs, pc, made, bundleDir, stuck, published, outcome, faults>>

\* The hidden directory is deleted when writing or renaming fails.
Discard(p) ==
  \/ staged' = [staged EXCEPT ![p] = NoDirectory] /\ UNCHANGED stuck
  \/ stuck' = [stuck EXCEPT ![p] = TRUE] /\ UNCHANGED staged

Abort(p) ==
  /\ pc[p] \in {"populate", "explain"}
  /\ \/ Fault
     \/ "run.json" \in staged[p] /\ ~Free(runId[p]) /\ UNCHANGED faults
  /\ Discard(p) /\ Escape(p)
  /\ UNCHANGED <<inputs, made, bundleDir, published>>

Directory(p, status) == [owner |-> p, status |-> status, files |-> staged[p],
                         ran |-> ran[p], recorded |-> recorded[p]]

Rename(p) ==
  /\ pc[p] \in {"populate", "explain"} /\ "run.json" \in staged[p] /\ Free(runId[p])
  /\ LET status == IF pc[p] = "populate" THEN "success" ELSE "failed"
     IN  published' = [i \in DOMAIN published \cup {runId[p]} |->
                         IF i = runId[p] THEN Directory(p, status) ELSE published[i]]
  /\ staged' = [staged EXCEPT ![p] = NoDirectory]
  /\ \/ pc[p] = "explain" /\ End(p, "failed")
     \/ pc[p] = "populate" /\ bundleDir[p] /\ Goto(p, "leave") /\ UNCHANGED outcome
     \/ pc[p] = "populate" /\ ~bundleDir[p] /\ End(p, "success")
  /\ UNCHANGED <<inputs, made, bundleDir, stuck, faults>>

\* A kill; or a KeyboardInterrupt, which no except clause catches but which still
\* leaves the TemporaryDirectory.
Kill(p) ==
  /\ pc[p] # "ended" /\ Fault /\ End(p, "killed")
  /\ bundleDir' \in {bundleDir, [bundleDir EXCEPT ![p] = FALSE]}
  /\ UNCHANGED <<inputs, made, staged, stuck, published>>

Next ==
  \/ Edit
  \/ \E p \in Processes :
       \/ Parse(p) \/ Execute(p) \/ Digest(p) \/ Identify(p) \/ Refuse(p)
       \/ Work(p) \/ SaveFails(p) \/ Unwind(p)
       \/ Stage(p) \/ Populate(p) \/ Abort(p) \/ Rename(p) \/ Kill(p)

Spec == Init /\ [][Next]_vars
--------------------------------------------------------------------------------
(* Properties. *)

TypeOK ==
  /\ pc \in [Processes -> {"parse", "execute", "digest", "identify", "work", "commit", "populate",
                           "leave", "unwind", "failure", "explain", "ended"}]
  /\ DOMAIN published \subseteq RunIds
  /\ \A p \in Processes : /\ ran[p] \in [Sources -> 0 .. MaxEdits]
                          /\ (pc[p] = "ended") = (outcome[p] # "none")
                          /\ staged[p] = NoDirectory \/ staged[p] \subseteq Expected(case[p])

\* Whatever fails or is killed, and whoever draws the same run id, a directory that
\* calls itself a success has every file of its case, and one that calls itself a
\* failure has nothing but run.json (writer.py:305-343, 444-458; docs/spec 8).
PublishedIsComplete ==
  \A i \in DOMAIN published :
    LET d == published[i]
    IN  d.files = IF d.status = "success" THEN Expected(case[d.owner]) ELSE {"run.json"}

\* A run that ends by itself after its digests leaves a directory of its own, unless
\* its id was taken or writing the failure failed too (experiment.py:143-145).
EveryRunIsRecorded ==
  \A p \in Processes :
    outcome[p] \in {"success", "failed"} =>
      runId[p] \in DOMAIN published /\ published[runId[p]].owner = p

\* A run that is not killed leaves nothing of its work behind: no hidden directory,
\* no copy of the bundle, unless deleting it failed (writer.py:452-457).
NothingIsLeft ==
  \A p \in Processes :
    outcome[p] \notin {"none", "killed"} /\ ~stuck[p] => staged[p] = NoDirectory /\ ~bundleDir[p]

\* The directories of results: complete or a failure's, one for each run that ended
\* by itself, never written over by another run, and nothing left beside them.
RunInv == TypeOK /\ PublishedIsComplete /\ EveryRunIsRecorded /\ NothingIsLeft
================================================================================
