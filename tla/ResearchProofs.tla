---------------------------- MODULE ResearchProofs ----------------------------
(***************************************************************************)
(* Theorems about what a backtest does and what it leaves behind.          *)
(*                                                                         *)
(* BacktestRun, for any set of processes and of run ids and any number of  *)
(* edits and faults: what a directory of results says of its run, that a   *)
(* run leaves one, and that it leaves nothing else.                        *)
(*                                                                         *)
(* ModelTraining, for any losses, ranges, lives and sources: which epoch a *)
(* bundle keeps, when training stops, and that predictions, backtested or  *)
(* live, are of days after the training and of features as trained.        *)
(*                                                                         *)
(* BacktestDay, for any securities, bars, targets, prices and fees and any *)
(* number of days: what the fills of a day are, which purchases get the    *)
(* cash, and that no fill pays.                                            *)
(*                                                                         *)
(* HuijinRule, for any ETFs, markets, prices and caps and any number of    *)
(* days: how far a purchase or a reduction goes, and where reductions in a *)
(* row arrive.                                                             *)
(***************************************************************************)
EXTENDS BacktestRun, BacktestDay, ModelTraining, HuijinRule, Sums, SequenceTheorems, FiniteSetTheorems, TLAPS

(***************************************************************************)
(* The invariant.  Between staging and renaming a directory is hidden and  *)
(* incomplete; what makes a published one complete is that run.json comes  *)
(* last.  What makes a run clean is said at every point of its code, for   *)
(* as long as no deletion of its files failed.                             *)
(***************************************************************************)

\* Parsing the experiment, executing the strategy, taking the digests.
Preparing == {"parse", "execute", "digest", "identify"}

Labels == Preparing \cup {"work", "commit", "populate", "leave", "unwind", "failure", "explain", "ended"}

Outcomes == {"none", "refused", "killed", "success", "failed", "unrecorded"}

Versions == [Sources -> 0 .. MaxEdits]

AllFiles == Success \cup {"bundle", "predictions"}

ValuesInv ==
  /\ edits \in 0 .. MaxEdits /\ sources \in Versions
  /\ pc \in [Processes -> Labels]
  /\ case \in [Processes -> {"rule", "model"}]
  /\ ran \in [Processes -> Versions] /\ recorded \in [Processes -> Versions]
  /\ runId \in [Processes -> RunIds \cup {"none"}]
  /\ staged \in [Processes -> (SUBSET AllFiles) \cup {NoDirectory}]
  /\ bundleDir \in [Processes -> BOOLEAN] /\ stuck \in [Processes -> BOOLEAN]
  /\ outcome \in [Processes -> Outcomes]
  /\ DOMAIN published \subseteq RunIds

\* A run has its id from the digests on, and an outcome when it has ended.
ProgressInv ==
  \A p \in Processes :
    /\ pc[p] \notin Preparing \cup {"ended"} => runId[p] \in RunIds
    /\ pc[p] = "ended" <=> outcome[p] # "none"

\* A hidden directory holds files of its kind only, and run.json after all others.
StagedInv ==
  \A p \in Processes :
    /\ staged[p] = NoDirectory \/ staged[p] \subseteq Expected(case[p])
    /\ pc[p] = "populate" => /\ staged[p] \subseteq Expected(case[p])
                             /\ "run.json" \in staged[p] => staged[p] = Expected(case[p])
    /\ pc[p] = "explain" => staged[p] \subseteq {"run.json"}

\* A run that has published its results still finds them there.
OwnedInv ==
  \A p \in Processes :
    pc[p] = "leave" \/ outcome[p] \in {"success", "failed"} =>
      runId[p] \in DOMAIN published /\ published[runId[p]].owner = p

\* Directories are those of runs.
PublishedInv == \A i \in DOMAIN published : published[i].owner \in Processes

\* At each point of the code, what there is to delete.
CleanInv ==
  \A p \in Processes : ~stuck[p] =>
    /\ pc[p] \in Preparing \cup {"work", "commit", "leave", "unwind", "failure"} => staged[p] = NoDirectory
    /\ pc[p] \in Preparing \cup {"work", "failure", "explain"} => ~bundleDir[p]
    /\ outcome[p] \notin {"none", "killed"} => staged[p] = NoDirectory /\ ~bundleDir[p]

DirectoriesInv ==
  /\ ValuesInv /\ ProgressInv /\ StagedInv /\ OwnedInv /\ PublishedInv /\ CleanInv
  /\ PublishedIsComplete
--------------------------------------------------------------------------------
(* The proof, one lemma for each action. *)

\* A run parses its experiment.
LEMMA ParseStep ==
  ASSUME DirectoriesInv, NEW p \in Processes, Parse(p)
  PROVE  DirectoriesInv'
<1>1. ValuesInv'
  BY DEF DirectoriesInv, ValuesInv, Parse, Goto, Labels, Outcomes, Versions, Preparing, inputs,
     files
<1>2. ProgressInv'
  BY DEF DirectoriesInv, ProgressInv, ValuesInv, Parse, Goto, Preparing, files
<1>3. StagedInv'
  BY DEF DirectoriesInv, StagedInv, ValuesInv, Parse, Goto, files
<1>4. OwnedInv'
  BY DEF DirectoriesInv, OwnedInv, ValuesInv, Parse, Goto, Preparing, files
<1>5. PublishedInv'
  BY DEF DirectoriesInv, PublishedInv, Parse, files
<1>6. CleanInv'
  BY DEF DirectoriesInv, CleanInv, ValuesInv, Parse, Goto, Preparing, files
<1>7. PublishedIsComplete'
  BY DEF DirectoriesInv, PublishedIsComplete, Parse, files
<1> QED
  BY <1>1, <1>2, <1>3, <1>4, <1>5, <1>6, <1>7 DEF DirectoriesInv

\* It executes its strategy.
LEMMA ExecuteStep ==
  ASSUME DirectoriesInv, NEW p \in Processes, Execute(p)
  PROVE  DirectoriesInv'
<1>1. ValuesInv'
  BY DEF DirectoriesInv, ValuesInv, Execute, Goto, Labels, Outcomes, Versions, Preparing, inputs,
     files
<1>2. ProgressInv'
  BY DEF DirectoriesInv, ProgressInv, ValuesInv, Execute, Goto, Preparing, files
<1>3. StagedInv'
  BY DEF DirectoriesInv, StagedInv, ValuesInv, Execute, Goto, files
<1>4. OwnedInv'
  BY DEF DirectoriesInv, OwnedInv, ValuesInv, Execute, Goto, Preparing, files
<1>5. PublishedInv'
  BY DEF DirectoriesInv, PublishedInv, Execute, files
<1>6. CleanInv'
  BY DEF DirectoriesInv, CleanInv, ValuesInv, Execute, Goto, Preparing, files
<1>7. PublishedIsComplete'
  BY DEF DirectoriesInv, PublishedIsComplete, Execute, files
<1> QED
  BY <1>1, <1>2, <1>3, <1>4, <1>5, <1>6, <1>7 DEF DirectoriesInv

\* It takes the digest of its strategy.
LEMMA DigestStep ==
  ASSUME DirectoriesInv, NEW p \in Processes, Digest(p)
  PROVE  DirectoriesInv'
<1>1. ValuesInv'
  BY DEF DirectoriesInv, ValuesInv, Digest, Goto, Labels, Outcomes, Versions, Preparing, inputs,
     files
<1>2. ProgressInv'
  BY DEF DirectoriesInv, ProgressInv, ValuesInv, Digest, Goto, Preparing, files
<1>3. StagedInv'
  BY DEF DirectoriesInv, StagedInv, ValuesInv, Digest, Goto, files
<1>4. OwnedInv'
  BY DEF DirectoriesInv, OwnedInv, ValuesInv, Digest, Goto, Preparing, files
<1>5. PublishedInv'
  BY DEF DirectoriesInv, PublishedInv, Digest, files
<1>6. CleanInv'
  BY DEF DirectoriesInv, CleanInv, ValuesInv, Digest, Goto, Preparing, files
<1>7. PublishedIsComplete'
  BY DEF DirectoriesInv, PublishedIsComplete, Digest, files
<1> QED
  BY <1>1, <1>2, <1>3, <1>4, <1>5, <1>6, <1>7 DEF DirectoriesInv

\* It draws its run id, from which on it has one.
LEMMA IdentifyStep ==
  ASSUME DirectoriesInv, NEW p \in Processes, Identify(p)
  PROVE  DirectoriesInv'
<1>1. ValuesInv'
  BY DEF DirectoriesInv, ValuesInv, Identify, Goto, Labels, Outcomes, Versions, Preparing, inputs,
     files
<1>2. ProgressInv'
  BY DEF DirectoriesInv, ProgressInv, ValuesInv, Identify, Goto, Preparing, files
<1>3. StagedInv'
  BY DEF DirectoriesInv, StagedInv, ValuesInv, Identify, Goto, files
<1>4. OwnedInv'
  <2>1. outcome[p] = "none"
    BY DEF DirectoriesInv, ProgressInv, Identify
  <2> QED
    BY <2>1 DEF DirectoriesInv, OwnedInv, ValuesInv, Identify, Goto, files
<1>5. PublishedInv'
  BY DEF DirectoriesInv, PublishedInv, Identify, files
<1>6. CleanInv'
  BY DEF DirectoriesInv, CleanInv, ValuesInv, Identify, Goto, Preparing, files
<1>7. PublishedIsComplete'
  BY DEF DirectoriesInv, PublishedIsComplete, Identify, files
<1> QED
  BY <1>1, <1>2, <1>3, <1>4, <1>5, <1>6, <1>7 DEF DirectoriesInv

\* It fails before there is anything to record.
LEMMA RefuseStep ==
  ASSUME DirectoriesInv, NEW p \in Processes, Refuse(p)
  PROVE  DirectoriesInv'
<1>1. ValuesInv'
  BY DEF DirectoriesInv, ValuesInv, Refuse, Goto, End, Fault, Labels, Outcomes, Preparing, inputs,
     made, files
<1>2. ProgressInv'
  BY DEF DirectoriesInv, ProgressInv, ValuesInv, Refuse, Goto, End, Preparing, made, files
<1>3. StagedInv'
  BY DEF DirectoriesInv, StagedInv, ValuesInv, Refuse, Goto, End, made, files
<1>4. OwnedInv'
  BY DEF DirectoriesInv, OwnedInv, ValuesInv, Refuse, Goto, End, Preparing, made, files
<1>5. PublishedInv'
  BY DEF DirectoriesInv, PublishedInv, Refuse, made, files
<1>6. CleanInv'
  BY DEF DirectoriesInv, CleanInv, ValuesInv, Refuse, Goto, End, Preparing, made, files
<1>7. PublishedIsComplete'
  BY DEF DirectoriesInv, PublishedIsComplete, Refuse, made, files
<1> QED
  BY <1>1, <1>2, <1>3, <1>4, <1>5, <1>6, <1>7 DEF DirectoriesInv

\* It works, and may make the directory of a bundle.
LEMMA WorkStep ==
  ASSUME DirectoriesInv, NEW p \in Processes, Work(p)
  PROVE  DirectoriesInv'
<1>1. ValuesInv'
  BY DEF DirectoriesInv, ValuesInv, Work, Goto, Handler, Fault, Labels, Outcomes, Preparing,
     inputs, made
<1>2. ProgressInv'
  BY DEF DirectoriesInv, ProgressInv, ValuesInv, Work, Goto, Handler, Preparing, made
<1>3. StagedInv'
  BY DEF DirectoriesInv, StagedInv, ValuesInv, Work, Goto, Handler, made
<1>4. OwnedInv'
  BY DEF DirectoriesInv, OwnedInv, ValuesInv, Work, Goto, Handler, Preparing, made
<1>5. PublishedInv'
  BY DEF DirectoriesInv, PublishedInv, Work, made
<1>6. CleanInv'
  <2>1. outcome[p] = "none" /\ outcome' = outcome /\ staged' = staged /\ stuck' = stuck
    BY DEF DirectoriesInv, ProgressInv, Work, made, files
  <2>2. ASSUME NEW q \in Processes, q # p PROVE pc'[q] = pc[q] /\ bundleDir'[q] = bundleDir[q]
    BY <2>2 DEF DirectoriesInv, ValuesInv, Work, Goto
  <2>3. ~stuck[p] => staged[p] = NoDirectory /\ ~bundleDir[p]
    BY DEF DirectoriesInv, CleanInv, Work
  <2>4. /\ pc'[p] \in {"commit", "failure", "unwind"}
        /\ ~stuck[p] => pc'[p] # "unwind"
        /\ pc'[p] = "failure" => bundleDir'[p] = bundleDir[p]
    BY <2>3 DEF DirectoriesInv, ValuesInv, Work, Goto, Handler
  <2>5. ASSUME NEW q \in Processes, ~stuck'[q]
        PROVE  /\ pc'[q] \in Preparing \cup {"work", "commit", "leave", "unwind", "failure"} => staged'[q] = NoDirectory
               /\ pc'[q] \in Preparing \cup {"work", "failure", "explain"} => ~bundleDir'[q]
               /\ outcome'[q] \notin {"none", "killed"} => staged'[q] = NoDirectory /\ ~bundleDir'[q]
    <3>1. CASE q = p
      BY <2>1, <2>3, <2>4, <2>5, <3>1 DEF Preparing
    <3>2. CASE q # p
      BY <2>1, <2>2, <2>5, <3>2 DEF DirectoriesInv, CleanInv
    <3> QED
      BY <3>1, <3>2
  <2> QED
    BY <2>5 DEF CleanInv
<1>7. PublishedIsComplete'
  BY DEF DirectoriesInv, PublishedIsComplete, Work, made
<1> QED
  BY <1>1, <1>2, <1>3, <1>4, <1>5, <1>6, <1>7 DEF DirectoriesInv

\* Saving the bundle fails.
LEMMA SaveFailsStep ==
  ASSUME DirectoriesInv, NEW p \in Processes, SaveFails(p)
  PROVE  DirectoriesInv'
<1>1. ValuesInv'
  BY DEF DirectoriesInv, ValuesInv, SaveFails, Goto, Fault, Labels, Outcomes, Preparing, inputs,
     made, files
<1>2. ProgressInv'
  BY DEF DirectoriesInv, ProgressInv, ValuesInv, SaveFails, Goto, Preparing, made, files
<1>3. StagedInv'
  BY DEF DirectoriesInv, StagedInv, ValuesInv, SaveFails, Goto, made, files
<1>4. OwnedInv'
  BY DEF DirectoriesInv, OwnedInv, ValuesInv, SaveFails, Goto, Preparing, made, files
<1>5. PublishedInv'
  BY DEF DirectoriesInv, PublishedInv, SaveFails, made, files
<1>6. CleanInv'
  BY DEF DirectoriesInv, CleanInv, ValuesInv, SaveFails, Goto, Preparing, made, files
<1>7. PublishedIsComplete'
  BY DEF DirectoriesInv, PublishedIsComplete, SaveFails, made, files
<1> QED
  BY <1>1, <1>2, <1>3, <1>4, <1>5, <1>6, <1>7 DEF DirectoriesInv

\* It deletes the directory of the bundle, or cannot.
LEMMA UnwindStep ==
  ASSUME DirectoriesInv, NEW p \in Processes, Unwind(p)
  PROVE  DirectoriesInv'
<1>1. ValuesInv'
  BY DEF DirectoriesInv, ValuesInv, Unwind, Goto, End, Fault, Labels, Outcomes, Preparing, inputs,
     made
<1>2. ProgressInv'
  BY DEF DirectoriesInv, ProgressInv, ValuesInv, Unwind, Goto, End, Preparing, made
<1>3. StagedInv'
  BY DEF DirectoriesInv, StagedInv, ValuesInv, Unwind, Goto, End, made
<1>4. OwnedInv'
  BY DEF DirectoriesInv, OwnedInv, ValuesInv, Unwind, Goto, End, Preparing, made
<1>5. PublishedInv'
  BY DEF DirectoriesInv, PublishedInv, Unwind, made
<1>6. CleanInv'
  BY DEF DirectoriesInv, CleanInv, ValuesInv, Unwind, Goto, End, Preparing, made
<1>7. PublishedIsComplete'
  BY DEF DirectoriesInv, PublishedIsComplete, Unwind, made
<1> QED
  BY <1>1, <1>2, <1>3, <1>4, <1>5, <1>6, <1>7 DEF DirectoriesInv

\* It makes its hidden directory, or goes to its handler.
LEMMA StageStep ==
  ASSUME DirectoriesInv, NEW p \in Processes, Stage(p)
  PROVE  DirectoriesInv'
<1>1. ValuesInv'
  BY DEF DirectoriesInv, ValuesInv, Stage, Goto, End, Free, Escape, Handler, Fault, Labels,
     Outcomes, Preparing, inputs, made
<1>2. ProgressInv'
  BY DEF DirectoriesInv, ProgressInv, ValuesInv, Stage, Goto, End, Free, Escape, Handler,
     Preparing, made
<1>3. StagedInv'
  <2>1. pc'[p] \in {"populate", "explain"} => staged'[p] = {}
    BY DEF DirectoriesInv, ValuesInv, Stage, Goto, End, Escape, Handler
  <2>2. staged'[p] = {} \/ staged'[p] = staged[p]
    BY DEF DirectoriesInv, ValuesInv, Stage
  <2>3. case' = case
    BY DEF Stage, made
  <2>4. ASSUME NEW q \in Processes, q # p PROVE pc'[q] = pc[q] /\ staged'[q] = staged[q]
    BY <2>4 DEF DirectoriesInv, ValuesInv, Stage, Goto, End, Escape, Handler
  <2> QED
    BY <2>1, <2>2, <2>3, <2>4 DEF DirectoriesInv, StagedInv
<1>4. OwnedInv'
  BY DEF DirectoriesInv, OwnedInv, ValuesInv, Stage, Goto, End, Free, Escape, Handler, Preparing,
     made
<1>5. PublishedInv'
  BY DEF DirectoriesInv, PublishedInv, Stage, made
<1>6. CleanInv'
  <2>1. outcome[p] = "none" /\ bundleDir' = bundleDir /\ stuck' = stuck
    BY DEF DirectoriesInv, ProgressInv, Stage, files
  <2>2. ASSUME NEW q \in Processes, q # p
        PROVE  pc'[q] = pc[q] /\ staged'[q] = staged[q] /\ outcome'[q] = outcome[q]
    BY <2>2 DEF DirectoriesInv, ValuesInv, Stage, Goto, End, Escape, Handler
  <2>3. \/ pc'[p] \in {"populate", "explain"} /\ outcome'[p] = "none" /\ (pc'[p] = "explain" => pc[p] = "failure")
        \/ pc'[p] = "ended" /\ pc[p] = "failure" /\ staged'[p] = staged[p]
        \/ pc[p] = "commit" /\ pc'[p] = Handler(p) /\ outcome'[p] = "none" /\ staged'[p] = staged[p]
    BY <2>1 DEF DirectoriesInv, ValuesInv, Stage, Goto, End, Escape, Handler
  <2>4. ~stuck[p] => staged[p] = NoDirectory /\ (pc[p] = "failure" => ~bundleDir[p])
    BY DEF DirectoriesInv, CleanInv, Stage
  <2>5. Handler(p) = IF bundleDir[p] THEN "unwind" ELSE "failure"
    BY DEF Handler
  <2> QED
    BY <2>1, <2>2, <2>3, <2>4, <2>5 DEF DirectoriesInv, CleanInv, Preparing
<1>7. PublishedIsComplete'
  BY DEF DirectoriesInv, PublishedIsComplete, Stage, made
<1> QED
  BY <1>1, <1>2, <1>3, <1>4, <1>5, <1>6, <1>7 DEF DirectoriesInv

\* It writes the next file: run.json when all others are there.
LEMMA PopulateStep ==
  ASSUME DirectoriesInv, NEW p \in Processes, Populate(p)
  PROVE  DirectoriesInv'
<1>1. PICK k \in DOMAIN Contents(p) :
        /\ Contents(p)[k] \notin staged[p]
        /\ \A j \in 1 .. k - 1 : Contents(p)[j] \in staged[p]
        /\ staged' = [staged EXCEPT ![p] = @ \cup {Contents(p)[k]}]
  BY DEF Populate
<1>2. PICK f, now : f = Contents(p)[k] /\ now = staged[p] \cup {f}
  OBVIOUS
<1>3. staged' = [staged EXCEPT ![p] = now]
  BY <1>1, <1>2
<1>4. UNCHANGED <<sources, edits, pc, case, ran, recorded, runId, bundleDir, stuck, published, outcome>>
  BY DEF Populate, inputs, made
<1>5. pc[p] \in {"populate", "explain"} /\ "run.json" \notin staged[p] /\ outcome[p] = "none"
  BY DEF DirectoriesInv, ProgressInv, Populate
<1>6. case[p] \in {"rule", "model"}
  BY DEF DirectoriesInv, ValuesInv
<1>7. ASSUME pc[p] = "populate"
      PROVE  f \in Expected(case[p]) /\ ("run.json" \in now => now = Expected(case[p]))
  <2>1. Contents(p) = IF case[p] = "model" THEN <<"tables", "plots", "bundle", "predictions", "run.json">>
                      ELSE <<"tables", "plots", "run.json">>
    BY <1>7 DEF Contents, Order
  <2>2. staged[p] \subseteq Expected(case[p])
    BY <1>7 DEF DirectoriesInv, StagedInv
  <2>3. f \in Expected(case[p])
    BY <1>1, <1>2, <1>6, <2>1 DEF Expected, Success
  <2>4. ASSUME f = "run.json" PROVE now = Expected(case[p])
    <3>1. CASE case[p] = "model"
      <4>1. PICK order : order = <<"tables", "plots", "bundle", "predictions", "run.json">>
        OBVIOUS
      <4>2. Contents(p) = order
        BY <2>1, <4>1, <3>1
      <4>3. DOMAIN order = 1 .. 5 /\ \A j \in 1 .. 4 : order[j] # "run.json"
        BY <4>1
      <4>4. k \in 1 .. 5 /\ order[k] = "run.json"
        BY <1>1, <1>2, <2>4, <4>2, <4>3
      <4>5. k = 5
        BY <4>3, <4>4
      <4>6. {"tables", "plots", "bundle", "predictions"} \subseteq staged[p]
        BY <1>1, <2>1, <3>1, <4>5
      <4> QED
        BY <1>2, <2>2, <2>4, <3>1, <4>6 DEF Expected, Success
    <3>2. CASE case[p] = "rule"
      <4>1. PICK order : order = <<"tables", "plots", "run.json">>
        OBVIOUS
      <4>2. Contents(p) = order
        BY <2>1, <4>1, <3>2
      <4>3. DOMAIN order = 1 .. 3 /\ \A j \in 1 .. 2 : order[j] # "run.json"
        BY <4>1
      <4>4. k \in 1 .. 3 /\ order[k] = "run.json"
        BY <1>1, <1>2, <2>4, <4>2, <4>3
      <4>5. k = 3
        BY <4>3, <4>4
      <4>6. {"tables", "plots"} \subseteq staged[p]
        BY <1>1, <2>1, <3>2, <4>5
      <4> QED
        BY <1>2, <2>2, <2>4, <3>2, <4>6 DEF Expected, Success
    <3> QED
      BY <1>6, <3>1, <3>2
  <2> QED
    BY <1>2, <1>5, <2>3, <2>4
<1>8. ASSUME pc[p] = "explain" PROVE f = "run.json" /\ now \subseteq {"run.json"}
  <2>1. Contents(p) = <<"run.json">>
    BY <1>8 DEF Contents
  <2>2. f = "run.json"
    BY <1>1, <1>2, <2>1
  <2>3. staged[p] \subseteq {"run.json"}
    BY <1>8 DEF DirectoriesInv, StagedInv
  <2> QED
    BY <1>2, <2>2, <2>3
<1>9. f \in Expected(case[p]) /\ now \subseteq Expected(case[p])
  <2>1. "run.json" \in Expected(case[p])
    BY DEF Expected, Success
  <2>2. staged[p] \subseteq Expected(case[p])
    BY <1>5, <2>1 DEF DirectoriesInv, StagedInv
  <2> QED
    BY <1>2, <1>5, <1>7, <1>8, <2>1, <2>2
<1>10. ValuesInv'
  <2>1. now \in SUBSET AllFiles
    BY <1>9 DEF Expected, AllFiles
  <2>2. staged' \in [Processes -> (SUBSET AllFiles) \cup {NoDirectory}]
    BY <1>3, <2>1 DEF DirectoriesInv, ValuesInv
  <2> QED
    BY <1>4, <2>2 DEF DirectoriesInv, ValuesInv
<1>11. ProgressInv'
  BY <1>4 DEF DirectoriesInv, ProgressInv
<1>12. staged'[p] = now /\ \A q \in Processes : q # p => staged'[q] = staged[q]
  BY <1>3 DEF DirectoriesInv, ValuesInv
<1>13. StagedInv'
  <2>1. ASSUME NEW q \in Processes
        PROVE  /\ staged'[q] = NoDirectory \/ staged'[q] \subseteq Expected(case[q])
               /\ pc[q] = "populate" => /\ staged'[q] \subseteq Expected(case[q])
                                        /\ "run.json" \in staged'[q] => staged'[q] = Expected(case[q])
               /\ pc[q] = "explain" => staged'[q] \subseteq {"run.json"}
    <3>1. CASE q = p
      BY <1>7, <1>8, <1>9, <1>12, <3>1
    <3>2. CASE q # p
      BY <1>12, <3>2 DEF DirectoriesInv, StagedInv
    <3> QED
      BY <3>1, <3>2
  <2> QED
    BY <1>4, <2>1 DEF StagedInv
<1>14. OwnedInv' /\ PublishedInv' /\ PublishedIsComplete'
  BY <1>4 DEF DirectoriesInv, OwnedInv, PublishedInv, PublishedIsComplete
<1>15. CleanInv'
  BY <1>4, <1>5, <1>12 DEF DirectoriesInv, CleanInv, Preparing
<1> QED
  BY <1>10, <1>11, <1>13, <1>14, <1>15 DEF DirectoriesInv

\* Writing or renaming fails: the hidden directory is deleted, or stays for good.
LEMMA AbortStep ==
  ASSUME DirectoriesInv, NEW p \in Processes, Abort(p)
  PROVE  DirectoriesInv'
<1>1. ValuesInv'
  <2>1. pc' \in [Processes -> Labels]
    BY DEF DirectoriesInv, ValuesInv, Abort, Goto, End, Escape, Handler, Labels
  <2>2. outcome' \in [Processes -> Outcomes]
    BY DEF DirectoriesInv, ValuesInv, Abort, Goto, End, Escape, Outcomes
  <2>3. staged' \in [Processes -> (SUBSET AllFiles) \cup {NoDirectory}]
    BY DEF DirectoriesInv, ValuesInv, Abort, Discard
  <2>4. stuck' \in [Processes -> BOOLEAN]
    <3>1. stuck' = stuck \/ stuck' = [stuck EXCEPT ![p] = TRUE]
      BY DEF Abort, Discard
    <3>2. stuck \in [Processes -> BOOLEAN]
      BY DEF DirectoriesInv, ValuesInv
    <3> QED
      BY <3>1, <3>2, Zenon
  <2>5. UNCHANGED <<edits, sources, case, ran, recorded, runId, bundleDir, published>>
    BY DEF Abort, inputs, made
  <2> QED
    BY <2>1, <2>2, <2>3, <2>4, <2>5 DEF DirectoriesInv, ValuesInv
<1>2. ProgressInv'
  BY DEF DirectoriesInv, ProgressInv, ValuesInv, Abort, Discard, Goto, End, Escape, Handler,
     Preparing, made
<1>3. StagedInv'
  <2>1. pc'[p] \notin {"populate", "explain"}
    BY DEF DirectoriesInv, ValuesInv, Abort, Goto, End, Escape, Handler
  <2>2. staged'[p] = NoDirectory \/ staged'[p] = staged[p]
    BY DEF DirectoriesInv, ValuesInv, Abort, Discard
  <2>3. case' = case
    BY DEF Abort, made
  <2>4. ASSUME NEW q \in Processes, q # p PROVE pc'[q] = pc[q] /\ staged'[q] = staged[q]
    BY <2>4 DEF DirectoriesInv, ValuesInv, Abort, Discard, Goto, End, Escape, Handler
  <2> QED
    BY <2>1, <2>2, <2>3, <2>4 DEF DirectoriesInv, StagedInv
<1>4. OwnedInv'
  BY DEF DirectoriesInv, OwnedInv, ValuesInv, Abort, Discard, Goto, End, Escape, Handler,
     Preparing, made
<1>5. PublishedInv'
  BY DEF DirectoriesInv, PublishedInv, Abort, made
<1>6. CleanInv'
  BY DEF DirectoriesInv, CleanInv, ValuesInv, Abort, Discard, Goto, End, Escape, Handler,
     Preparing, made
<1>7. PublishedIsComplete'
  BY DEF DirectoriesInv, PublishedIsComplete, Abort, made
<1> QED
  BY <1>1, <1>2, <1>3, <1>4, <1>5, <1>6, <1>7 DEF DirectoriesInv

\* It publishes its hidden directory under an id nobody has.
LEMMA RenameStep ==
  ASSUME DirectoriesInv, NEW p \in Processes, Rename(p)
  PROVE  DirectoriesInv'
<1>1. ValuesInv'
  <2>1. pc' \in [Processes -> Labels]
    BY DEF DirectoriesInv, ValuesInv, Rename, Goto, End, Labels
  <2>2. outcome' \in [Processes -> Outcomes]
    BY DEF DirectoriesInv, ValuesInv, Rename, Goto, End, Outcomes
  <2>3. staged' \in [Processes -> (SUBSET AllFiles) \cup {NoDirectory}]
    BY DEF DirectoriesInv, ValuesInv, Rename
  <2>4. runId[p] \in RunIds
    BY DEF DirectoriesInv, ProgressInv, Rename, Preparing
  <2>5. DOMAIN published' \subseteq RunIds
    BY <2>4 DEF DirectoriesInv, ValuesInv, Rename
  <2>6. UNCHANGED <<edits, sources, case, ran, recorded, runId, bundleDir, stuck>>
    BY DEF Rename, inputs, made
  <2> QED
    BY <2>1, <2>2, <2>3, <2>5, <2>6 DEF DirectoriesInv, ValuesInv
<1>2. ProgressInv'
  BY DEF DirectoriesInv, ProgressInv, ValuesInv, Rename, Goto, End, Free, Directory, Preparing, made
<1>3. StagedInv'
  <2>1. pc'[p] \notin {"populate", "explain"} /\ staged'[p] = NoDirectory /\ case' = case
    BY DEF DirectoriesInv, ValuesInv, Rename, Goto, End, made
  <2>2. ASSUME NEW q \in Processes, q # p PROVE pc'[q] = pc[q] /\ staged'[q] = staged[q]
    BY <2>2 DEF DirectoriesInv, ValuesInv, Rename, Goto, End
  <2> QED
    BY <2>1, <2>2 DEF DirectoriesInv, StagedInv
<1>4. OwnedInv'
  BY DEF DirectoriesInv, OwnedInv, ValuesInv, Rename, Goto, End, Free, Directory, Preparing, made
<1>5. PublishedInv'
  BY DEF DirectoriesInv, PublishedInv, Rename, Directory
<1>6. CleanInv'
  BY DEF DirectoriesInv, CleanInv, ValuesInv, Rename, Goto, End, Free, Directory, Preparing, made
<1>7. PublishedIsComplete'
  <2>1. case' = case
    BY DEF Rename, made
  <2>2. PICK status : /\ status = IF pc[p] = "populate" THEN "success" ELSE "failed"
                     /\ published' = [i \in DOMAIN published \cup {runId[p]} |->
                                       IF i = runId[p] THEN Directory(p, status) ELSE published[i]]
    BY DEF Rename
  <2>3. staged[p] = IF status = "success" THEN Expected(case[p]) ELSE {"run.json"}
    BY <2>2 DEF DirectoriesInv, StagedInv, Rename
  <2>4. Directory(p, status).owner = p /\ Directory(p, status).status = status /\ Directory(p, status).files = staged[p]
    BY DEF Directory
  <2>5. ASSUME NEW i \in DOMAIN published'
        PROVE  published'[i].files = IF published'[i].status = "success"
                                     THEN Expected(case[published'[i].owner]) ELSE {"run.json"}
    <3>1. CASE i = runId[p]
      BY <2>2, <2>3, <2>4, <3>1
    <3>2. CASE i # runId[p]
      BY <2>2, <2>5, <3>2 DEF DirectoriesInv, PublishedIsComplete
    <3> QED
      BY <3>1, <3>2
  <2> QED
    BY <2>1, <2>5 DEF PublishedIsComplete, Expected
<1> QED
  BY <1>1, <1>2, <1>3, <1>4, <1>5, <1>6, <1>7 DEF DirectoriesInv

\* It is killed.
LEMMA KillStep ==
  ASSUME DirectoriesInv, NEW p \in Processes, Kill(p)
  PROVE  DirectoriesInv'
<1>1. ValuesInv'
  BY DEF DirectoriesInv, ValuesInv, Kill, Goto, End, Fault, Labels, Outcomes, Preparing, inputs,
     made
<1>2. ProgressInv'
  BY DEF DirectoriesInv, ProgressInv, ValuesInv, Kill, Goto, End, Preparing, made
<1>3. StagedInv'
  BY DEF DirectoriesInv, StagedInv, ValuesInv, Kill, Goto, End, made
<1>4. OwnedInv'
  BY DEF DirectoriesInv, OwnedInv, ValuesInv, Kill, Goto, End, Preparing, made
<1>5. PublishedInv'
  BY DEF DirectoriesInv, PublishedInv, Kill, made
<1>6. CleanInv'
  BY DEF DirectoriesInv, CleanInv, ValuesInv, Kill, Goto, End, Preparing, made
<1>7. PublishedIsComplete'
  BY DEF DirectoriesInv, PublishedIsComplete, Kill, made
<1> QED
  BY <1>1, <1>2, <1>3, <1>4, <1>5, <1>6, <1>7 DEF DirectoriesInv
\* Somebody edits a source file.
LEMMA EditStep ==
  ASSUME DirectoriesInv, Edit
  PROVE  DirectoriesInv'
<1>1. ValuesInv'
  <2>1. edits' \in 0 .. MaxEdits
    BY BoundsAssumption DEF DirectoriesInv, ValuesInv, Edit
  <2> QED
    BY <2>1 DEF DirectoriesInv, ValuesInv, Versions, Edit, made, files
<1> QED
  BY <1>1 DEF DirectoriesInv, Edit, made, files, ProgressInv, StagedInv, OwnedInv, PublishedInv,
     CleanInv,
              PublishedIsComplete

\* At the beginning nothing is there.
LEMMA DirectoriesStart == Init => DirectoriesInv
<1> SUFFICES ASSUME Init PROVE DirectoriesInv
  OBVIOUS
<1>1. DOMAIN published = {}
  BY DEF Init
<1>2. ValuesInv
  <2>1. 0 \in 0 .. MaxEdits
    BY BoundsAssumption
  <2>2. bundleDir \in [Processes -> BOOLEAN] /\ stuck \in [Processes -> BOOLEAN]
    BY Zenon DEF Init
  <2>3. sources \in Versions /\ ran \in [Processes -> Versions] /\ recorded \in [Processes -> Versions]
    BY <2>1 DEF Init, Versions
  <2>4. edits \in 0 .. MaxEdits
    BY <2>1 DEF Init
  <2>5. staged \in [Processes -> (SUBSET AllFiles) \cup {NoDirectory}]
    BY DEF Init
  <2> QED
    BY <1>1, <2>2, <2>3, <2>4, <2>5 DEF Init, ValuesInv, Labels, Preparing, Outcomes
<1> QED
  BY <1>1, <1>2 DEF Init, DirectoriesInv, ProgressInv, StagedInv, OwnedInv, PublishedInv, CleanInv,
     Preparing,
                    PublishedIsComplete

\* The inductive invariant: at every point of every run's code, what is staged,
\* what there is to delete and what is published.
THEOREM DirectoriesSafe == Spec => []DirectoriesInv
<1>1. DirectoriesInv /\ [Next]_vars => DirectoriesInv'
  <2> SUFFICES ASSUME DirectoriesInv, [Next]_vars PROVE DirectoriesInv'
    OBVIOUS
  <2>1. CASE Edit
    BY <2>1, EditStep
  <2>2. CASE \E p \in Processes :
               \/ Parse(p) \/ Execute(p) \/ Digest(p) \/ Identify(p) \/ Refuse(p)
               \/ Work(p) \/ SaveFails(p) \/ Unwind(p)
               \/ Stage(p) \/ Populate(p) \/ Abort(p) \/ Rename(p) \/ Kill(p)
    BY <2>2, ParseStep, ExecuteStep, DigestStep, IdentifyStep, RefuseStep, WorkStep, SaveFailsStep,
       UnwindStep, StageStep, PopulateStep, AbortStep, RenameStep, KillStep
  <2>3. CASE UNCHANGED vars
    BY <2>3 DEF vars, inputs, made, files, DirectoriesInv, ValuesInv, ProgressInv, StagedInv,
       OwnedInv, PublishedInv,
                CleanInv, PublishedIsComplete
  <2> QED
    BY <2>1, <2>2, <2>3 DEF Next
<1> QED
  BY <1>1, DirectoriesStart, PTL DEF Spec

\* Whatever fails, is killed or is edited, and whoever draws the same run id: a
\* published directory is complete or a failure's, a run that ended by itself has
\* one of its own, and nothing is left beside it (experiment.py:119-160, writer.py:305-458).
THEOREM RunsAreRecorded == Spec => []RunInv
<1>1. DirectoriesInv => RunInv
  <2> SUFFICES ASSUME DirectoriesInv PROVE RunInv
    OBVIOUS
  <2>1. TypeOK
    BY DEF DirectoriesInv, ValuesInv, ProgressInv, StagedInv, TypeOK, Labels, Preparing, Versions
  <2>2. EveryRunIsRecorded /\ NothingIsLeft
    BY DEF DirectoriesInv, OwnedInv, CleanInv, EveryRunIsRecorded, NothingIsLeft
  <2> QED
    BY <2>1, <2>2 DEF DirectoriesInv, RunInv
<1> QED
  BY <1>1, DirectoriesSafe, PTL
-------------------------------------------------------------------------------
(* Training a model, and serving it. *)

\* No epoch of a bundle beats the kept one by more than min_delta, and training
\* stopped when patience was exhausted or the epochs were.
Sound(b) ==
  /\ \A e \in 1 .. b.epochs :
       b.losses[e] # NaN => b.losses[b.weights] # NaN /\ b.losses[e] >= b.losses[b.weights] - MinDelta
  /\ b.epochs - b.weights <= Patience
  /\ b.epochs - b.weights = Patience \/ b.epochs = MaxEpochs

AtMostOne(S) == S = {} \/ \E x : S = {x}

\* While epochs are trained: the best one so far, and how many since.
LossesInv ==
  /\ losses \in Seq(Losses \cup {NaN}) /\ best \in 0 .. Len(losses) /\ stale \in 0 .. Patience
  /\ stage \in {"build", "fit", "keep"} =>
       /\ stale = Len(losses) - best /\ (best = 0 => Len(losses) = 0)
       /\ best > 0 /\ losses[best] # NaN =>
            \A e \in 1 .. Len(losses) : losses[e] # NaN => losses[e] >= losses[best] - MinDelta
  /\ stage \in {"build", "fit"} => stale < Patience
  /\ stage = "keep" => stale = Patience

\* Bundles are of the run that made them.
BundlesInv ==
  /\ AtMostOne(bundle) /\ \A b \in bundle : b.source = run.source
  /\ \A b \in bundle \cup results : Sound(b)

\* The live service loads what was published, as model.py is now.
LiveInv ==
  /\ AtMostOne(deployed) /\ deployed \subseteq results
  /\ AtMostOne(loaded) /\ \A x \in loaded : x.bundle.source = x.source
  /\ served \subseteq results

\* A prediction is of a later day than the training, from features as trained.
PredictionsInv ==
  \A p \in predictions : /\ p.day > p.bundle.trained
                         /\ p.features = p.bundle.source.features
                         /\ Cardinality(p.history) = p.bundle.source.history

SettingsInv ==
  /\ split \in Splits /\ source \in ModelSources /\ run.split \in Splits /\ run.source \in ModelSources
  /\ stage \in {"idle", "build", "fit", "keep", "evaluate", "predict"}

FittingInv == SettingsInv /\ LossesInv /\ BundlesInv /\ LiveInv /\ PredictionsInv
-----------------------------------------------------------------------------
(* Samples. *)

\* The rows of a security: an interval of days.
LEMMA RowsAreDays ==
  ASSUME NEW s \in Symbols, NEW sp \in Splits
  PROVE  \E first, n \in Int : /\ Rows(s, sp) = [i \in 1 .. n |-> first + i - 1]
                               /\ Len(Rows(s, sp)) = IF n < 0 THEN 0 ELSE n
<1> DEFINE first == Max({Lives[s].from, sp.train.from - Padding, 0})
           last == Min({Lives[s].to, sp.test.to, LastDay})
           n == last - first + 1
<1>1. /\ Lives[s].from \in Int /\ Lives[s].to \in Int /\ sp.train.from \in Int /\ sp.test.to \in Int
      /\ Padding \in Int /\ LastDay \in Int
  BY DataAssumption, TrainingAssumption
<1>2. ASSUME NEW x \in Int, NEW y \in Int, NEW z \in Int
      PROVE  Max({x, y, z}) \in Int /\ Min({x, y, z}) \in Int
  <2>1. \E m \in {x, y, z} : \A k \in {x, y, z} : m >= k
    <3>1. CASE x >= y /\ x >= z
      BY <3>1
    <3>2. CASE y >= x /\ y >= z
      BY <3>2
    <3>3. CASE z >= x /\ z >= y
      BY <3>3
    <3> QED
      BY <3>1, <3>2, <3>3
  <2>2. \E m \in {x, y, z} : \A k \in {x, y, z} : m =< k
    <3>1. CASE x <= y /\ x <= z
      BY <3>1
    <3>2. CASE y <= x /\ y <= z
      BY <3>2
    <3>3. CASE z <= x /\ z <= y
      BY <3>3
    <3> QED
      BY <3>1, <3>2, <3>3
  <2>3. Max({x, y, z}) \in {x, y, z}
    BY <2>1 DEF Max
  <2>4. Min({x, y, z}) \in {x, y, z}
    BY <2>2 DEF Min
  <2> QED
    BY <2>3, <2>4
<1>3. first \in Int /\ last \in Int
  <2>1. PICK x \in Int : x = sp.train.from - Padding
    BY <1>1
  <2>2. Max({Lives[s].from, x, 0}) \in Int
    BY <1>1, <1>2
  <2>3. Min({Lives[s].to, sp.test.to, LastDay}) \in Int
    BY <1>1, <1>2
  <2> QED
    BY <2>1, <2>2, <2>3
<1>4. n \in Int
  <2> HIDE DEF first, last
  <2> QED
    BY <1>3
<1>5. Rows(s, sp) = [i \in 1 .. n |-> first + i - 1]
  BY DEF Rows
<1> HIDE DEF first, n
<1>6. Len(Rows(s, sp)) = IF n < 0 THEN 0 ELSE n
  <2>1. PICK k \in Nat : k = IF n < 0 THEN 0 ELSE n
    BY <1>4
  <2>2. 1 .. n = 1 .. k
    BY <1>4, <2>1
  <2>3. Rows(s, sp) \in [1 .. k -> Int]
    BY <1>3, <1>5, <2>2
  <2>4. Rows(s, sp) \in Seq(Int) /\ DOMAIN Rows(s, sp) = 1 .. k
    BY <2>1, <2>3, IsASeq
  <2>5. Len(Rows(s, sp)) \in Nat /\ 1 .. Len(Rows(s, sp)) = 1 .. k
    BY <2>4, LenProperties
  <2>6. Len(Rows(s, sp)) = k
    BY <2>1, <2>5
  <2> QED
    BY <2>1, <2>6
<1> QED
  BY <1>3, <1>4, <1>5, <1>6

\* The last rows of a security up to a row are its days up to that row's.
LEMMA HistoriesAgree ==
  ASSUME NEW s \in Symbols, NEW sp \in Splits, NEW src \in ModelSources, NEW i \in 1 .. (Len(Rows(s, sp)) - 2)
  PROVE  History(s, sp, src, i) = Shown(s, sp, src, Rows(s, sp)[i])
<1>1. PICK first \in Int, n \in Int : /\ Rows(s, sp) = [j \in 1 .. n |-> first + j - 1]
                                      /\ Len(Rows(s, sp)) = IF n < 0 THEN 0 ELSE n
  BY RowsAreDays
<1>2. PICK h \in Nat : h = src.history
  BY DataAssumption
<1>3. i \in Int /\ i \in 1 .. n /\ Rows(s, sp)[i] = first + i - 1
  <2>1. PICK len : len = Len(Rows(s, sp))
    OBVIOUS
  <2>2. len = (IF n < 0 THEN 0 ELSE n) /\ i \in 1 .. (len - 2)
    BY <1>1, <2>1
  <2>3. i \in Int /\ i \in 1 .. n
    BY ONLY <2>2, n \in Int
  <2> QED
    BY <1>1, <2>3
<1>4. RowSet(s, sp) = {first + j - 1 : j \in 1 .. n}
  BY <1>1 DEF RowSet, Range
<1>5. History(s, sp, src, i) = {first + j - 1 : j \in {k \in 1 .. n : i - h < k /\ k <= i}}
  BY <1>1, <1>2 DEF History
<1>6. \A j \in 1 .. n : i - h < j /\ j <= i <=> (first + i - 1) - h < first + j - 1 /\ first + j - 1 <= first + i - 1
  BY <1>1, <1>2, <1>3
<1> QED
  BY <1>2, <1>3, <1>4, <1>5, <1>6 DEF Shown

\* So are those of every sample.
LEMMA SamplesAgree ==
  ASSUME NEW sp \in Splits, NEW src \in ModelSources, NEW part, NEW s \in Symbols,
         NEW x \in Samples(part, sp, src), x.symbol = s
  PROVE  History(s, sp, src, x.row) = Shown(s, sp, src, DayOf(x, sp))
<1>1. x.row \in 1 .. (Len(Rows(s, sp)) - 2)
  BY DEF Samples
<1>2. DayOf(x, sp) = Rows(s, sp)[x.row]
  BY DEF DayOf
<1> QED
  BY <1>1, <1>2, HistoriesAgree
-----------------------------------------------------------------------------
(* Fitting. *)

\* What the run checks follows.
LEMMA TrainingFollows ==
  ASSUME FittingInv
  PROVE  TrainingInv
<1>1. SettingsInv /\ LossesInv /\ BundlesInv /\ LiveInv /\ PredictionsInv
  BY DEF FittingInv
<1>2. ASSUME NEW S, AtMostOne(S) PROVE Cardinality(S) <= 1
  <2>1. CASE S = {}
    BY <2>1, FS_EmptySet
  <2>2. CASE \E x : S = {x}
    <3>1. PICK x : S = {x}
      BY <2>2
    <3>2. Cardinality(S) = 1
      BY <3>1, FS_Singleton
    <3> QED
      BY <3>2
  <2> QED
    BY <1>2, <2>1, <2>2 DEF AtMostOne
<1>3. TrainingTypes
  <2>1. Cardinality(bundle) <= 1 /\ Cardinality(deployed) <= 1 /\ Cardinality(loaded) <= 1
    BY <1>1, <1>2 DEF BundlesInv, LiveInv
  <2>2. \A i \in DOMAIN losses : losses[i] \in Losses \cup {NaN}
    BY <1>1, LenProperties, ElementOfSeq DEF LossesInv
  <2> QED
    BY <1>1, <2>1, <2>2 DEF TrainingTypes, SettingsInv, LossesInv, LiveInv
<1>4. BestIsKept
  BY <1>1 DEF BundlesInv, Sound, BestIsKept
<1>5. StopsInTime
  BY <1>1 DEF BundlesInv, Sound, StopsInTime
<1>6. FeaturesAgree
  BY <1>1, SamplesAgree DEF SettingsInv, FeaturesAgree
<1>7. PredictionsAreOutOfSample /\ ServedAsTrained
  BY <1>1 DEF PredictionsInv, PredictionsAreOutOfSample, ServedAsTrained
<1> QED
  BY <1>3, <1>4, <1>5, <1>6, <1>7 DEF TrainingInv

LEMMA FittingStarts ==
  ASSUME TrainingInit
  PROVE  FittingInv
<1>1. LossesInv
  <2>1. losses \in Seq(Losses \cup {NaN}) /\ Len(losses) = 0
    BY DEF TrainingInit
  <2> QED
    BY <2>1, TrainingAssumption DEF TrainingInit, LossesInv
<1>2. SettingsInv /\ BundlesInv /\ LiveInv /\ PredictionsInv
  BY DEF TrainingInit, SettingsInv, BundlesInv, LiveInv, PredictionsInv, AtMostOne
<1> QED
  BY <1>1, <1>2 DEF FittingInv

\* A new run: nothing is trained yet.
LEMMA PrepareStep ==
  ASSUME FittingInv, Prepare
  PROVE  FittingInv'
<1>1. SettingsInv'
  BY DEF FittingInv, SettingsInv, Prepare
<1>2. LossesInv'
  <2>1. losses' \in Seq(Losses \cup {NaN}) /\ Len(losses') = 0 /\ best' = 0 /\ stale' = 0 /\ stage' \in {"build", "idle"}
    BY DEF Prepare
  <2> QED
    BY <2>1, TrainingAssumption DEF LossesInv
<1>3. BundlesInv'
  BY DEF FittingInv, BundlesInv, Prepare, AtMostOne, Sound
<1>4. LiveInv' /\ PredictionsInv'
  BY DEF FittingInv, LiveInv, PredictionsInv, Prepare, liveVars, AtMostOne
<1> QED
  BY <1>1, <1>2, <1>3, <1>4 DEF FittingInv

\* Each split must have a sample.
LEMMA BuildStep ==
  ASSUME FittingInv, Build
  PROVE  FittingInv'
<1>1. /\ UNCHANGED <<split, source, fitVars, results, liveVars, predictions>>
      /\ stage = "build" /\ stage' \in {"idle", "fit"}
  BY DEF Build
<1>2. SettingsInv'
  BY <1>1 DEF FittingInv, SettingsInv, fitVars
<1>3. LossesInv'
  BY <1>1 DEF FittingInv, LossesInv, fitVars
<1>4. BundlesInv' /\ LiveInv' /\ PredictionsInv'
  BY <1>1 DEF FittingInv, BundlesInv, LiveInv, PredictionsInv, fitVars, liveVars, Sound, AtMostOne
<1> QED
  BY <1>2, <1>3, <1>4 DEF FittingInv

\* Of the rest of the state, what an epoch or the end of fitting leaves alone.
LEMMA OthersStay ==
  ASSUME FittingInv, UNCHANGED <<split, source, run, results, liveVars, predictions>>,
         stage' \in {"idle", "build", "fit", "keep", "evaluate", "predict"}
  PROVE  SettingsInv' /\ LiveInv' /\ PredictionsInv' /\ (UNCHANGED bundle => BundlesInv')
  BY DEF FittingInv, SettingsInv, BundlesInv, LiveInv, PredictionsInv, liveVars, Sound, AtMostOne

\* One epoch: the best so far is no worse than any, by min_delta.
LEMMA EpochStep ==
  ASSUME FittingInv, Epoch
  PROVE  FittingInv'
<1>1. /\ stage = "fit" /\ UNCHANGED <<split, source, run, bundle, results, liveVars, predictions>>
  BY DEF Epoch
<1>2. PICK loss \in Losses \cup {NaN} :
        /\ losses' = Append(losses, loss)
        /\ \/ loss = NaN /\ stage' = "idle" /\ UNCHANGED <<best, stale>>
           \/ /\ best' = (IF Improves(loss) THEN Len(losses') ELSE best)
              /\ stale' = (IF Improves(loss) THEN 0 ELSE stale + 1)
              /\ stage' = IF Exhausted THEN "keep" ELSE "fit"
  BY DEF Epoch
<1>3. /\ losses \in Seq(Losses \cup {NaN}) /\ best \in 0 .. Len(losses) /\ stale \in 0 .. Patience
      /\ stale = Len(losses) - best /\ (best = 0 => Len(losses) = 0) /\ stale < Patience
      /\ best > 0 /\ losses[best] # NaN =>
           \A e \in 1 .. Len(losses) : losses[e] # NaN => losses[e] >= losses[best] - MinDelta
  BY <1>1 DEF FittingInv, LossesInv
<1>4. PICK n : n = Len(losses)
  OBVIOUS
<1>5. /\ n \in Nat /\ losses' \in Seq(Losses \cup {NaN}) /\ Len(losses') = n + 1
      /\ losses'[n + 1] = loss /\ \A e \in 1 .. n : losses'[e] = losses[e] /\ losses[e] \in Losses \cup {NaN}
  BY <1>2, <1>3, <1>4, AppendProperties, LenProperties, ElementOfSeq
<1>6. MinDelta \in Nat /\ Losses \subseteq Nat /\ Patience \in Nat /\ Patience >= 1
  BY LossAssumption, TrainingAssumption
<1>7. best \in Nat /\ best <= n /\ stale \in Nat /\ stale < Patience /\ stale = n - best /\ (best = 0 => n = 0)
  BY <1>3, <1>4, <1>5, <1>6
<1>8. CASE stage' = "idle" /\ UNCHANGED <<best, stale>>
  <2>1. LossesInv'
    BY <1>3, <1>5, <1>7, <1>8 DEF LossesInv
  <2> QED
    BY <1>1, <1>8, <2>1, OthersStay DEF FittingInv
<1>9. CASE /\ best' = (IF Improves(loss) THEN Len(losses') ELSE best)
           /\ stale' = (IF Improves(loss) THEN 0 ELSE stale + 1)
           /\ stage' = IF Exhausted THEN "keep" ELSE "fit"
  <2>1. CASE Improves(loss)
    <3>1. best' = n + 1 /\ stale' = 0 /\ stage' = "fit"
      BY <1>5, <1>6, <1>9, <2>1 DEF Exhausted
    <3>2. ASSUME NEW e \in 1 .. n + 1, losses'[e] # NaN, losses'[n + 1] # NaN
          PROVE  losses'[e] >= losses'[n + 1] - MinDelta
      <4>1. loss \in Nat /\ losses'[n + 1] = loss
        BY <1>2, <1>5, <1>6, <3>2
      <4>2. CASE e = n + 1
        BY <1>6, <4>1, <4>2
      <4>3. CASE e # n + 1
        <5>1. e \in 1 .. n /\ n >= 1
          BY <1>5, <4>3
        <5>2. losses'[e] = losses[e] /\ losses[e] \in Nat /\ losses[e] # NaN
          BY <1>5, <1>6, <3>2, <5>1
        <5>3. best > 0 /\ best \in 1 .. n
          BY <1>5, <1>7, <5>1
        <5>4. losses[best] # NaN /\ loss < losses[best] - MinDelta
          BY <2>1, <5>3 DEF Improves
        <5>5. losses[best] \in Nat
          BY <1>5, <1>6, <5>3, <5>4
        <5>6. losses[e] >= losses[best] - MinDelta
          BY <1>3, <1>4, <5>1, <5>2, <5>3, <5>4
        <5> QED
          BY <1>6, <4>1, <5>2, <5>4, <5>5, <5>6
      <4> QED
        BY <4>2, <4>3
    <3>3. LossesInv'
      BY <1>5, <1>6, <3>1, <3>2 DEF LossesInv
    <3> QED
      BY <1>1, <3>1, <3>3, OthersStay DEF FittingInv
  <2>2. CASE ~Improves(loss)
    <3>1. /\ best' = best /\ stale' = stale + 1 /\ best > 0 /\ best \in 1 .. n
          /\ stage' = (IF stale' >= Patience THEN "keep" ELSE "fit")
      BY <1>5, <1>7, <1>9, <2>2 DEF Improves, Exhausted
    <3>2. ASSUME losses'[best] # NaN, NEW e \in 1 .. n + 1, losses'[e] # NaN
          PROVE  losses'[e] >= losses'[best] - MinDelta
      <4>1. losses'[best] = losses[best] /\ losses[best] \in Nat /\ losses[best] # NaN
        BY <1>5, <1>6, <3>1, <3>2
      <4>2. CASE e = n + 1
        <5>1. loss \in Nat /\ loss # NaN /\ losses'[e] = loss
          BY <1>2, <1>5, <1>6, <3>2, <4>2
        <5>2. ~(loss < losses[best] - MinDelta)
          BY <2>2, <4>1, <5>1 DEF Improves
        <5> QED
          BY <1>6, <4>1, <5>1, <5>2
      <4>3. CASE e # n + 1
        <5>1. e \in 1 .. n
          BY <1>5, <4>3
        <5> QED
          BY <1>3, <1>4, <1>5, <3>1, <3>2, <4>1, <5>1
      <4> QED
        BY <4>2, <4>3
    <3>3. LossesInv'
      BY <1>5, <1>6, <1>7, <3>1, <3>2 DEF LossesInv
    <3> QED
      BY <1>1, <3>1, <3>3, OthersStay DEF FittingInv
  <2> QED
    BY <2>1, <2>2
<1> QED
  BY <1>2, <1>8, <1>9

\* The end of fitting: the state of the best epoch is kept.
LEMMA KeepStep ==
  ASSUME FittingInv, Keep
  PROVE  FittingInv'
<1>1. /\ UNCHANGED <<split, source, run, losses, best, stale, results, liveVars, predictions>>
      /\ stage \in {"fit", "keep"} /\ stage' \in {"idle", "evaluate"}
  BY DEF Keep
<1>2. LossesInv'
  BY <1>1 DEF FittingInv, LossesInv
<1>3. BundlesInv'
  <2>1. CASE UNCHANGED bundle
    BY <1>1, <2>1, OthersStay
  <2>2. CASE losses[best] # NaN /\ ~UNCHANGED bundle
    <3>1. PICK new : /\ bundle' = {new} /\ new.weights = best /\ new.epochs = Len(losses)
                     /\ new.losses = losses /\ new.source = run.source
      <4> DEFINE fresh == [id |-> runs, weights |-> Kept, epochs |-> Len(losses),
                          losses |-> losses, split |-> run.split, source |-> run.source,
                          backend |-> run.backend,
                          trained |-> TrainedUntil(run.split, run.source)]
      <4>1. bundle' = {fresh}
        BY <2>2 DEF Keep
      <4>2. /\ fresh.weights = best /\ fresh.epochs = Len(losses)
            /\ fresh.losses = losses /\ fresh.source = run.source
        BY DEF Kept
      <4> HIDE DEF fresh
      <4> QED
        BY <4>1, <4>2
    <3>2. /\ losses \in Seq(Losses \cup {NaN}) /\ best \in 0 .. Len(losses) /\ stale \in 0 .. Patience
          /\ stale = Len(losses) - best /\ (best = 0 => Len(losses) = 0)
          /\ best > 0 /\ losses[best] # NaN =>
               \A e \in 1 .. Len(losses) : losses[e] # NaN => losses[e] >= losses[best] - MinDelta
      BY <1>1 DEF FittingInv, LossesInv
    <3>3. stale = Patience \/ Len(losses) = MaxEpochs
      BY DEF Keep, FittingInv, LossesInv
    <3>4. Len(losses) \in Nat /\ Patience \in Nat /\ Patience >= 1 /\ MaxEpochs \in Nat /\ MaxEpochs >= 1
      BY <3>2, LenProperties, TrainingAssumption
    <3>5. best > 0
      BY <3>2, <3>3, <3>4
    <3>6. Sound(new)
      BY <2>2, <3>1, <3>2, <3>3, <3>4, <3>5 DEF Sound
    <3>7. \A b \in results : Sound(b)
      BY DEF FittingInv, BundlesInv
    <3> QED
      BY <1>1, <3>1, <3>6, <3>7 DEF BundlesInv, AtMostOne, Sound
  <2> QED
    BY <2>1, <2>2 DEF Keep
<1> QED
  BY <1>1, <1>2, <1>3, OthersStay DEF FittingInv

\* Scores of the validation and test samples.
LEMMA EvaluateStep ==
  ASSUME FittingInv, Evaluate
  PROVE  FittingInv'
<1>1. /\ UNCHANGED <<split, source, fitVars, results, liveVars, predictions>>
      /\ stage' \in {"predict", "idle"}
  BY DEF Evaluate
<1>2. LossesInv'
  BY <1>1 DEF FittingInv, LossesInv, fitVars
<1> QED
  BY <1>1, <1>2, OthersStay DEF FittingInv, fitVars

\* A prediction carries the features and the history it was made of.
LEMMA PredictedAs ==
  ASSUME NEW b, NEW d, NEW sp, NEW src, NEW p \in Predicted(b, d, sp, src)
  PROVE  /\ p.bundle = b /\ p.day = d /\ p.features = src.features
         /\ Cardinality(p.history) = src.history
<1>1. PICK s \in Symbols : /\ Enough(Shown(s, sp, src, d), src)
                           /\ p = [bundle |-> b, day |-> d, symbol |-> s, features |-> src.features,
                                   history |-> Shown(s, sp, src, d)]
  BY DEF Predicted
<1> QED
  BY <1>1 DEF Enough

\* A day of the backtest.
LEMMA BacktestStep ==
  ASSUME FittingInv, Backtest
  PROVE  FittingInv'
<1>1. /\ UNCHANGED <<split, source, fitVars, results, liveVars>> /\ stage = "predict" /\ stage' \in {"predict", "idle"}
  BY DEF Backtest
<1>2. PICK b \in bundle :
        \/ UNCHANGED predictions
        \/ /\ OutOfSample(b, testDay)
           /\ predictions' = predictions \cup Predicted(b, testDay, run.split, run.source)
  BY DEF Backtest
<1>3. b.source = run.source /\ PredictionsInv
  BY DEF FittingInv, BundlesInv
<1>4. PredictionsInv'
  BY <1>2, <1>3, PredictedAs DEF PredictionsInv, OutOfSample
<1>5. LossesInv'
  BY <1>1 DEF FittingInv, LossesInv, fitVars
<1>6. SettingsInv' /\ LiveInv' /\ BundlesInv'
  BY <1>1 DEF FittingInv, SettingsInv, BundlesInv, LiveInv, fitVars, liveVars, Sound, AtMostOne
<1> QED
  BY <1>4, <1>5, <1>6 DEF FittingInv

\* The results, with the bundle.
LEMMA PublishStep ==
  ASSUME FittingInv, Publish
  PROVE  FittingInv'
<1>1. /\ UNCHANGED <<split, source, fitVars, liveVars, predictions>> /\ stage' = "idle"
      /\ results' = results \cup bundle
  BY DEF Publish
<1>2. LossesInv'
  BY <1>1 DEF FittingInv, LossesInv, fitVars
<1>3. SettingsInv' /\ LiveInv' /\ BundlesInv' /\ PredictionsInv'
  BY <1>1 DEF FittingInv, SettingsInv, BundlesInv, LiveInv, PredictionsInv, fitVars, liveVars, Sound, AtMostOne
<1> QED
  BY <1>2, <1>3 DEF FittingInv
-----------------------------------------------------------------------------
(* The live service. *)

\* model.py and experiment.yaml are edited.
LEMMA EditSourceStep ==
  ASSUME FittingInv, EditSource
  PROVE  FittingInv'
<1>1. /\ UNCHANGED <<stage, fitVars, results, liveVars, predictions>>
      /\ split' \in Splits /\ source' \in ModelSources
  BY DEF EditSource
<1>2. LossesInv'
  BY <1>1 DEF FittingInv, LossesInv, fitVars
<1>3. SettingsInv' /\ LiveInv' /\ BundlesInv' /\ PredictionsInv'
  BY <1>1 DEF FittingInv, SettingsInv, BundlesInv, LiveInv, PredictionsInv, fitVars, liveVars, Sound, AtMostOne
<1> QED
  BY <1>2, <1>3 DEF FittingInv

\* Of the state of the backtest, what the live service leaves alone.
LEMMA TrainingStays ==
  ASSUME FittingInv, UNCHANGED <<split, source, stage, fitVars, results>>
  PROVE  SettingsInv' /\ LossesInv' /\ BundlesInv'
<1>1. LossesInv'
  BY DEF FittingInv, LossesInv, fitVars
<1>2. SettingsInv' /\ BundlesInv'
  BY DEF FittingInv, SettingsInv, BundlesInv, fitVars, Sound, AtMostOne
<1> QED
  BY <1>1, <1>2

\* A published bundle is put where the service loads it.
LEMMA DeployStep ==
  ASSUME FittingInv, Deploy
  PROVE  FittingInv'
<1>1. /\ UNCHANGED <<split, source, stage, fitVars, results, loaded, served, predictions>>
      /\ \E b \in results : deployed' = {b}
  BY DEF Deploy
<1>2. LiveInv' /\ PredictionsInv'
  BY <1>1 DEF FittingInv, LiveInv, PredictionsInv, AtMostOne
<1> QED
  BY <1>1, <1>2, TrainingStays DEF FittingInv

\* The service starts with the bundle that agrees with model.py.
LEMMA StartLiveStep ==
  ASSUME FittingInv, StartLive
  PROVE  FittingInv'
<1>1. /\ UNCHANGED <<split, source, stage, fitVars, results, deployed, predictions>>
      /\ loaded' = {[bundle |-> b, source |-> source] : b \in {x \in deployed : Compatible(x)}}
      /\ served' = served \cup {x.bundle : x \in loaded'}
  BY DEF StartLive
<1>2. AtMostOne(deployed) /\ deployed \subseteq results /\ served \subseteq results
  BY DEF FittingInv, LiveInv
<1>3. AtMostOne(loaded')
  BY <1>1, <1>2 DEF AtMostOne
<1>4. \A x \in loaded' : x.bundle.source = x.source /\ x.bundle \in deployed
  BY <1>1 DEF Compatible
<1>5. served' \subseteq results
  BY <1>1, <1>2, <1>4
<1>6. LiveInv' /\ PredictionsInv'
  BY <1>1, <1>2, <1>3, <1>4, <1>5 DEF FittingInv, LiveInv, PredictionsInv, AtMostOne
<1> QED
  BY <1>1, <1>6, TrainingStays DEF FittingInv

\* The service predicts a day.
LEMMA SignalStep ==
  ASSUME FittingInv, Signal
  PROVE  FittingInv'
<1>1. /\ UNCHANGED <<split, source, stage, fitVars, results, deployed, served>> /\ loaded' = {}
  BY DEF Signal
<1>2. PICK x \in loaded, d \in Dates :
        /\ OutOfSample(x.bundle, d)
        /\ \E full : predictions' = predictions \cup Predicted(x.bundle, d, full, x.source)
  BY DEF Signal
<1>3. x.bundle.source = x.source /\ PredictionsInv
  BY DEF FittingInv, LiveInv
<1>4. PredictionsInv'
  BY <1>2, <1>3, PredictedAs DEF PredictionsInv, OutOfSample
<1>5. LiveInv'
  BY <1>1 DEF FittingInv, LiveInv, AtMostOne
<1> QED
  BY <1>1, <1>4, <1>5, TrainingStays DEF FittingInv
-----------------------------------------------------------------------------
\* Whatever the losses are and whatever is edited, deployed and started in between:
\* the epoch that is kept is beaten by none by more than min_delta, training stops
\* after patience epochs without improvement and not before, the features of a
\* sample are those a strategy is shown, and every prediction is of a day after the
\* training, from features as trained (model_training.py:391-469, model_data.py:72-94,
\* model_contracts.py:606-680, model_runtime.py:98-120).
THEOREM TrainingSafe == TrainingSpec => []TrainingInv
<1>1. TrainingInit => FittingInv
  BY FittingStarts
<1>2. FittingInv /\ [TrainingNext]_trainingVars => FittingInv'
  <2> SUFFICES ASSUME FittingInv, [TrainingNext]_trainingVars PROVE FittingInv'
    OBVIOUS
  <2>1. ASSUME UNCHANGED trainingVars PROVE FittingInv'
    <3>1. LossesInv' /\ SettingsInv' /\ BundlesInv'
      BY <2>1, TrainingStays DEF trainingVars
    <3>2. LiveInv' /\ PredictionsInv'
      BY <2>1 DEF FittingInv, trainingVars, liveVars, LiveInv, PredictionsInv, AtMostOne
    <3> QED
      BY <3>1, <3>2 DEF FittingInv
  <2> QED
    BY <2>1, PrepareStep, BuildStep, EpochStep, KeepStep, EvaluateStep, BacktestStep, PublishStep,
       EditSourceStep, DeployStep, StartLiveStep, SignalStep DEF TrainingNext
<1>3. FittingInv => TrainingInv
  BY TrainingFollows
<1> QED
  BY <1>1, <1>2, <1>3, PTL DEF TrainingSpec
-------------------------------------------------------------------------------
(***************************************************************************)
(* The day loop.  A day is approved before it is filled, and filled in     *)
(* another order.  The invariant says what ties the two: an order fits the *)
(* gap to its target to less than a lot, the verdicts are those of the     *)
(* first orders by approval, and what is projected is the cash after the   *)
(* fills to come, which on the way there stays above zero.                 *)
(***************************************************************************)
-------------------------------------------------------------------------------
(* The bisection, between any bounds. *)

\* One step of the search: g is what it answers for the narrower intervals.
Step(g, good, r) ==
  LET middle == (r[1] + r[2] + 1) \div 2
  IN  IF r[1] >= r[2] THEN r[1]
      ELSE IF middle \in good THEN g[<<middle, r[2]>>]
      ELSE g[<<r[1], middle - 1>>]

Intervals(top) == (0 .. top) \X (0 .. top)

\* The intervals of at most n steps of one.
Narrow(n, top) == {r \in Intervals(top) : r[2] - r[1] <= n}

IsSearch(g, good, D) == g = [r \in D |-> Step(g, good, r)]

\* Halving an interval leaves a proper part on either side.
LEMMA Halves ==
  ASSUME NEW top \in Nat, NEW r \in Intervals(top), r[1] < r[2], NEW n \in Nat, r[2] - r[1] <= n + 1,
         NEW m, m = (r[1] + r[2] + 1) \div 2
  PROVE  /\ m \in 0 .. top /\ r[1] < m /\ m <= r[2]
         /\ <<m, r[2]>> \in Narrow(n, top) /\ <<r[1], m - 1>> \in Narrow(n, top)
<1>1. r[1] \in 0 .. top /\ r[2] \in 0 .. top
  BY DEF Intervals
<1>2. m \in Int /\ r[1] < m /\ m <= r[2]
  <2>1. PICK x, y : x = r[1] /\ y = r[2]
    OBVIOUS
  <2>2. x \in Nat /\ y \in Nat /\ x < y /\ m = (x + y + 1) \div 2
    BY <1>1, <2>1
  <2>3. m \in Int /\ x < m /\ m <= y
    BY <2>2
  <2> QED
    BY <2>1, <2>3
<1>3. m - 1 \in 0 .. top /\ m \in 0 .. top
  BY <1>1, <1>2
<1>4. <<m, r[2]>> \in Intervals(top) /\ <<r[1], m - 1>> \in Intervals(top)
  BY <1>1, <1>3 DEF Intervals
<1>5. r[2] - m <= n /\ (m - 1) - r[1] <= n
  BY <1>1, <1>2
<1> QED
  BY <1>2, <1>3, <1>4, <1>5 DEF Narrow

\* So the search has an answer for every interval.
LEMMA SearchExists ==
  ASSUME NEW top \in Nat, NEW good
  PROVE  \E g : IsSearch(g, good, Intervals(top))
<1> DEFINE Without == {n \in Nat : ~ \E g : IsSearch(g, good, Narrow(n, top))}
<1>1. 0 \notin Without
  <2> DEFINE g == [r \in Narrow(0, top) |-> r[1]]
  <2>1. ASSUME NEW r \in Narrow(0, top) PROVE g[r] = Step(g, good, r)
    <3>1. r[1] >= r[2]
      BY DEF Narrow, Intervals
    <3> QED
      BY <3>1 DEF Step
  <2>2. g = [r \in Narrow(0, top) |-> g[r]]
    OBVIOUS
  <2> HIDE DEF g
  <2>3. IsSearch(g, good, Narrow(0, top))
    BY <2>1, <2>2 DEF IsSearch
  <2> QED
    BY <2>3
<1>2. ASSUME NEW n \in Nat, NEW g, IsSearch(g, good, Narrow(n, top))
      PROVE  \E h : IsSearch(h, good, Narrow(n + 1, top))
  <2> DEFINE h == [r \in Narrow(n + 1, top) |-> Step(g, good, r)]
  <2>1. ASSUME NEW r \in Narrow(n, top) PROVE r \in Narrow(n + 1, top) /\ h[r] = g[r]
    <3>1. r \in Narrow(n + 1, top)
      BY DEF Narrow, Intervals
    <3>2. g[r] = Step(g, good, r)
      BY <1>2 DEF IsSearch
    <3> QED
      BY <3>1, <3>2
  <2>2. ASSUME NEW r \in Narrow(n + 1, top) PROVE h[r] = Step(h, good, r)
    <3>1. r \in Intervals(top) /\ r[2] - r[1] <= n + 1
      BY DEF Narrow
    <3>2. CASE r[1] >= r[2]
      BY <3>2 DEF Step
    <3>3. CASE ~(r[1] >= r[2])
      <4>1. PICK m : m = (r[1] + r[2] + 1) \div 2
        OBVIOUS
      <4>2. r[1] < r[2]
        BY <3>1, <3>3 DEF Intervals
      <4>3. <<m, r[2]>> \in Narrow(n, top) /\ <<r[1], m - 1>> \in Narrow(n, top)
        BY <3>1, <4>1, <4>2, Halves
      <4>4. h[<<m, r[2]>>] = g[<<m, r[2]>>] /\ h[<<r[1], m - 1>>] = g[<<r[1], m - 1>>]
        BY <2>1, <4>3
      <4>5. h[r] = Step(g, good, r)
        OBVIOUS
      <4> HIDE DEF h
      <4> QED
        BY <4>1, <4>4, <4>5 DEF Step
    <3> QED
      BY <3>2, <3>3
  <2>3. h = [r \in Narrow(n + 1, top) |-> h[r]]
    OBVIOUS
  <2> HIDE DEF h
  <2> QED
    BY <2>2, <2>3 DEF IsSearch
<1>3. Without = {}
  <2>1. SUFFICES ASSUME Without # {} PROVE FALSE
    OBVIOUS
  <2>2. PICK n \in Without : \A m \in Without : n <= m
    <3>1. Without \subseteq Nat
      OBVIOUS
    <3> HIDE DEF Without
    <3> QED
      BY <2>1, <3>1, LeastNumber
  <2>3. n - 1 \in Nat /\ n - 1 \notin Without /\ (n - 1) + 1 = n
    BY <1>1, <2>2
  <2>4. PICK g : IsSearch(g, good, Narrow(n - 1, top))
    BY <2>3
  <2> QED
    BY <1>2, <2>2, <2>3, <2>4
<1>4. Narrow(top, top) = Intervals(top)
  BY DEF Narrow, Intervals
<1> QED
  BY <1>3, <1>4

\* The bisection ends at a good number whose successor is not good, or at the top,
\* whatever set of numbers is good, as long as zero is.
LEMMA BisectEnds ==
  ASSUME NEW top \in Nat, NEW good, 0 \in good
  PROVE  /\ Bisect(good, top) \in 0 .. top /\ Bisect(good, top) \in good
         /\ Bisect(good, top) = top \/ Bisect(good, top) + 1 \notin good
<1> DEFINE g == CHOOSE f : f = [r \in (0 .. top) \X (0 .. top) |->
                  LET middle == (r[1] + r[2] + 1) \div 2
                  IN  IF r[1] >= r[2] THEN r[1]
                      ELSE IF middle \in good THEN f[<<middle, r[2]>>]
                      ELSE f[<<r[1], middle - 1>>]]
<1>1. Bisect(good, top) = g[<<0, top>>]
  BY DEF Bisect
<1>2. IsSearch(g, good, Intervals(top))
  <2>1. \E f : f = [r \in Intervals(top) |-> Step(f, good, r)]
    BY SearchExists DEF IsSearch
  <2>2. g = CHOOSE f : f = [r \in Intervals(top) |-> Step(f, good, r)]
    BY DEF Intervals, Step
  <2> HIDE DEF g
  <2> QED
    BY <2>1, <2>2 DEF IsSearch
<1> HIDE DEF g
<1> DEFINE Between(r) == r[1] <= r[2] /\ r[1] \in good /\ (r[2] = top \/ r[2] + 1 \notin good)
           Ends(n) == n \in 0 .. top /\ n \in good /\ (n = top \/ n + 1 \notin good)
           Wrong == {n \in Nat : \E r \in Intervals(top) : r[2] - r[1] = n /\ Between(r) /\ ~Ends(g[r])}
<1>3. Wrong = {}
  <2>1. SUFFICES ASSUME Wrong # {} PROVE FALSE
    OBVIOUS
  <2>2. PICK n \in Wrong : \A m \in Wrong : n <= m
    <3>1. Wrong \subseteq Nat
      OBVIOUS
    <3> HIDE DEF Wrong
    <3> QED
      BY <2>1, <3>1, LeastNumber
  <2>3. PICK r \in Intervals(top) : r[2] - r[1] = n /\ Between(r) /\ ~Ends(g[r])
    BY <2>2
  <2>4. \A q \in Intervals(top) : Between(q) /\ q[2] - q[1] < n => Ends(g[q])
    <3> SUFFICES ASSUME NEW q \in Intervals(top), Between(q), q[2] - q[1] < n, ~Ends(g[q]) PROVE FALSE
      OBVIOUS
    <3>1. q[2] - q[1] \in Nat
      BY DEF Intervals
    <3>2. q[2] - q[1] \in Wrong
      BY <3>1
    <3>3. n <= q[2] - q[1]
      BY <2>2, <3>2
    <3> QED
      BY <2>2, <3>1, <3>3
  <2>5. g[r] = Step(g, good, r) /\ r[1] \in 0 .. top /\ r[2] \in 0 .. top
    BY <1>2 DEF IsSearch, Intervals
  <2>6. CASE r[1] >= r[2]
    <3>1. r[1] = r[2] /\ g[r] = r[1]
      BY <2>3, <2>5, <2>6 DEF Step
    <3> QED
      BY <2>3, <2>5, <3>1
  <2>7. CASE ~(r[1] >= r[2])
    <3>1. PICK m : m = (r[1] + r[2] + 1) \div 2
      OBVIOUS
    <3>2. n \in Nat /\ n # 0 /\ r[1] < r[2] /\ r[2] - r[1] <= (n - 1) + 1
      BY <2>3, <2>5, <2>7
    <3>3. /\ m \in 0 .. top /\ r[1] < m /\ m <= r[2]
          /\ <<m, r[2]>> \in Narrow(n - 1, top) /\ <<r[1], m - 1>> \in Narrow(n - 1, top)
      <4>1. n - 1 \in Nat
        BY <3>2
      <4> QED
        BY <3>1, <3>2, <4>1, Halves
    <3>4. <<m, r[2]>> \in Intervals(top) /\ <<r[1], m - 1>> \in Intervals(top)
          /\ r[2] - m < n /\ (m - 1) - r[1] < n
      BY <2>2, <2>5, <3>3 DEF Narrow
    <3>5. CASE m \in good
      <4>1. Between(<<m, r[2]>>)
        BY <2>3, <3>3, <3>5
      <4>2. Ends(g[<<m, r[2]>>])
        BY <2>4, <3>4, <4>1
      <4>3. g[r] = g[<<m, r[2]>>]
        BY <2>5, <2>7, <3>1, <3>5 DEF Step
      <4> QED
        BY <2>3, <4>2, <4>3
    <3>6. CASE m \notin good
      <4>0. (m - 1) + 1 = m /\ r[1] <= m - 1
        BY <2>5, <3>3
      <4>1. Between(<<r[1], m - 1>>)
        BY <2>3, <3>6, <4>0
      <4>2. Ends(g[<<r[1], m - 1>>])
        BY <2>4, <3>4, <4>1
      <4>3. g[r] = g[<<r[1], m - 1>>]
        BY <2>5, <2>7, <3>1, <3>6 DEF Step
      <4> QED
        BY <2>3, <4>2, <4>3
    <3> QED
      BY <3>5, <3>6
  <2> QED
    BY <2>6, <2>7
<1>4. <<0, top>> \in Intervals(top) /\ Between(<<0, top>>)
  BY DEF Intervals
<1>5. Ends(g[<<0, top>>])
  <2>1. top - 0 \in Nat /\ top - 0 \notin Wrong
    BY <1>3
  <2> QED
    BY <1>4, <2>1
<1> QED
  BY <1>1, <1>5
-------------------------------------------------------------------------------
(* Prices, costs and whole lots. *)

LEMMA Units ==
  /\ Lot \in Nat \ {0} /\ WeightUnit \in Nat \ {0} /\ RateUnit \in Nat \ {0} /\ Every \in Nat \ {0}
  /\ Cash0 \in Nat /\ MinimumCommission \in Nat /\ LastFrame \in Nat
  /\ CommissionRate \in Nat /\ SlippageRate \in Nat /\ SlippageRate < RateUnit
  /\ LimitRatio \in Nat /\ LimitRatio < RateUnit
  /\ ParticipationRate \in Nat
  BY UnitAssumption

\* A number of whole lots.
InLots(q) == \E k \in Nat : q = k * Lot

LEMMA WholeIsNat == \A q : InLots(q) => q \in Nat
  BY Units DEF InLots

LEMMA WholeLotsType ==
  ASSUME NEW q \in Nat
  PROVE  WholeLots(q) \in Nat /\ InLots(WholeLots(q)) /\ WholeLots(q) <= q
<1>1. PICK k : k = q \div Lot
  OBVIOUS
<1>2. k \in Nat /\ Lot * k <= q
  BY <1>1, DivBounds, DivNat, Units
<1>3. k * Lot = Lot * k /\ k * Lot \in Nat
  BY <1>2, Units
<1>4. WholeLots(q) = k * Lot
  BY <1>1 DEF WholeLots
<1> QED
  BY <1>2, <1>3, <1>4 DEF InLots

\* InLots lots of whole lots are all of them.
LEMMA WholeLotsOfWhole ==
  ASSUME NEW q, InLots(q)
  PROVE  WholeLots(q) = q
<1>1. PICK n \in Nat : q = n * Lot
  BY DEF InLots
<1>2. PICK k : k = q \div Lot
  OBVIOUS
<1>3. q \in Nat
  BY WholeIsNat
<1>4. k \in Int /\ Lot * k <= q /\ q < Lot * k + Lot
  BY <1>2, <1>3, DivBounds, Units
<1>5. Lot * k <= Lot * n /\ Lot * n < Lot * (k + 1)
  BY <1>1, <1>4, Units
<1>6. k <= n /\ n < k + 1
  BY <1>4, <1>5, Units
<1>7. k = n
  BY <1>4, <1>6
<1> QED
  BY <1>1, <1>2, <1>7 DEF WholeLots

LEMMA WholeSum ==
  ASSUME NEW p, NEW q, InLots(p), InLots(q)
  PROVE  InLots(p + q) /\ (q <= p => InLots(p - q))
<1>1. PICK m \in Nat : p = m * Lot
  BY DEF InLots
<1>2. PICK n \in Nat : q = n * Lot
  BY DEF InLots
<1>3. p + q = (m + n) * Lot /\ m + n \in Nat
  BY <1>1, <1>2, Units
<1>4. p - q = (m - n) * Lot
  BY <1>1, <1>2, Units
<1>5. q <= p => n <= m
  <2>1. SUFFICES ASSUME n > m PROVE ~(q <= p)
    OBVIOUS
  <2>2. n * Lot >= (m + 1) * Lot /\ (m + 1) * Lot = m * Lot + Lot
    BY <2>1, Units
  <2> QED
    BY <1>1, <1>2, <2>2, Units
<1>6. q <= p => m - n \in Nat
  BY <1>5
<1> QED
  BY <1>3, <1>4, <1>6 DEF InLots

\* Any whole lots but none are at least one.
LEMMA WholeAtLeast ==
  ASSUME NEW q, InLots(q), q # 0
  PROVE  q >= Lot
<1>1. PICK k \in Nat : q = k * Lot
  BY DEF InLots
<1>2. k >= 1
  BY <1>1, Units
<1> QED
  BY <1>1, <1>2, Units

LEMMA WholeLeast ==
  ASSUME NEW p, NEW q, InLots(p), InLots(q)
  PROVE  InLots(Least(p, q)) /\ Least(p, q) <= p /\ Least(p, q) <= q
  BY WholeIsNat DEF Least

\* A finite set of numbers has a greatest one.
LEMMA FiniteMax ==
  ASSUME NEW S, IsFiniteSet(S)
  PROVE  S \subseteq Nat /\ S # {} => \E x \in S : \A y \in S : x >= y
<1> DEFINE Wrong == {B \in SUBSET S : B \subseteq Nat /\ B # {} /\ ~ \E x \in B : \A y \in B : x >= y}
<1>1. ASSUME Wrong # {} PROVE FALSE
  <2>1. PICK A \in Wrong : IsFiniteSet(A) /\ \A B \in Wrong : B \subseteq A => B = A
    <3>1. Wrong \subseteq SUBSET S
      OBVIOUS
    <3> HIDE DEF Wrong
    <3> QED
      BY <1>1, <3>1, SmallestSet
  <2>2. PICK a : a \in A
    BY <2>1
  <2>3. CASE A \ {a} = {}
    <3>1. A = {a} /\ a \in Nat
      BY <2>2, <2>3
    <3> QED
      BY <2>1, <3>1
  <2>4. CASE A \ {a} # {}
    <3>1. A \ {a} \notin Wrong
      BY <2>1, <2>2
    <3>2. PICK b \in A \ {a} : \A y \in A \ {a} : b >= y
      BY <2>4, <3>1
    <3>3. a \in Nat /\ b \in Nat /\ A \subseteq Nat
      BY <2>2, <3>2
    <3>4. CASE a >= b
      <4>1. \A y \in A : a >= y
        BY <3>2, <3>3, <3>4
      <4> QED
        BY <2>1, <2>2, <4>1
    <3>5. CASE b >= a
      BY <2>1, <3>2, <3>5
    <3> QED
      BY <3>3, <3>4, <3>5
  <2> QED
    BY <2>3, <2>4
<1> QED
  BY <1>1

\* The least and the greatest of a finite set of numbers.
LEMMA Extremes ==
  ASSUME NEW S, IsFiniteSet(S), S \subseteq Nat, S # {}
  PROVE  /\ Min(S) \in S /\ Max(S) \in S
         /\ \A y \in S : Min(S) <= y /\ y <= Max(S)
<1>1. \E x \in S : \A y \in S : x <= y
  BY LeastNumber
<1>2. \E x \in S : \A y \in S : x >= y
  BY FiniteMax
<1>3. Min(S) = (CHOOSE x \in S : \A y \in S : x <= y) /\ Max(S) = (CHOOSE x \in S : \A y \in S : x >= y)
  BY DEF Min, Max
<1>4. Min(S) \in S /\ \A y \in S : Min(S) <= y
  BY <1>1, <1>3
<1>5. Max(S) \in S /\ \A y \in S : Max(S) >= y
  BY <1>2, <1>3
<1> QED
  BY <1>4, <1>5

\* The bars of a day are those of the ETFs that live on it.
LEMMA FrameType ==
  ASSUME NEW d, NEW f \in FramesOn(d)
  PROVE  /\ DOMAIN f = ActiveOn(d) /\ ActiveOn(d) \subseteq Securities /\ IsFiniteSet(DOMAIN f)
         /\ \A s \in DOMAIN f : f[s] \in Bar /\ IsFiniteSet(f[s].limits)
<1>1. PICK m \in Frames : f = Restrict(m, ActiveOn(d))
  BY DEF FramesOn
<1>2. ActiveOn(d) \subseteq Securities
  BY DEF ActiveOn
<1>3. f = [s \in ActiveOn(d) |-> m[s]]
  BY <1>1 DEF Restrict
<1>4. IsFiniteSet(ActiveOn(d))
  BY <1>2, SecuritiesAssumption, FS_Subset
<1>5. \A s \in Securities : m[s] \in Bar /\ IsFiniteSet(m[s].limits)
  BY FrameAssumption
<1> QED
  BY <1>2, <1>3, <1>4, <1>5

\* Of a bar of the day.
LEMMA BarType ==
  ASSUME frame \in FramesOn(day), NEW s \in DOMAIN frame
  PROVE  /\ s \in Securities
         /\ frame[s].close \in Nat \ {0} /\ frame[s].volume \in Nat
         /\ Lower(frame[s]) \in Nat /\ Upper(frame[s]) \in Nat
<1>1. s \in Securities /\ frame[s] \in Bar /\ IsFiniteSet(frame[s].limits)
  BY FrameType
<1>2. /\ frame[s].close \in Nat \ {0} /\ frame[s].volume \in Nat /\ frame[s].preClose \in Nat
      /\ frame[s].limits \subseteq Nat
  BY <1>1 DEF Bar
<1>3. ASSUME NEW x \in Nat PROVE HalfUp(x, RateUnit) \in Nat
  <2>1. 2 * x + RateUnit \in Nat /\ 2 * RateUnit \in Nat \ {0}
    BY Units
  <2> QED
    BY <2>1, DivNat DEF HalfUp
<1>4. Lower(frame[s]) \in Nat /\ Upper(frame[s]) \in Nat
  <2>1. CASE frame[s].limits # {}
    BY <1>1, <1>2, <2>1, Extremes DEF Lower, Upper
  <2>2. CASE frame[s].limits = {}
    <3>1. RateUnit - LimitRatio \in Nat /\ RateUnit + LimitRatio \in Nat
      BY Units
    <3>2. /\ frame[s].preClose * (RateUnit - LimitRatio) \in Nat
          /\ frame[s].preClose * (RateUnit + LimitRatio) \in Nat
      BY <1>2, <3>1
    <3> QED
      BY <1>3, <2>2, <3>2 DEF Lower, Upper
  <2> QED
    BY <2>1, <2>2
<1> QED
  BY <1>1, <1>2, <1>4

LEMMA PriceType ==
  ASSUME frame \in FramesOn(day), NEW s \in DOMAIN frame, NEW side
  PROVE  FillPrice(side, frame[s]) \in Nat
<1>1. PICK c, u, l : c = frame[s].close /\ u = Upper(frame[s]) /\ l = Lower(frame[s])
  OBVIOUS
<1>2. c \in Nat /\ u \in Nat /\ l \in Nat
  BY <1>1, BarType
<1>3. Ceil(c * (RateUnit + SlippageRate), RateUnit) \in Nat
  <2>1. RateUnit + SlippageRate \in Nat
    BY Units
  <2>2. c * (RateUnit + SlippageRate) \in Nat
    BY <1>2, <2>1
  <2>3. c * (RateUnit + SlippageRate) + RateUnit - 1 \in Nat
    BY <2>2, Units
  <2> QED
    BY <2>3, DivNat, Units DEF Ceil
<1>4. Slipped(frame[s]) \in Nat
  <2>1. RateUnit - SlippageRate \in Nat
    BY Units
  <2>2. c * (RateUnit - SlippageRate) \in Nat
    BY <1>2, <2>1
  <2> QED
    BY <1>1, <2>2, DivNat, Units DEF Slipped
<1> QED
  BY <1>1, <1>2, <1>3, <1>4 DEF FillPrice, Least, Greatest

LEMMA FeeType ==
  ASSUME NEW amount \in Nat
  PROVE  Fee(amount) \in Nat
<1>1. 2 * (amount * CommissionRate) + RateUnit \in Nat /\ 2 * RateUnit \in Nat \ {0}
  <2>1. amount * CommissionRate \in Nat
    BY Units
  <2> QED
    BY <2>1, Units
<1>2. HalfUp(amount * CommissionRate, RateUnit) \in Nat
  BY <1>1, DivNat DEF HalfUp
<1> QED
  BY <1>2, Units DEF Fee, Greatest

\* What a fill costs or brings; nothing costs nothing.
LEMMA CostType ==
  ASSUME frame \in FramesOn(day), NEW s \in DOMAIN frame, NEW q \in Nat
  PROVE  /\ Cost(s, q) \in Nat /\ Proceeds(s, q) \in Int /\ Cost(s, 0) = 0
         /\ Cost(s, q) >= Amount("BUY", s, q) /\ Proceeds(s, q) <= Amount("SELL", s, q)
         /\ Amount("BUY", s, q) \in Nat /\ Amount("SELL", s, q) \in Nat
<1>1. PICK b, c : b = FillPrice("BUY", frame[s]) /\ c = FillPrice("SELL", frame[s])
  OBVIOUS
<1>2. b \in Nat /\ c \in Nat
  BY <1>1, PriceType
<1>3. b * q \in Nat /\ c * q \in Nat /\ b * 0 = 0
  BY <1>2
<1>4. Amount("BUY", s, q) = b * q /\ Amount("SELL", s, q) = c * q /\ Amount("BUY", s, 0) = b * 0
  BY <1>1 DEF Amount
<1>5. Fee(b * q) \in Nat /\ Fee(c * q) \in Nat /\ Fee(0) = 0
  BY <1>3, FeeType DEF Fee
<1> QED
  BY <1>3, <1>4, <1>5 DEF Cost, Proceeds

\* The money pays for the quantity affordable, and not for a lot more unless that
\* is all that was asked.
LEMMA AffordableType ==
  ASSUME frame \in FramesOn(day), NEW s \in DOMAIN frame, NEW money \in Nat, NEW upper, InLots(upper)
  PROVE  LET q == Affordable(s, money, upper)
         IN  /\ InLots(q) /\ q <= upper /\ Cost(s, q) <= money
             /\ q < upper => Cost(s, q + Lot) > money
<1>1. PICK n \in Nat : upper = n * Lot
  BY DEF InLots
<1>2. upper \div Lot = n
  <2>1. PICK m : m = upper \div Lot
    OBVIOUS
  <2>2. upper \in Nat
    BY WholeIsNat
  <2>3. m \in Int /\ Lot * m <= upper /\ upper < Lot * m + Lot
    BY <2>1, <2>2, DivBounds, Units
  <2>4. Lot * m <= Lot * n /\ Lot * n < Lot * (m + 1)
    BY <1>1, <2>3, Units
  <2>5. m <= n /\ n < m + 1
    BY <2>3, <2>4, Units
  <2> QED
    BY <2>1, <2>3, <2>5
<1>3. PICK good : good = {k \in 0 .. n : Payable(s, k * Lot, money)}
  OBVIOUS
<1>4. 0 \in good
  <2>1. 0 * Lot = 0
    BY Units
  <2>2. Payable(s, 0, money)
    BY CostType DEF Payable
  <2> QED
    BY <1>3, <2>1, <2>2
<1>5. PICK k : k = Bisect(good, n)
  OBVIOUS
<1>6. k \in 0 .. n /\ k \in good /\ (k = n \/ k + 1 \notin good)
  BY <1>4, <1>5, BisectEnds
<1>7. Affordable(s, money, upper) = k * Lot
  BY <1>2, <1>3, <1>5 DEF Affordable, Lots
<1>8. InLots(k * Lot) /\ k * Lot <= n * Lot /\ Cost(s, k * Lot) <= money
  BY <1>3, <1>6, Units DEF InLots, Payable
<1>9. ASSUME k * Lot < n * Lot PROVE Cost(s, k * Lot + Lot) > money
  <2>1. k # n
    BY <1>9, Units
  <2>2. k + 1 \in 0 .. n /\ (k + 1) * Lot = k * Lot + Lot /\ (k + 1) * Lot \in Nat
    BY <1>6, <2>1, Units
  <2>3. ~Payable(s, k * Lot + Lot, money)
    BY <1>3, <1>6, <2>1, <2>2
  <2>4. Cost(s, k * Lot + Lot) \in Nat
    BY <2>2, CostType
  <2> QED
    BY <2>3, <2>4 DEF Payable
<1> QED
  BY <1>1, <1>7, <1>8, <1>9
-------------------------------------------------------------------------------
(* The invariant. *)

\* What a share of s weighs.
Worth(s) == WeightUnit * frame[s].close

\* An order closes the gap to its target, to less than the value of a lot.
Fits(s) ==
  LET o == orders[s]
  IN  /\ o.requested \in Nat \ {0} /\ InLots(o.requested) /\ o.gap \in Int
      /\ \/ /\ o.side = "BUY"
            /\ 0 <= o.gap - Worth(s) * o.requested
            /\ o.gap - Worth(s) * o.requested < Worth(s) * Lot
         \/ /\ o.side = "SELL" /\ o.requested <= opened[s]
            /\ 0 <= o.gap + Worth(s) * o.requested
            /\ o.gap + Worth(s) * o.requested < Worth(s) * Lot

OrdersInv ==
  /\ DOMAIN orders \subseteq Securities \cap DOMAIN frame
  /\ \A s \in DOMAIN orders : Fits(s)

\* Where there are orders, every holding has a price.
HeldInv == DOMAIN orders # {} => Priced(position, frame)

Trading == step \in {"Approve", "Fill", "Close"}

\* What a fill of s changes its position by.
Traded(s) == IF s \in filled
             THEN IF s \in Sells THEN - approved[s].quantity ELSE approved[s].quantity
             ELSE 0

Positions == [Securities -> [total : Nat, available : Nat, today : Nat]]

PositionsInv ==
  /\ position \in Positions /\ opened \in [Securities -> Nat]
  /\ \A s \in Securities : LET p == position[s] IN
       p.available + p.today = p.total /\ (s \in T0 => p.today = 0) /\ InLots(p.total)
  /\ Trading => \A s \in Securities :
       /\ position[s].total = opened[s] + Traded(s)
       /\ s \notin filled => position[s].today = 0

\* A verdict allows no more than was asked, than the volume and than the price limits do.
VerdictFits(s) ==
  LET v == approved[s]
  IN  /\ v \in Verdict /\ InLots(v.quantity) /\ v.quantity <= orders[s].requested
      /\ v.quantity * RateUnit <= frame[s].volume * ParticipationRate
      /\ v.quantity > 0 => Tradable(s)
      /\ v.reason # "TURNOVER_RULE" /\ "sellable-holdings" \notin v.cut

ApprovalsInv ==
  /\ DOMAIN approved \subseteq DOMAIN orders /\ filled \subseteq DOMAIN approved
  /\ \A s \in DOMAIN approved : VerdictFits(s)
  /\ \A s \in DOMAIN approved, t \in DOMAIN orders : ApprovedBefore(t, s) => t \in DOMAIN approved
  /\ step = "Approve" => filled = {}
  /\ step \in {"Fill", "Close"} => DOMAIN approved = DOMAIN orders
  /\ step = "Close" => filled = DOMAIN orders

\* The effects of the verdicts on the cash.
Effects == [s \in DOMAIN approved |-> Effect(s, approved[s].quantity)]

\* The sales up to s that are not filled.
SalesTo(s) == {t \in Sells \ filled : t <= s}

\* What is projected is the cash after the fills to come, and on the way there no
\* sale, which may cost more than it brings, takes it below zero.
CashInv ==
  /\ projected = cash + Total(Effects, DOMAIN approved \ filled) /\ projected >= 0
  /\ \A s \in (DOMAIN approved \ filled) \cap Sells : cash + Total(Effects, SalesTo(s)) >= 0

CutForCash(s) == "available-cash" \in approved[s].cut \/ approved[s].reason = "INSUFFICIENT_CASH"

\* Those that were approved after s.
After(s) == {t \in DOMAIN approved : ApprovedBefore(s, t)}

\* When s was cut for cash, one more lot of it was more than what was projected.
CutsInv ==
  \A s \in DOMAIN approved \cap Buys :
    CutForCash(s) =>
      projected - Total(Effects, After(s)) < Cost(s, approved[s].quantity + Lot) - Cost(s, approved[s].quantity)

PendingInv ==
  \/ pending = NoTarget
  \/ step \in {"Open", "Failed"} /\ \E w \in Targets : pending = [executionDay |-> day, weights |-> w]

StateInv ==
  /\ day \in 0 .. LastFrame /\ step \in {"Open", "Approve", "Fill", "Close", "Done", "Failed"}
  /\ frame \in FramesOn(day) /\ cash \in Nat /\ projected \in Int

\* The parts about orders are about those of the day under way; after it they stay.
DayInv ==
  /\ StateInv /\ PendingInv /\ PositionsInv /\ RaisesForData
  /\ DOMAIN approved \subseteq DOMAIN orders /\ filled \subseteq DOMAIN orders
  /\ \A s \in DOMAIN approved :
       approved[s] \in Verdict /\ approved[s].reason # "TURNOVER_RULE" /\ "sellable-holdings" \notin approved[s].cut
  /\ Trading => OrdersInv /\ HeldInv /\ ApprovalsInv /\ CashInv /\ CutsInv
-------------------------------------------------------------------------------
(* Orders. *)

LEMMA AssetsType ==
  ASSUME NEW c \in Nat, NEW p, NEW f, IsFiniteSet(DOMAIN f),
         \A s \in DOMAIN f : p[s].total \in Nat /\ f[s].close \in Nat
  PROVE  /\ Assets(c, p, f) \in Nat
         /\ Assets(c, p, f) = c + Total([s \in DOMAIN f |-> p[s].total * f[s].close], DOMAIN f)
<1> DEFINE v == [s \in DOMAIN f |-> p[s].total * f[s].close]
<1>1. \A s \in DOMAIN f : v[s] \in Nat
  OBVIOUS
<1>2. DOMAIN v = DOMAIN f
  OBVIOUS
<1>3. Assets(c, p, f) = c + SumFunction(v)
  BY DEF Assets
<1> HIDE DEF v
<1>4. SumFunction(v) = Total(v, DOMAIN f) /\ Total(v, DOMAIN f) \in Nat
  BY <1>1, <1>2, SumIsTotal, TotalPart
<1> QED
  BY <1>3, <1>4 DEF v

\* The order for a security: between it and the target's weight is less than a lot.
LEMMA OrderSize ==
  ASSUME frame \in FramesOn(day), cash \in Nat, NEW w \in Targets, NEW p \in Positions, DOMAIN w \subseteq DOMAIN frame,
         \A s \in Securities : InLots(p[s].total),
         NEW s \in DOMAIN OrdersFor(w, p, frame)
  PROVE  LET o == OrdersFor(w, p, frame)[s]
         IN  /\ s \in Securities /\ s \in DOMAIN frame
             /\ o.requested \in Nat \ {0} /\ InLots(o.requested) /\ o.gap \in Int
             /\ \/ /\ o.side = "BUY"
                   /\ 0 <= o.gap - Worth(s) * o.requested
                   /\ o.gap - Worth(s) * o.requested < Worth(s) * Lot
                \/ /\ o.side = "SELL" /\ o.requested <= p[s].total
                   /\ 0 <= o.gap + Worth(s) * o.requested
                   /\ o.gap + Worth(s) * o.requested < Worth(s) * Lot
<1>1. PICK total : total = Assets(cash, p, frame)
  OBVIOUS
<1>2. s \in DOMAIN w /\ Deltas(w, total, p, frame)[s] # 0
  BY <1>1 DEF OrdersFor
<1>3. s \in Securities /\ s \in DOMAIN frame /\ w[s] \in Nat
  BY <1>2, TargetAssumption
<1>4. \A t \in DOMAIN frame : t \in Securities /\ p[t].total \in Nat /\ frame[t].close \in Nat
  BY BarType DEF Positions
<1>5. total \in Nat
  <2>1. IsFiniteSet(DOMAIN frame)
    BY FrameType
  <2> QED
    BY <1>1, <1>4, <2>1, AssetsType
<1>6. PICK n, c, v, d, k, h :
        /\ n = total * w[s] /\ c = frame[s].close /\ v = WeightUnit * c /\ d = WeightUnit * c * Lot
        /\ k = n \div d /\ h = p[s].total
  OBVIOUS
<1>7. n \in Nat /\ c \in Nat \ {0} /\ v \in Nat \ {0} /\ d = v * Lot /\ d \in Nat \ {0} /\ h \in Nat /\ InLots(h)
  BY <1>3, <1>4, <1>5, <1>6, BarType, Units
<1>8. k \in Nat /\ d * k <= n /\ n < d * k + d
  <2>1. k = n \div d
    BY <1>6
  <2>2. n \in Nat /\ n \in Int /\ d \in Nat \ {0}
    BY <1>7
  <2> QED
    BY <2>1, <2>2, DivBounds, DivNat
<1>9. PICK q : q = k * Lot
  OBVIOUS
<1>10. q \in Nat /\ InLots(q) /\ v * q = d * k
  BY <1>7, <1>8, <1>9, Units DEF InLots
<1>11. TargetQuantity(w, total, s, frame) = q
  BY <1>6, <1>9 DEF TargetQuantity
<1>12. Deltas(w, total, p, frame)[s] = q - h
  BY <1>2, <1>6, <1>11 DEF Deltas
<1>13. PICK r, g : r = Greatest(q - h, h - q) /\ g = n - v * h
  OBVIOUS
<1>14. OrdersFor(w, p, frame)[s] = [side |-> IF q - h > 0 THEN "BUY" ELSE "SELL", requested |-> r, gap |-> g]
  <2>1. OrdersFor(w, p, frame)[s] =
          [side |-> IF q - h > 0 THEN "BUY" ELSE "SELL", requested |-> Greatest(q - h, -(q - h)),
           gap |-> n - WeightUnit * h * c]
    BY <1>1, <1>2, <1>6, <1>12 DEF OrdersFor
  <2>2. WeightUnit * h * c = v * h
    <3>1. PICK u : u = WeightUnit
      OBVIOUS
    <3>2. u \in Nat /\ h \in Nat /\ c \in Nat /\ v = u * c
      BY <1>6, <1>7, <3>1, Units
    <3>3. u * h * c = u * c * h
      BY <3>2
    <3> QED
      BY <3>1, <3>2, <3>3
  <2>3. -(q - h) = h - q
    BY <1>7, <1>10
  <2> QED
    BY <1>13, <2>1, <2>2, <2>3
<1>15. v * h \in Nat /\ v * q \in Nat /\ g \in Int
  BY <1>7, <1>10, <1>13
<1>16. Worth(s) = v
  BY <1>6 DEF Worth
<1>17. CASE q > h
  <2>1. r = q - h /\ r \in Nat \ {0} /\ InLots(r)
    BY <1>7, <1>10, <1>13, <1>17, WholeSum DEF Greatest
  <2>2. v * r = v * q - v * h
    BY <1>7, <1>10, <2>1
  <2>3. q - h > 0
    BY <1>7, <1>10, <1>17
  <2>4. 0 <= g - v * r /\ g - v * r < v * Lot
    BY <1>7, <1>8, <1>10, <1>13, <1>15, <2>2
  <2> QED
    BY <1>3, <1>14, <1>15, <1>16, <2>1, <2>3, <2>4
<1>18. CASE ~(q > h)
  <2>1. r = h - q /\ r \in Nat \ {0} /\ InLots(r) /\ r <= h
    <3>1. q \in Nat /\ h \in Nat /\ q - h # 0
      <4>1. q - h # 0
        BY <1>2, <1>12
      <4>2. q \in Nat /\ h \in Nat
        BY <1>7, <1>10
      <4> QED
        BY <4>1, <4>2
    <3>2. r = h - q /\ r \in Nat \ {0} /\ r <= h
      BY <1>13, <1>18, <3>1 DEF Greatest
    <3>3. InLots(h - q)
      <4>1. h \in Nat /\ q \in Nat /\ InLots(h) /\ InLots(q) /\ q <= h
        BY <1>7, <1>10, <1>18
      <4> QED
        BY <4>1, WholeSum
    <3> QED
      BY <3>2, <3>3
  <2>2. v * r = v * h - v * q
    BY <1>7, <1>10, <2>1
  <2>3. ~(q - h > 0)
    BY <1>7, <1>10, <1>18
  <2>4. 0 <= g + v * r /\ g + v * r < v * Lot
    BY <1>7, <1>8, <1>10, <1>13, <1>15, <2>2
  <2> QED
    BY <1>3, <1>6, <1>14, <1>15, <1>16, <2>1, <2>3, <2>4
<1> QED
  BY <1>17, <1>18

LEMMA DayStarts == DayInit => DayInv
<1> SUFFICES ASSUME DayInit PROVE DayInv
  OBVIOUS
<1> USE DEF DayInit
<1>1. StateInv
  BY Units DEF StateInv
<1>2. PendingInv /\ ~Trading
  BY DEF PendingInv, Trading
<1>3. PositionsInv
  <2>1. InLots(0)
    BY Units DEF InLots
  <2> QED
    BY <1>2, <2>1 DEF PositionsInv, Positions
<1>4. DOMAIN orders = {} /\ DOMAIN approved = {} /\ filled = {}
  BY DEF NoOrders
<1>5. RaisesForData
  BY DEF RaisesForData
<1> QED
  BY <1>1, <1>2, <1>3, <1>4, <1>5 DEF DayInv

\* What the release of the T+1 shares makes of the positions.
LEMMA ReleaseType ==
  ASSUME position \in Positions, \A s \in Securities : position[s].available + position[s].today = position[s].total
  PROVE  \A s \in Securities :
           LET held == Release(position[s])
           IN  /\ held \in [total : Nat, available : Nat, today : Nat]
               /\ held.total = position[s].total /\ held.available = held.total /\ held.today = 0
<1> TAKE s \in Securities
<1>1. position[s] \in [total : Nat, available : Nat, today : Nat]
  BY DEF Positions
<1>2. position[s].available + position[s].today = position[s].total
  OBVIOUS
<1> QED
  BY <1>1, <1>2 DEF Release

\* A frame begins: no approval yet, and its orders fit its closes.  It raises only
\* for a bar that is missing or an order that has no quote.
LEMMA OpenStep == DayInv /\ Open => DayInv'
<1> SUFFICES ASSUME DayInv, Open PROVE DayInv'
  OBVIOUS
<1> DEFINE held == [s \in Securities |-> Release(position[s])]
           asks == OrdersFor(pending.weights, held, frame)
<1>1. /\ step = "Open" /\ position' = held /\ opened' = [s \in Securities |-> position[s].total]
      /\ approved' = NoOrders /\ projected' = cash /\ filled' = {}
      /\ UNCHANGED <<day, frame, cash>>
      /\ \/ pending = NoTarget /\ orders' = NoOrders /\ step' = "Close" /\ pending' = pending
         \/ /\ pending # NoTarget /\ ~Generated(held)
            /\ orders' = NoOrders /\ step' = "Failed" /\ pending' = pending
         \/ /\ pending # NoTarget /\ Generated(held) /\ orders' = asks
            /\ ~Quoted(orders') /\ step' = "Failed" /\ pending' = pending
         \/ /\ pending # NoTarget /\ Generated(held) /\ orders' = asks
            /\ Quoted(orders') /\ pending' = NoTarget
            /\ step' = IF DOMAIN orders' = {} THEN "Close" ELSE "Approve"
  BY DEF Open
<1>2. /\ position \in Positions
      /\ \A s \in Securities : position[s].available + position[s].today = position[s].total
                               /\ InLots(position[s].total)
  BY DEF DayInv, PositionsInv
<1>3. \A s \in Securities : /\ held[s] \in [total : Nat, available : Nat, today : Nat]
                            /\ held[s].total = position[s].total /\ held[s].available = held[s].total
                            /\ held[s].today = 0 /\ InLots(held[s].total)
  BY <1>2, ReleaseType
<1>4. held \in Positions
  BY <1>3 DEF Positions
<1> HIDE DEF held, asks
<1>5. DOMAIN approved' = {} /\ filled' = {}
  BY <1>1 DEF NoOrders
<1>6. PositionsInv'
  <2>1. opened' \in [Securities -> Nat] /\ \A s \in Securities : opened'[s] = held[s].total
    BY <1>1, <1>3
  <2>2. \A s \in Securities : Traded(s)' = 0
    BY <1>5 DEF Traded
  <2>3. \A s \in Securities : held[s].total \in Nat /\ held[s].total + 0 = held[s].total
    BY <1>3
  <2> QED
    BY <1>1, <1>3, <1>4, <2>1, <2>2, <2>3 DEF PositionsInv
<1>7. /\ frame \in FramesOn(day) /\ cash \in Nat /\ day \in 0 .. LastFrame /\ frame' = frame
      /\ DOMAIN frame = ActiveOn(day) /\ DOMAIN frame \subseteq Securities
  <2>1. frame \in FramesOn(day) /\ cash \in Nat /\ day \in 0 .. LastFrame /\ frame' = frame
    BY <1>1 DEF DayInv, StateInv
  <2> QED
    BY <2>1, FrameType
<1>8. pending # NoTarget =>
        /\ pending.executionDay = day /\ pending.weights \in Targets /\ Named = DOMAIN pending.weights
  BY DEF DayInv, PendingInv, Named
<1>9. ASSUME pending # NoTarget, Generated(held), orders' = asks, NEW s \in DOMAIN orders'
      PROVE  /\ s \in Securities /\ s \in DOMAIN frame /\ Fits(s)' /\ Consistent(orders'[s])
  <2>1. PICK w \in Targets : w = pending.weights
    BY <1>8, <1>9
  <2>2. DOMAIN w \subseteq DOMAIN frame
    BY <1>8, <1>9, <2>1 DEF Generated
  <2>3. asks = OrdersFor(w, held, frame) /\ s \in DOMAIN OrdersFor(w, held, frame)
    BY <1>9, <2>1 DEF asks
  <2>4. PICK o : o = OrdersFor(w, held, frame)[s]
    OBVIOUS
  <2>5. /\ s \in Securities /\ s \in DOMAIN frame
        /\ o.requested \in Nat \ {0} /\ InLots(o.requested) /\ o.gap \in Int
        /\ \/ /\ o.side = "BUY"
              /\ 0 <= o.gap - Worth(s) * o.requested
              /\ o.gap - Worth(s) * o.requested < Worth(s) * Lot
           \/ /\ o.side = "SELL" /\ o.requested <= held[s].total
              /\ 0 <= o.gap + Worth(s) * o.requested
              /\ o.gap + Worth(s) * o.requested < Worth(s) * Lot
    BY <1>3, <1>4, <1>7, <2>2, <2>3, <2>4, OrderSize
  <2>6. Worth(s)' = Worth(s) /\ opened'[s] = held[s].total /\ orders'[s] = o
    BY <1>1, <1>3, <1>9, <2>3, <2>4, <2>5 DEF Worth
  <2>7. Fits(s)'
    BY <2>5, <2>6 DEF Fits
  <2>8. Consistent(o)
    <3>1. PICK v, r, g, vr, vl : v = Worth(s) /\ r = o.requested /\ g = o.gap /\ vr = v * r /\ vl = v * Lot
      OBVIOUS
    <3>2. v \in Nat /\ r \in Nat /\ g \in Int /\ r >= Lot
      BY <1>7, <2>5, <3>1, BarType, Units, WholeAtLeast DEF Worth
    <3>3. vr \in Nat /\ vl \in Nat /\ vr >= vl
      BY <3>1, <3>2, Units
    <3>4. CASE o.side = "BUY"
      <4>1. g >= 0
        BY <2>5, <3>1, <3>2, <3>3, <3>4
      <4> QED
        BY <3>1, <3>4, <4>1 DEF Consistent
    <3>5. CASE o.side = "SELL"
      <4>1. g <= 0
        BY <2>5, <3>1, <3>2, <3>3, <3>5
      <4> QED
        BY <3>1, <3>5, <4>1 DEF Consistent
    <3> QED
      BY <2>5, <3>4, <3>5
  <2> QED
    BY <2>5, <2>6, <2>7, <2>8
<1>10. StateInv' /\ PendingInv'
  <2>1. step' \in {"Close", "Approve", "Failed"} /\ (step' = "Failed" \/ pending' = NoTarget)
        /\ (pending' = pending \/ pending' = NoTarget)
    BY <1>1
  <2>2. StateInv'
    BY <1>1, <1>7, <2>1 DEF StateInv
  <2>3. PendingInv'
    BY <1>1, <2>1 DEF DayInv, PendingInv
  <2> QED
    BY <2>2, <2>3
\* What it raises for.
<1>11. RaisesForData'
  <2> SUFFICES ASSUME step' = "Failed" PROVE RaisesForData'
    BY DEF RaisesForData
  <2>1. pending # NoTarget /\ pending' = pending
    BY <1>1
  <2>2. Named' = Named
    BY <2>1 DEF Named
  <2>3. CASE ~Generated(held)
    <3>1. ~Priced(held, frame) \/ ~(Named \subseteq DOMAIN frame)
      BY <1>8, <2>1, <2>3 DEF Generated
    <3>2. CASE ~Priced(held, frame)
      <4>1. PICK s \in Securities : held[s].total > 0 /\ s \notin DOMAIN frame
        BY <3>2 DEF Priced
      <4>2. s \in Securities \ ActiveOn(day') /\ position'[s].total > 0
        BY <1>1, <1>7, <4>1
      <4> QED
        BY <1>5, <4>2 DEF RaisesForData
    <3>3. CASE ~(Named \subseteq DOMAIN frame)
      <4>1. PICK s \in Named : s \notin DOMAIN frame
        BY <3>3
      <4>2. s \in Securities
        BY <1>8, <2>1, <4>1, TargetAssumption
      <4>3. s \in Securities \ ActiveOn(day') /\ s \in Named'
        BY <1>1, <1>7, <2>2, <4>1, <4>2
      <4> QED
        BY <1>5, <4>3 DEF RaisesForData
    <3> QED
      BY <3>1, <3>2, <3>3
  <2>4. CASE Generated(held) /\ orders' = asks /\ ~Quoted(orders')
    <3>1. PICK s \in DOMAIN orders' : ~(Consistent(orders'[s]) /\ Quotable(orders'[s].side, frame[s]))
      BY <2>4 DEF Quoted
    <3>2. Consistent(orders'[s])
      BY <1>9, <2>1, <2>4
    <3>3. ~Quotable(orders'[s].side, frame'[s])
      BY <1>7, <3>1, <3>2
    <3> QED
      BY <1>5, <3>3 DEF RaisesForData
  <2> QED
    BY <1>1, <2>3, <2>4
\* What holds when it does not.
<1>12. ASSUME Trading' PROVE OrdersInv' /\ HeldInv' /\ ApprovalsInv' /\ CutsInv' /\ CashInv'
  <2>1. \/ orders' = NoOrders /\ step' = "Close"
        \/ /\ pending # NoTarget /\ Generated(held) /\ orders' = asks
           /\ step' = IF DOMAIN orders' = {} THEN "Close" ELSE "Approve"
    BY <1>1, <1>12 DEF Trading
  <2>2. OrdersInv'
    <3>1. \A s \in DOMAIN orders' : s \in Securities /\ s \in DOMAIN frame /\ Fits(s)'
      BY <1>9, <2>1 DEF NoOrders
    <3> QED
      BY <1>7, <3>1 DEF OrdersInv
  <2>3. HeldInv'
    <3>1. CASE orders' = NoOrders
      BY <3>1 DEF HeldInv, NoOrders
    <3>2. CASE Generated(held)
      <4>1. Priced(held, frame)
        BY <3>2 DEF Generated
      <4> QED
        BY <1>1, <1>7, <4>1 DEF HeldInv
    <3> QED
      BY <2>1, <3>1, <3>2
  <2>4. step' \in {"Close", "Approve"} /\ (step' = "Close" => DOMAIN orders' = {})
    BY <2>1 DEF NoOrders
  <2>5. ApprovalsInv'
    BY <1>5, <2>4 DEF ApprovalsInv
  <2>6. CutsInv'
    BY <1>5 DEF CutsInv
  <2>7. Total(Effects', DOMAIN approved' \ filled') = 0
    BY <1>5, TotalEmpty
  <2>8. CashInv'
    BY <1>1, <1>5, <1>7, <2>7 DEF CashInv
  <2> QED
    BY <2>2, <2>3, <2>5, <2>6, <2>8
<1> QED
  BY <1>5, <1>6, <1>10, <1>11, <1>12 DEF DayInv
-------------------------------------------------------------------------------
(* Approval. *)

\* Every order is a sale or a purchase.
LEMMA Sides ==
  ASSUME OrdersInv
  PROVE  /\ \A s \in DOMAIN orders : s \in Securities /\ s \in DOMAIN frame /\ s \in Nat
                                     /\ orders[s].gap \in Int /\ (s \in Buys <=> s \notin Sells)
         /\ Sells \subseteq DOMAIN orders /\ Buys \subseteq DOMAIN orders
         /\ IsFiniteSet(DOMAIN orders)
<1>1. Securities \subseteq Nat /\ IsFiniteSet(Securities)
  BY SecuritiesAssumption
<1>2. IsFiniteSet(DOMAIN orders)
  BY <1>1, FS_Subset DEF OrdersInv
<1> QED
  BY <1>1, <1>2 DEF OrdersInv, Fits, Sells, Buys

\* The order of the approvals is a strict total order of the orders.
LEMMA ApprovalOrder ==
  ASSUME OrdersInv, NEW s \in DOMAIN orders, NEW t \in DOMAIN orders
  PROVE  /\ s # t => ApprovedBefore(s, t) \/ ApprovedBefore(t, s)
         /\ ~(ApprovedBefore(s, t) /\ ApprovedBefore(t, s))
         /\ s \in Sells /\ t \in Sells => (ApprovedBefore(s, t) <=> s < t)
         /\ s \in Sells /\ t \in Buys => ApprovedBefore(s, t)
<1>1. /\ s \in Nat /\ t \in Nat /\ orders[s].gap \in Int /\ orders[t].gap \in Int
      /\ (s \in Buys <=> s \notin Sells) /\ (t \in Buys <=> t \notin Sells)
  BY Sides
<1>2. PICK g, h : g = orders[s].gap /\ h = orders[t].gap
  OBVIOUS
<1>3. g \in Int /\ h \in Int
  BY <1>1, <1>2
<1>4. CASE s \in Sells /\ t \in Sells
  BY <1>1, <1>4 DEF ApprovedBefore
<1>5. CASE s \in Sells /\ t \notin Sells
  BY <1>1, <1>5 DEF ApprovedBefore
<1>6. CASE s \notin Sells /\ t \in Sells
  BY <1>1, <1>6 DEF ApprovedBefore
<1>7. CASE s \notin Sells /\ t \notin Sells
  <2>1. /\ ApprovedBefore(s, t) <=> g > h \/ (g = h /\ s < t)
        /\ ApprovedBefore(t, s) <=> h > g \/ (h = g /\ t < s)
    BY <1>1, <1>2, <1>7 DEF ApprovedBefore
  <2> QED
    BY <1>1, <1>3, <1>7, <2>1
<1> QED
  BY <1>4, <1>5, <1>6, <1>7

\* The share of the day's volume.
LEMMA VolumeType ==
  ASSUME frame \in FramesOn(day), NEW s \in DOMAIN frame
  PROVE  /\ VolumeLimit(s) \in Nat /\ InLots(VolumeLimit(s))
         /\ VolumeLimit(s) * RateUnit <= frame[s].volume * ParticipationRate
<1>1. PICK n, x, m : n = frame[s].volume * ParticipationRate /\ x = n \div RateUnit /\ m = VolumeLimit(s)
  OBVIOUS
<1>2. n \in Nat
  BY <1>1, BarType, Units
<1>3. x \in Nat /\ RateUnit * x <= n
  <2>1. n \in Int
    BY <1>2
  <2> QED
    BY <1>1, <1>2, <2>1, DivBounds, DivNat, Units
<1>4. m \in Nat /\ InLots(m) /\ m <= x
  <2>1. m = WholeLots(x)
    BY <1>1 DEF VolumeLimit
  <2> QED
    BY <1>3, <2>1, WholeLotsType
<1>5. m * RateUnit <= x * RateUnit /\ x * RateUnit = RateUnit * x
  BY <1>3, <1>4, Units
<1>6. m * RateUnit \in Nat /\ RateUnit * x \in Nat
  BY <1>3, <1>4, Units
<1> QED
  BY <1>1, <1>2, <1>3, <1>4, <1>5, <1>6

LEMMA LessVolume ==
  ASSUME frame \in FramesOn(day), NEW s \in DOMAIN frame, NEW q \in Nat, q <= VolumeLimit(s)
  PROVE  q * RateUnit <= frame[s].volume * ParticipationRate
<1>1. PICK m, n : m = VolumeLimit(s) /\ n = frame[s].volume * ParticipationRate
  OBVIOUS
<1>2. m \in Nat /\ n \in Nat /\ m * RateUnit <= n /\ q <= m
  BY <1>1, VolumeType, BarType, Units
<1>3. q * RateUnit <= m * RateUnit /\ q * RateUnit \in Nat /\ m * RateUnit \in Nat
  BY <1>2, Units
<1> QED
  BY <1>1, <1>2, <1>3

\* What a verdict v on s must be.
Proper(s, v) ==
  /\ v \in Verdict /\ InLots(v.quantity) /\ v.quantity <= orders[s].requested
  /\ v.quantity * RateUnit <= frame[s].volume * ParticipationRate
  /\ v.quantity > 0 => Tradable(s)
  /\ v.reason # "TURNOVER_RULE" /\ "sellable-holdings" \notin v.cut

LEMMA RejectedProper ==
  ASSUME frame \in FramesOn(day), NEW s \in DOMAIN orders, OrdersInv,
         NEW reason \in {"PRECHECK", "VOLUME_LIMIT", "INSUFFICIENT_CASH"}
  PROVE  Proper(s, Rejected(reason)) /\ Rejected(reason).quantity = 0 /\ Rejected(reason).cut = {}
         /\ Rejected(reason).reason = reason
<1>1. InLots(0) /\ s \in Securities /\ s \in DOMAIN frame /\ 0 <= orders[s].requested
  BY Units DEF InLots, OrdersInv, Fits
<1>2. 0 * RateUnit <= frame[s].volume * ParticipationRate
  <2>1. frame[s].volume * ParticipationRate \in Nat
    BY <1>1, BarType, Units
  <2> QED
    BY <2>1, Units
<1> QED
  BY <1>1, <1>2 DEF Proper, Rejected, Verdict

\* A sale: all the shares of its security are free, and what it sells leaves the
\* projected cash above zero.
LEMMA SellProper ==
  ASSUME StateInv, OrdersInv, PositionsInv, Trading, projected >= 0,
         NEW s \in Sells, s \notin filled
  PROVE  /\ Proper(s, CheckSell(s))
         /\ CheckSell(s).quantity # 0 => projected + Proceeds(s, CheckSell(s).quantity) >= 0
<1>1. /\ s \in DOMAIN orders /\ s \in Securities /\ s \in DOMAIN frame /\ orders[s].side = "SELL"
      /\ frame \in FramesOn(day)
  BY Sides DEF Sells, StateInv
<1>2. PICK asked, free, limit :
        asked = orders[s].requested /\ free = position[s].available /\ limit = VolumeLimit(s)
  OBVIOUS
<1>3. asked \in Nat /\ InLots(asked) /\ asked >= Lot /\ asked <= opened[s]
  BY <1>1, <1>2, WholeAtLeast DEF OrdersInv, Fits
<1>4. free \in Nat /\ free = opened[s]
  <2>1. /\ position[s].available \in Nat /\ position[s].today \in Nat /\ position[s].total \in Nat
        /\ opened[s] \in Nat
    BY <1>1 DEF PositionsInv, Positions
  <2>2. position[s].total = opened[s] + 0 /\ position[s].today = 0
    BY <1>1 DEF PositionsInv, Traded
  <2>3. position[s].available + position[s].today = position[s].total
    BY <1>1 DEF PositionsInv
  <2> QED
    BY <1>2, <2>1, <2>2, <2>3
<1>5. WholeLots(Least(asked, free)) = asked /\ ~(free < Lot)
  <2>1. Least(asked, free) = asked
    BY <1>3, <1>4 DEF Least
  <2> QED
    BY <1>3, <1>4, <2>1, WholeLotsOfWhole, Units
<1>6. limit \in Nat /\ InLots(limit)
  BY <1>1, <1>2, VolumeType
<1>7. PICK q : q = Least(asked, limit)
  OBVIOUS
<1>8. InLots(q) /\ q \in Nat /\ q <= asked /\ q <= limit
  BY <1>3, <1>6, <1>7, WholeLeast, WholeIsNat
<1>9. CheckSell(s) =
        IF ~Tradable(s) THEN Rejected("PRECHECK")
        ELSE IF limit < Lot THEN Rejected("VOLUME_LIMIT")
        ELSE IF projected + Proceeds(s, q) < 0 THEN Rejected("INSUFFICIENT_CASH")
        ELSE Passed(q, Cut(asked, asked, "sellable-holdings") \cup Cut(q, asked, "daily-volume"))
  BY <1>2, <1>5, <1>7 DEF CheckSell
<1>10. CASE CheckSell(s) = Passed(q, Cut(asked, asked, "sellable-holdings") \cup Cut(q, asked, "daily-volume"))
            /\ Tradable(s) /\ ~(projected + Proceeds(s, q) < 0)
  <2>1. q * RateUnit <= frame[s].volume * ParticipationRate
    BY <1>1, <1>2, <1>8, LessVolume
  <2>2. Cut(asked, asked, "sellable-holdings") = {}
    BY <1>3 DEF Cut
  <2>3. Cut(q, asked, "daily-volume") \subseteq {"daily-volume"}
    BY DEF Cut
  <2>4. Proceeds(s, q) \in Int /\ projected \in Int
    BY <1>1, <1>8, CostType DEF StateInv
  <2>5. CheckSell(s) = Passed(q, Cut(q, asked, "daily-volume"))
    BY <1>10, <2>2
  <2>6. PICK cut : cut = Cut(q, asked, "daily-volume")
    OBVIOUS
  <2>7. /\ CheckSell(s).quantity = q /\ CheckSell(s).reason = "APPROVED" /\ CheckSell(s).cut = cut
        /\ CheckSell(s) \in Verdict /\ "sellable-holdings" \notin cut
    BY <1>8, <2>3, <2>5, <2>6 DEF Passed, Verdict
  <2> QED
    BY <1>2, <1>8, <1>10, <2>1, <2>4, <2>7 DEF Proper
<1>11. CASE \E reason \in {"PRECHECK", "VOLUME_LIMIT", "INSUFFICIENT_CASH"} : CheckSell(s) = Rejected(reason)
  BY <1>1, <1>11, RejectedProper
<1> QED
  BY <1>9, <1>10, <1>11

\* A purchase: the projected cash pays for it, and if it was cut for cash, not for
\* one more lot.
LEMMA BuyProper ==
  ASSUME StateInv, OrdersInv, projected >= 0, NEW s \in Buys
  PROVE  LET v == CheckBuy(s)
         IN  /\ Proper(s, v) /\ Cost(s, v.quantity) <= projected
             /\ "available-cash" \in v.cut \/ v.reason = "INSUFFICIENT_CASH" =>
                  projected < Cost(s, v.quantity + Lot)
<1>1. /\ s \in DOMAIN orders /\ s \in Securities /\ s \in DOMAIN frame /\ frame \in FramesOn(day) /\ projected \in Nat
  BY Sides DEF Buys, StateInv
<1>2. PICK asked, limit : asked = orders[s].requested /\ limit = VolumeLimit(s)
  OBVIOUS
<1>3. asked \in Nat /\ InLots(asked) /\ asked >= Lot
  BY <1>1, <1>2, WholeAtLeast DEF OrdersInv, Fits
<1>4. limit \in Nat /\ InLots(limit)
  BY <1>1, <1>2, VolumeType
<1>5. PICK n : n = Least(asked, limit)
  OBVIOUS
<1>6. InLots(n) /\ n \in Nat /\ n <= asked /\ n <= limit /\ (limit >= Lot => n >= Lot)
  BY <1>3, <1>4, <1>5, WholeLeast, WholeIsNat, Units DEF Least
<1>7. WholeLots(Least(asked, limit)) = n
  BY <1>5, <1>6, WholeLotsOfWhole
<1>8. PICK q : q = Affordable(s, projected, n)
  OBVIOUS
<1>9. /\ InLots(q) /\ q <= n /\ Cost(s, q) <= projected
      /\ q < n => Cost(s, q + Lot) > projected
  BY <1>1, <1>6, <1>8, AffordableType
<1>10. q \in Nat /\ q <= asked /\ q <= limit
  BY <1>3, <1>4, <1>6, <1>9, WholeIsNat
<1>11. CheckBuy(s) =
        IF ~Tradable(s) THEN Rejected("PRECHECK")
        ELSE IF limit < Lot THEN Rejected("VOLUME_LIMIT")
        ELSE IF q = 0 THEN Rejected("INSUFFICIENT_CASH")
        ELSE Passed(q, Cut(n, asked, "daily-volume") \cup Cut(q, n, "available-cash"))
  BY <1>2, <1>7, <1>8 DEF CheckBuy
<1>12. Cost(s, 0) = 0
  BY <1>1, CostType
<1>13. CASE CheckBuy(s) = Passed(q, Cut(n, asked, "daily-volume") \cup Cut(q, n, "available-cash"))
            /\ Tradable(s)
  <2>1. q * RateUnit <= frame[s].volume * ParticipationRate
    BY <1>1, <1>2, <1>10, LessVolume
  <2>2. PICK cut : cut = Cut(n, asked, "daily-volume") \cup Cut(q, n, "available-cash")
    OBVIOUS
  <2>3. cut \subseteq {"daily-volume", "available-cash"} /\ ("available-cash" \in cut => q < n)
    BY <2>2 DEF Cut
  <2>4. /\ CheckBuy(s).quantity = q /\ CheckBuy(s).reason = "APPROVED" /\ CheckBuy(s).cut = cut
        /\ CheckBuy(s) \in Verdict /\ "sellable-holdings" \notin cut
    BY <1>10, <1>13, <2>2, <2>3 DEF Passed, Verdict
  <2>5. q + Lot \in Nat
    BY <1>10, Units
  <2>6. Cost(s, q + Lot) \in Nat
    BY <1>1, <2>5, CostType
  <2> QED
    BY <1>1, <1>2, <1>9, <1>10, <1>13, <2>1, <2>3, <2>4, <2>6 DEF Proper
<1>14. CASE CheckBuy(s) = Rejected("INSUFFICIENT_CASH") /\ q = 0 /\ ~(limit < Lot)
  <2>1. q < n
    BY <1>4, <1>6, <1>14, Units
  <2>2. Cost(s, q + Lot) \in Nat
    <3>1. q + Lot \in Nat
      BY <1>10, Units
    <3> QED
      BY <1>1, <3>1, CostType
  <2> QED
    BY <1>1, <1>9, <1>12, <1>14, <2>1, <2>2, RejectedProper
<1>15. CASE \E reason \in {"PRECHECK", "VOLUME_LIMIT"} : CheckBuy(s) = Rejected(reason)
  <2>1. PICK reason \in {"PRECHECK", "VOLUME_LIMIT"} : CheckBuy(s) = Rejected(reason)
    BY <1>15
  <2>2. Proper(s, Rejected(reason)) /\ Rejected(reason).quantity = 0 /\ Rejected(reason).cut = {}
         /\ Rejected(reason).reason = reason
    BY <1>1, RejectedProper
  <2> QED
    BY <1>1, <1>12, <2>1, <2>2
<1> QED
  BY <1>11, <1>13, <1>14, <1>15

\* An approval: what is projected stays above zero and is what the fills will leave,
\* whatever comes later has a smaller claim to the cash.
LEMMA ApproveStep == DayInv /\ Approve => DayInv'
<1> SUFFICES ASSUME DayInv, Approve PROVE DayInv'
  OBVIOUS
<1>1. /\ StateInv /\ PendingInv /\ PositionsInv /\ OrdersInv /\ HeldInv /\ ApprovalsInv /\ CashInv /\ CutsInv
      /\ step = "Approve" /\ Trading /\ filled = {}
      /\ UNCHANGED <<day, frame, cash, position, pending, orders, filled, opened>>
  BY DEF DayInv, Approve, Trading, ApprovalsInv
<1>2. PICK s \in DOMAIN orders \ DOMAIN approved :
        /\ \A t \in DOMAIN orders \ DOMAIN approved : t = s \/ ApprovedBefore(s, t)
        /\ LET verdict == IF s \in Sells THEN CheckSell(s) ELSE CheckBuy(s) IN
           /\ approved' = [t \in DOMAIN approved \cup {s} |-> IF t = s THEN verdict ELSE approved[t]]
           /\ projected' = projected + Effect(s, verdict.quantity)
        /\ step' = IF projected' < 0 THEN "Failed"
                   ELSE IF DOMAIN approved \cup {s} = DOMAIN orders THEN "Fill" ELSE step
  BY DEF Approve
<1>3. PICK v : v = IF s \in Sells THEN CheckSell(s) ELSE CheckBuy(s)
  OBVIOUS
<1>4. /\ approved' = [t \in DOMAIN approved \cup {s} |-> IF t = s THEN v ELSE approved[t]]
      /\ projected' = projected + Effect(s, v.quantity)
  BY <1>2, <1>3
<1>5. /\ s \in DOMAIN orders /\ s \notin DOMAIN approved /\ s \in Securities /\ s \in DOMAIN frame /\ frame \in FramesOn(day)
      /\ (s \in Buys <=> s \notin Sells) /\ projected \in Nat /\ cash \in Nat
  BY <1>1, <1>2, Sides DEF StateInv, CashInv
<1>6. Proper(s, v)
  BY <1>1, <1>3, <1>5, SellProper, BuyProper DEF CashInv
<1>7. PICK e : e = Effect(s, v.quantity)
  OBVIOUS
<1>8. v.quantity \in Nat
  BY <1>6 DEF Proper, Verdict
<1>9. e \in Int /\ projected + e >= 0 /\ (s \in Buys => e = - Cost(s, v.quantity))
  <2>1. CASE v.quantity = 0
    <3>1. e = 0 /\ Cost(s, 0) = 0
      BY <1>5, <1>7, <2>1, CostType DEF Effect
    <3> QED
      BY <1>5, <2>1, <3>1
  <2>2. CASE v.quantity # 0 /\ s \in Sells
    <3>1. e = Proceeds(s, v.quantity) /\ v = CheckSell(s)
      BY <1>3, <1>7, <2>2 DEF Effect
    <3>2. e \in Int
      BY <1>5, <1>8, <3>1, CostType
    <3>3. projected + e >= 0
      BY <1>1, <2>2, <3>1, SellProper DEF CashInv
    <3> QED
      BY <1>5, <2>2, <3>2, <3>3
  <2>3. CASE v.quantity # 0 /\ s \notin Sells
    <3>1. e = - Cost(s, v.quantity) /\ v = CheckBuy(s)
      BY <1>3, <1>7, <2>3 DEF Effect
    <3>2. Cost(s, v.quantity) \in Nat
      BY <1>5, <1>8, CostType
    <3>3. Cost(s, v.quantity) <= projected
      BY <1>1, <1>5, <2>3, <3>1, BuyProper DEF CashInv
    <3> QED
      BY <1>5, <3>1, <3>2, <3>3
  <2> QED
    BY <2>1, <2>2, <2>3
<1>10. projected' = projected + e /\ projected' \in Nat
  BY <1>4, <1>5, <1>7, <1>9
<1>11. step' = IF DOMAIN approved \cup {s} = DOMAIN orders THEN "Fill" ELSE "Approve"
  BY <1>1, <1>2, <1>10
<1>12. DOMAIN approved' = DOMAIN approved \cup {s} /\ approved'[s] = v
       /\ \A t \in DOMAIN approved : approved'[t] = approved[t]
  BY <1>4, <1>5
<1>13. /\ Sells' = Sells /\ Buys' = Buys /\ DOMAIN orders' = DOMAIN orders
       /\ \A t, u : ApprovedBefore(t, u)' = ApprovedBefore(t, u)
       /\ \A t, q : Cost(t, q)' = Cost(t, q) /\ Effect(t, q)' = Effect(t, q)
       /\ \A t : Tradable(t)' = Tradable(t) /\ Fits(t)' = Fits(t)
  <2>1. Sells' = Sells /\ Buys' = Buys
    BY <1>1 DEF Sells, Buys
  <2>2. \A t, u : ApprovedBefore(t, u)' = ApprovedBefore(t, u)
    BY <1>1, <2>1 DEF ApprovedBefore
  <2>3. \A t, q : Cost(t, q)' = Cost(t, q) /\ Effect(t, q)' = Effect(t, q)
    BY <1>1, <2>1 DEF Cost, Effect, Proceeds, Amount
  <2>4. \A t : Tradable(t)' = Tradable(t) /\ Fits(t)' = Fits(t)
    BY <1>1 DEF Tradable, Fits, Worth
  <2> QED
    BY <1>1, <2>1, <2>2, <2>3, <2>4
<1>14. StateInv' /\ PendingInv' /\ OrdersInv' /\ HeldInv' /\ RaisesForData'
  <2>1. StateInv'
    BY <1>1, <1>10, <1>11 DEF StateInv
  <2>2. PendingInv'
    BY <1>1, <1>11 DEF PendingInv
  <2>3. OrdersInv'
    BY <1>1, <1>13 DEF OrdersInv
  <2>4. HeldInv'
    BY <1>1 DEF HeldInv
  <2>5. RaisesForData'
    BY <1>11 DEF RaisesForData
  <2> QED
    BY <2>1, <2>2, <2>3, <2>4, <2>5
<1>15. PositionsInv'
  <2>1. \A t \in Securities : Traded(t)' = 0 /\ Traded(t) = 0
    BY <1>1 DEF Traded
  <2> QED
    BY <1>1, <2>1 DEF PositionsInv
\* The verdicts so far are those of the first orders.
<1>16. \A t \in DOMAIN approved : ApprovedBefore(t, s) /\ ~ApprovedBefore(s, t) /\ t \in DOMAIN orders /\ t # s
  <2> TAKE t \in DOMAIN approved
  <2>1. t \in DOMAIN orders /\ t # s
    BY <1>1, <1>5 DEF ApprovalsInv
  <2>2. ~ApprovedBefore(s, t)
    BY <1>1, <1>5 DEF ApprovalsInv
  <2> QED
    BY <1>1, <1>5, <2>1, <2>2, ApprovalOrder
<1>17. \A t \in DOMAIN orders : ApprovedBefore(t, s) => t \in DOMAIN approved
  BY <1>1, <1>2, <1>5, ApprovalOrder
<1>18. ApprovalsInv'
  <2>1. \A t \in DOMAIN approved' : VerdictFits(t)'
    <3> TAKE t \in DOMAIN approved'
    <3>1. CASE t = s
      BY <1>1, <1>6, <1>12, <1>13, <3>1 DEF VerdictFits, Proper
    <3>2. CASE t \in DOMAIN approved
      BY <1>1, <1>12, <1>13, <3>2 DEF VerdictFits, ApprovalsInv
    <3> QED
      BY <1>12, <3>1, <3>2
  <2>2. \A t \in DOMAIN approved', u \in DOMAIN orders' : ApprovedBefore(u, t)' => u \in DOMAIN approved'
    BY <1>1, <1>12, <1>13, <1>17 DEF ApprovalsInv
  <2>3. DOMAIN approved' \subseteq DOMAIN orders' /\ filled' \subseteq DOMAIN approved' /\ filled' = {}
    BY <1>1, <1>5, <1>12 DEF ApprovalsInv
  <2>4. step' \in {"Fill", "Close"} => DOMAIN approved' = DOMAIN orders'
    BY <1>1, <1>11, <1>12
  <2>5. step' # "Close"
    BY <1>11
  <2> QED
    BY <2>1, <2>2, <2>3, <2>4, <2>5 DEF ApprovalsInv
\* The sums.
<1>19. /\ \A t \in DOMAIN approved : Effects'[t] = Effects[t] /\ Effects[t] \in Int
       /\ Effects'[s] = e
  <2>1. Effects' = [t \in DOMAIN approved' |-> Effect(t, approved'[t].quantity)]
    BY <1>13 DEF Effects
  <2>2. Effects'[s] = e
    BY <1>7, <1>12, <2>1
  <2>3. ASSUME NEW t \in DOMAIN approved PROVE Effects'[t] = Effects[t] /\ Effects[t] \in Int
    <3>1. Effects[t] = Effect(t, approved[t].quantity)
      BY DEF Effects
    <3>2. Effects'[t] = Effects[t]
      BY <1>12, <2>1, <3>1
    <3>3. approved[t].quantity \in Nat /\ t \in Securities /\ t \in DOMAIN frame
      BY <1>1, Sides DEF ApprovalsInv, VerdictFits, Verdict
    <3>4. PICK q : q = approved[t].quantity
      OBVIOUS
    <3>5. Cost(t, q) \in Nat /\ Proceeds(t, q) \in Int
      BY <1>5, <3>3, <3>4, CostType
    <3> QED
      BY <3>1, <3>2, <3>4, <3>5 DEF Effect
  <2> QED
    BY <2>2, <2>3
<1>20. IsFiniteSet(DOMAIN approved) /\ DOMAIN approved \subseteq DOMAIN orders
  BY <1>1, Sides, FS_Subset DEF ApprovalsInv
<1>21. ASSUME NEW T, T \subseteq DOMAIN approved
       PROVE  /\ IsFiniteSet(T) /\ Total(Effects', T) = Total(Effects, T) /\ Total(Effects, T) \in Int
              /\ Total(Effects', T \cup {s}) = e + Total(Effects, T)
  <2>1. IsFiniteSet(T)
    BY <1>20, <1>21, FS_Subset
  <2>2. \A t \in T : Effects'[t] = Effects[t] /\ Effects[t] \in Int
    BY <1>19, <1>21
  <2>3. Total(Effects', T) = Total(Effects, T) /\ Total(Effects, T) \in Int
    BY <2>1, <2>2, TotalAgrees, TotalInt
  <2>4. s \notin T /\ \A t \in T \cup {s} : Effects'[t] \in Int
    BY <1>5, <1>9, <1>19, <1>21, <2>2
  <2>5. Total(Effects', T \cup {s}) = Effects'[s] + Total(Effects', T)
    BY <2>1, <2>4, TotalWith
  <2> QED
    BY <1>19, <2>1, <2>3, <2>5
<1>22. CashInv'
  <2>1. Total(Effects', DOMAIN approved \cup {s}) = e + Total(Effects, DOMAIN approved)
        /\ Total(Effects, DOMAIN approved) \in Int
    BY <1>21
  <2>2. projected = cash + Total(Effects, DOMAIN approved)
    <3>1. DOMAIN approved \ filled = DOMAIN approved
      BY <1>1
    <3> QED
      BY <1>1, <3>1 DEF CashInv
  <2>3. DOMAIN approved' \ filled' = DOMAIN approved \cup {s}
    BY <1>1, <1>12
  <2>4. projected' = cash' + Total(Effects', DOMAIN approved' \ filled')
    <3>1. projected + e = cash + (e + Total(Effects, DOMAIN approved))
      BY <1>5, <1>9, <2>1, <2>2
    <3> QED
      BY <1>1, <1>10, <2>1, <2>3, <3>1
  <2>5. ASSUME NEW t \in (DOMAIN approved' \ filled') \cap Sells' PROVE (cash + Total(Effects, SalesTo(t)) >= 0)'
    <3>1. SalesTo(t)' = {u \in Sells : u <= t}
      BY <1>1, <1>13 DEF SalesTo
    <3>2. CASE t \in DOMAIN approved
      <4>1. SalesTo(t)' = SalesTo(t)
        BY <1>1, <3>1 DEF SalesTo
      <4>2. SalesTo(t) \subseteq DOMAIN approved
        <5> SUFFICES ASSUME NEW u \in Sells, u <= t PROVE u \in DOMAIN approved
          BY DEF SalesTo
        <5>1. u \in DOMAIN orders /\ t \in DOMAIN orders /\ t \in Sells /\ u \in Nat /\ t \in Nat
          BY <1>1, <1>13, <1>20, <3>2, Sides
        <5>2. u = t \/ ApprovedBefore(u, t)
          BY <1>1, <5>1, ApprovalOrder
        <5> QED
          BY <1>1, <3>2, <5>1, <5>2 DEF ApprovalsInv
      <4>3. cash + Total(Effects, SalesTo(t)) >= 0
        BY <1>1, <1>13, <3>2 DEF CashInv
      <4>4. Total(Effects', SalesTo(t)) = Total(Effects, SalesTo(t))
        BY <1>21, <4>2
      <4> QED
        BY <1>1, <4>1, <4>3, <4>4
    <3>3. CASE t = s
      <4>1. s \in Sells
        BY <1>13, <3>3
      <4>2. SalesTo(s)' = DOMAIN approved \cup {s}
        <5>1. ASSUME NEW u \in Sells, u <= s PROVE u \in DOMAIN approved \cup {s}
          <6>1. u \in DOMAIN orders /\ u \in Nat /\ s \in Nat
            BY <1>1, <1>5, Sides
          <6>2. u = s \/ ApprovedBefore(u, s)
            BY <1>1, <1>5, <4>1, <5>1, <6>1, ApprovalOrder
          <6> QED
            BY <1>17, <6>1, <6>2
        <5>2. ASSUME NEW u \in DOMAIN approved PROVE u \in Sells /\ u <= s
          <6>1. /\ ApprovedBefore(u, s) /\ ~ApprovedBefore(s, u) /\ u \in DOMAIN orders
                /\ u \in Nat /\ s \in Nat /\ (u \in Buys <=> u \notin Sells)
            BY <1>1, <1>5, <1>16, Sides
          <6>2. u \in Sells
            BY <1>1, <1>5, <4>1, <6>1, ApprovalOrder
          <6>3. u < s
            BY <1>1, <1>5, <4>1, <6>1, <6>2, ApprovalOrder
          <6> QED
            BY <6>1, <6>2, <6>3
        <5>3. s \in Nat /\ s <= s
          BY <1>1, <1>5, Sides
        <5> QED
          BY <3>1, <3>3, <4>1, <5>1, <5>2, <5>3
      <4>3. (cash + Total(Effects, SalesTo(s)))' = projected'
        BY <1>12, <2>3, <2>4, <4>2
      <4> QED
        BY <1>10, <3>3, <4>3
    <3> QED
      BY <1>12, <3>2, <3>3
  <2> QED
    BY <1>10, <2>4, <2>5 DEF CashInv
<1>23. CutsInv'
  <2> SUFFICES ASSUME NEW t \in DOMAIN approved' \cap Buys', CutForCash(t)'
               PROVE  (projected - Total(Effects, After(t))
                        < Cost(t, approved[t].quantity + Lot) - Cost(t, approved[t].quantity))'
    BY DEF CutsInv
  <2>1. After(t)' = {u \in DOMAIN approved \cup {s} : ApprovedBefore(t, u)}
    BY <1>12, <1>13 DEF After
  <2>2. CASE t \in DOMAIN approved
    <3>1. After(t)' = After(t) \cup {s}
      BY <1>16, <2>1, <2>2 DEF After
    <3>2. After(t) \subseteq DOMAIN approved
      BY DEF After
    <3>3. Total(Effects', After(t) \cup {s}) = e + Total(Effects, After(t)) /\ Total(Effects, After(t)) \in Int
      BY <1>21, <3>2
    <3>4. approved'[t] = approved[t] /\ t \in Buys
      BY <1>12, <1>13, <2>2
    <3>5. CutForCash(t)
      BY <3>4 DEF CutForCash
    <3>6. projected - Total(Effects, After(t)) < Cost(t, approved[t].quantity + Lot) - Cost(t, approved[t].quantity)
      BY <1>1, <2>2, <3>4, <3>5 DEF CutsInv
    <3>7. projected' - Total(Effects', After(t)') = projected - Total(Effects, After(t))
      BY <1>5, <1>9, <1>10, <3>1, <3>3
    <3>8. Cost(t, approved[t].quantity + Lot)' = Cost(t, approved[t].quantity + Lot)
          /\ Cost(t, approved[t].quantity)' = Cost(t, approved[t].quantity)
      BY <1>1, <3>4 DEF Cost, Amount
    <3> QED
      BY <3>6, <3>7, <3>8
  <2>3. CASE t = s
    <3>1. After(t)' = {}
      BY <1>1, <1>5, <1>16, <2>1, <2>3, ApprovalOrder
    <3>2. Total(Effects', {}) = 0
      BY TotalEmpty
    <3>3. s \in Buys /\ v = CheckBuy(s)
      BY <1>3, <1>5, <1>13, <2>3
    <3>4. "available-cash" \in v.cut \/ v.reason = "INSUFFICIENT_CASH"
      BY <1>12, <2>3 DEF CutForCash
    <3>5. projected < Cost(s, v.quantity + Lot)
      BY <1>1, <3>3, <3>4, BuyProper DEF CashInv
    <3>6. PICK x, y : x = Cost(s, v.quantity) /\ y = Cost(s, v.quantity + Lot)
      OBVIOUS
    <3>7. x \in Nat /\ y \in Nat
      <4>1. v.quantity + Lot \in Nat
        BY <1>8, Units
      <4> QED
        BY <1>5, <1>8, <3>6, <4>1, CostType
    <3>8. projected' - 0 < y - x
      BY <1>5, <1>9, <1>10, <3>3, <3>5, <3>6, <3>7
    <3>9. Cost(t, approved[t].quantity + Lot)' = y /\ Cost(t, approved[t].quantity)' = x
      BY <1>1, <1>12, <2>3, <3>6 DEF Cost, Amount
    <3> QED
      BY <3>1, <3>2, <3>8, <3>9
  <2> QED
    BY <1>12, <2>2, <2>3
<1>24. DOMAIN approved' \subseteq DOMAIN orders' /\ filled' \subseteq DOMAIN orders'
       /\ \A t \in DOMAIN approved' :
            approved'[t] \in Verdict /\ approved'[t].reason # "TURNOVER_RULE"
            /\ "sellable-holdings" \notin approved'[t].cut
  BY <1>18 DEF ApprovalsInv, VerdictFits
<1> QED
  BY <1>14, <1>15, <1>18, <1>22, <1>23, <1>24 DEF DayInv
-------------------------------------------------------------------------------
(* Fills. *)

\* The order that is filled next: sales first, each side by symbol.
Foremost(s) ==
  /\ s \in DOMAIN orders \ filled
  /\ \A t \in DOMAIN orders \ filled :
       \/ t = s
       \/ s \in Sells /\ t \in Buys
       \/ ((s \in Sells) <=> (t \in Sells)) /\ s < t

LEMMA EffectsType ==
  ASSUME StateInv, OrdersInv, ApprovalsInv
  PROVE  /\ IsFiniteSet(DOMAIN approved)
         /\ \A t \in DOMAIN approved :
              /\ approved[t].quantity \in Nat /\ t \in Securities /\ t \in DOMAIN frame
              /\ Effects[t] = Effect(t, approved[t].quantity) /\ Effects[t] \in Int
              /\ t \in Buys => Effects[t] = - Cost(t, approved[t].quantity) /\ Effects[t] <= 0
<1>1. IsFiniteSet(DOMAIN approved)
  BY Sides, FS_Subset DEF ApprovalsInv
<1>2. ASSUME NEW t \in DOMAIN approved
      PROVE  /\ approved[t].quantity \in Nat /\ t \in Securities /\ t \in DOMAIN frame
             /\ Effects[t] = Effect(t, approved[t].quantity) /\ Effects[t] \in Int
             /\ t \in Buys => Effects[t] = - Cost(t, approved[t].quantity) /\ Effects[t] <= 0
  <2>1. approved[t].quantity \in Nat /\ t \in Securities /\ t \in DOMAIN frame /\ (t \in Buys <=> t \notin Sells)
    BY Sides DEF ApprovalsInv, VerdictFits, Verdict
  <2>2. PICK q : q = approved[t].quantity
    OBVIOUS
  <2>3. Cost(t, q) \in Nat /\ Proceeds(t, q) \in Int /\ Cost(t, 0) = 0
    BY <2>1, <2>2, CostType DEF StateInv
  <2>4. Effects[t] = Effect(t, q)
    BY <2>2 DEF Effects
  <2> QED
    BY <2>1, <2>2, <2>3, <2>4 DEF Effect
<1> QED
  BY <1>1, <1>2

\* The cash reaches for it and the shares are there.
LEMMA FillFits ==
  ASSUME DayInv, step = "Fill", NEW s, Foremost(s)
  PROVE  /\ s \in DOMAIN approved /\ cash + Effects[s] >= 0
         /\ approved[s].quantity <= orders[s].requested
         /\ s \in Sells => approved[s].quantity <= position[s].available
<1>1. StateInv /\ PositionsInv /\ OrdersInv /\ ApprovalsInv /\ CashInv /\ DOMAIN approved = DOMAIN orders /\ Trading
  BY DEF DayInv, Trading, ApprovalsInv
<1>2. /\ s \in DOMAIN approved /\ s \in DOMAIN orders /\ s \in Securities /\ s \in DOMAIN frame /\ s \notin filled /\ s \in Nat
      /\ (s \in Buys <=> s \notin Sells)
  BY <1>1, Sides DEF Foremost
<1>3. /\ IsFiniteSet(DOMAIN approved \ filled)
      /\ \A t \in DOMAIN approved : Effects[t] \in Int /\ (t \in Buys => Effects[t] <= 0)
  BY <1>1, EffectsType, FS_Subset
<1>4. cash \in Nat /\ projected \in Int
  BY <1>1 DEF StateInv
<1>5. CASE s \in Sells
  <2>1. SalesTo(s) = {s}
    <3>1. ASSUME NEW t \in Sells \ filled, t <= s PROVE t = s
      <4>1. t \in DOMAIN orders \ filled /\ t \in Nat /\ t \notin Buys
        BY <1>1, Sides
      <4> QED
        BY <1>2, <3>1, <4>1 DEF Foremost
    <3> QED
      BY <1>2, <1>5, <3>1 DEF SalesTo
  <2>2. Total(Effects, {s}) = Effects[s]
    <3>1. IsFiniteSet({}) /\ s \notin {} /\ {} \cup {s} = {s} /\ \A t \in {} \cup {s} : Effects[t] \in Int
      BY <1>2, <1>3, FS_EmptySet
    <3>2. Total(Effects, {} \cup {s}) = Effects[s] + Total(Effects, {})
      BY <3>1, TotalWith
    <3>3. Total(Effects, {}) = 0
      BY TotalEmpty
    <3> QED
      BY <1>2, <1>3, <3>1, <3>2, <3>3
  <2>3. cash + Total(Effects, SalesTo(s)) >= 0
    BY <1>1, <1>2, <1>5 DEF CashInv
  <2>4. orders[s].side = "SELL"
    BY <1>5 DEF Sells
  <2>5. approved[s].quantity <= orders[s].requested /\ orders[s].requested <= opened[s]
        /\ approved[s].quantity \in Nat /\ orders[s].requested \in Nat
    BY <1>1, <1>2, <2>4 DEF ApprovalsInv, VerdictFits, Verdict, OrdersInv, Fits
  <2>6. position[s].available = opened[s] /\ opened[s] \in Nat
    <3>1. position[s].available \in Nat /\ position[s].today \in Nat /\ position[s].total \in Nat /\ opened[s] \in Nat
      BY <1>1, <1>2 DEF PositionsInv, Positions
    <3>2. /\ position[s].total = opened[s] + 0 /\ position[s].today = 0
          /\ position[s].available + position[s].today = position[s].total
      BY <1>1, <1>2 DEF PositionsInv, Traded
    <3> QED
      BY <3>1, <3>2
  <2> QED
    BY <1>2, <2>1, <2>2, <2>3, <2>5, <2>6
<1>6. CASE s \in Buys
  <2>1. \A t \in DOMAIN approved \ filled : t \in Buys
    <3> TAKE t \in DOMAIN approved \ filled
    <3>1. t \in DOMAIN orders \ filled /\ (t \in Buys <=> t \notin Sells)
      BY <1>1, Sides
    <3> QED
      BY <1>2, <1>6, <3>1 DEF Foremost
  <2>2. PICK R : R = DOMAIN approved \ filled
    OBVIOUS
  <2>3. IsFiniteSet(R) /\ s \in R /\ \A t \in R : Effects[t] \in Int /\ Effects[t] <= 0
    BY <1>2, <1>3, <2>1, <2>2
  <2>4. Total(Effects, R) = Effects[s] + Total(Effects, R \ {s})
    BY <2>3, TotalWithout
  <2>5. IsFiniteSet(R \ {s})
    BY <2>3, FS_Subset
  <2>6. Total(Effects, R \ {s}) \in Int /\ Total(Effects, R \ {s}) <= 0
    <3> DEFINE zero == [t \in R \ {s} |-> 0]
    <3>1. \A t \in R \ {s} : Effects[t] \in Int /\ zero[t] \in Int /\ Effects[t] <= zero[t] /\ zero[t] = 0
      BY <2>3
    <3> HIDE DEF zero
    <3>2. Total(Effects, R \ {s}) <= Total(zero, R \ {s})
      BY <2>5, <3>1, TotalMonotone
    <3>3. Total(zero, R \ {s}) = 0
      BY <2>5, <3>1, TotalZero
    <3>4. Total(Effects, R \ {s}) \in Int
      BY <2>5, <3>1, TotalInt
    <3> QED
      BY <3>2, <3>3, <3>4
  <2>7. projected = cash + Total(Effects, R) /\ projected >= 0
    BY <1>1, <2>2 DEF CashInv
  <2>8. cash + Effects[s] >= 0
    BY <1>4, <2>3, <2>4, <2>6, <2>7
  <2>9. approved[s].quantity <= orders[s].requested
    BY <1>1, <1>2 DEF ApprovalsInv, VerdictFits
  <2> QED
    BY <1>2, <1>6, <2>8, <2>9
<1> QED
  BY <1>2, <1>5, <1>6

\* So the account takes the fill.
LEMMA FillDoes ==
  ASSUME DayInv, Fill
  PROVE  \E s : /\ step = "Fill" /\ Foremost(s) /\ filled' = filled \cup {s} /\ cash' = cash + Effects[s]
                /\ UNCHANGED <<day, frame, pending, orders, approved, projected, opened>>
                /\ step' = IF filled \cup {s} = DOMAIN orders THEN "Close" ELSE "Fill"
                /\ \/ approved[s].quantity = 0 /\ position' = position /\ Effects[s] = 0
                   \/ /\ approved[s].quantity # 0 /\ s \in Sells
                      /\ position' = [position EXCEPT ![s] = Sold(s, approved[s].quantity)]
                      /\ Effects[s] = Proceeds(s, approved[s].quantity)
                   \/ /\ approved[s].quantity # 0 /\ s \in Buys
                      /\ position' = [position EXCEPT ![s] = Bought(s, approved[s].quantity)]
                      /\ Effects[s] = - Cost(s, approved[s].quantity)
<1>1. PICK s \in DOMAIN orders \ filled :
        /\ step = "Fill" /\ Foremost(s) /\ filled' = filled \cup {s}
        /\ LET q == approved[s].quantity IN
           IF q = 0 THEN /\ step' = IF filled \cup {s} = DOMAIN orders THEN "Close" ELSE step
                         /\ UNCHANGED <<cash, position>>
           ELSE IF s \in Sells THEN Apply(s, q, cash + Proceeds(s, q), Sold(s, q))
           ELSE Apply(s, q, cash - Cost(s, q), Bought(s, q))
        /\ UNCHANGED <<day, frame, pending, orders, approved, projected, opened>>
  BY DEF Fill, Foremost
<1>2. /\ s \in DOMAIN approved /\ cash + Effects[s] >= 0
      /\ s \in Sells => approved[s].quantity <= position[s].available
  BY <1>1, FillFits
<1>3. StateInv /\ OrdersInv /\ ApprovalsInv
  BY <1>1 DEF DayInv, Trading
<1>4. PICK q, e : q = approved[s].quantity /\ e = Effects[s]
  OBVIOUS
<1>5. /\ q \in Nat /\ e \in Int /\ e = Effect(s, q) /\ cash \in Nat /\ s \in Securities /\ s \in DOMAIN frame
      /\ (s \in Buys <=> s \notin Sells)
  BY <1>2, <1>3, <1>4, EffectsType, Sides DEF StateInv
<1>6. Cost(s, q) \in Nat /\ Proceeds(s, q) \in Int
  BY <1>3, <1>5, CostType DEF StateInv
<1>7. CASE q = 0
  <2>1. e = 0
    BY <1>5, <1>7 DEF Effect
  <2>2. cash' = cash + e
    BY <1>1, <1>4, <1>5, <1>7, <2>1
  <2> QED
    BY <1>1, <1>4, <1>7, <2>1, <2>2
<1>8. CASE q # 0 /\ s \in Sells
  <2>1. e = Proceeds(s, q)
    BY <1>5, <1>8 DEF Effect
  <2>2. Apply(s, q, cash + Proceeds(s, q), Sold(s, q))
    BY <1>1, <1>4, <1>8
  <2>3. ~(cash + Proceeds(s, q) < 0) /\ ~(q > position[s].available)
    <3>1. position[s].available \in Nat
      BY <1>5 DEF DayInv, PositionsInv, Positions
    <3> QED
      BY <1>2, <1>4, <1>5, <1>6, <1>8, <2>1, <3>1
  <2>4. /\ cash' = cash + Proceeds(s, q) /\ position' = [position EXCEPT ![s] = Sold(s, q)]
        /\ step' = IF filled \cup {s} = DOMAIN orders THEN "Close" ELSE step
    BY <2>2, <2>3 DEF Apply
  <2> QED
    BY <1>1, <1>4, <1>8, <2>1, <2>4
<1>9. CASE q # 0 /\ s \notin Sells
  <2>1. e = - Cost(s, q)
    BY <1>5, <1>9 DEF Effect
  <2>2. Apply(s, q, cash - Cost(s, q), Bought(s, q))
    BY <1>1, <1>4, <1>9
  <2>3. cash - Cost(s, q) = cash + e /\ ~(cash - Cost(s, q) < 0)
    BY <1>2, <1>4, <1>5, <1>6, <2>1
  <2>4. /\ cash' = cash - Cost(s, q) /\ position' = [position EXCEPT ![s] = Bought(s, q)]
        /\ step' = IF filled \cup {s} = DOMAIN orders THEN "Close" ELSE step
    BY <1>9, <2>2, <2>3 DEF Apply
  <2> QED
    BY <1>1, <1>4, <1>5, <1>9, <2>1, <2>3, <2>4
<1> QED
  BY <1>7, <1>8, <1>9

LEMMA FillStep == DayInv /\ Fill => DayInv'
<1> SUFFICES ASSUME DayInv, Fill PROVE DayInv'
  OBVIOUS
<1>1. PICK s : /\ step = "Fill" /\ Foremost(s) /\ filled' = filled \cup {s} /\ cash' = cash + Effects[s]
               /\ UNCHANGED <<day, frame, pending, orders, approved, projected, opened>>
               /\ step' = IF filled \cup {s} = DOMAIN orders THEN "Close" ELSE "Fill"
               /\ \/ approved[s].quantity = 0 /\ position' = position /\ Effects[s] = 0
                  \/ /\ approved[s].quantity # 0 /\ s \in Sells
                     /\ position' = [position EXCEPT ![s] = Sold(s, approved[s].quantity)]
                     /\ Effects[s] = Proceeds(s, approved[s].quantity)
                  \/ /\ approved[s].quantity # 0 /\ s \in Buys
                     /\ position' = [position EXCEPT ![s] = Bought(s, approved[s].quantity)]
                     /\ Effects[s] = - Cost(s, approved[s].quantity)
  BY FillDoes
<1>2. /\ StateInv /\ PendingInv /\ PositionsInv /\ OrdersInv /\ HeldInv /\ ApprovalsInv /\ CashInv /\ CutsInv
      /\ Trading /\ DOMAIN approved = DOMAIN orders
  BY <1>1 DEF DayInv, Trading, ApprovalsInv
<1>3. /\ s \in DOMAIN approved /\ cash + Effects[s] >= 0
      /\ s \in Sells => approved[s].quantity <= position[s].available
  BY <1>1, FillFits
<1>4. /\ s \in DOMAIN orders /\ s \in Securities /\ s \in DOMAIN frame /\ s \notin filled /\ (s \in Buys <=> s \notin Sells)
  BY <1>1, <1>2, <1>3, Sides DEF Foremost
<1>5. /\ IsFiniteSet(DOMAIN approved) /\ \A t \in DOMAIN approved : Effects[t] \in Int
      /\ approved[s].quantity \in Nat
  BY <1>2, <1>3, EffectsType
<1>6. /\ Sells' = Sells /\ Buys' = Buys /\ Effects' = Effects
      /\ \A t, u : ApprovedBefore(t, u)' = ApprovedBefore(t, u)
      /\ \A t : VerdictFits(t)' = VerdictFits(t) /\ Fits(t)' = Fits(t)
  <2>1. Sells' = Sells /\ Buys' = Buys
    BY <1>1 DEF Sells, Buys
  <2>2. \A t, u : ApprovedBefore(t, u)' = ApprovedBefore(t, u)
    BY <1>1, <2>1 DEF ApprovedBefore
  <2>3. Effects' = Effects
    BY <1>1, <2>1 DEF Effects, Effect, Cost, Proceeds, Amount
  <2>4. \A t : Tradable(t)' = Tradable(t)
    BY <1>1 DEF Tradable
  <2>5. \A t : VerdictFits(t)' = VerdictFits(t)
    BY <1>1, <2>4 DEF VerdictFits
  <2>6. \A t : Fits(t)' = Fits(t)
    BY <1>1 DEF Fits, Worth
  <2> QED
    BY <2>1, <2>2, <2>3, <2>5, <2>6
<1>7. StateInv' /\ PendingInv' /\ OrdersInv' /\ HeldInv' /\ RaisesForData' /\ step' \in {"Fill", "Close"} /\ Trading'
  <2>1. cash' \in Nat
    BY <1>1, <1>2, <1>3, <1>5 DEF StateInv
  <2>2. StateInv'
    BY <1>1, <1>2, <2>1 DEF StateInv
  <2>3. PendingInv'
    BY <1>1, <1>2 DEF PendingInv
  <2>4. OrdersInv'
    BY <1>1, <1>2, <1>6 DEF OrdersInv
  <2>5. step' \in {"Fill", "Close"} /\ Trading'
    BY <1>1 DEF Trading
  <2>6. RaisesForData'
    BY <2>5 DEF RaisesForData
\* A fill changes the holding of an ETF that has a bar.
  <2>7. HeldInv'
    <3>1. Priced(position, frame)
      BY <1>2, <1>4 DEF HeldInv
    <3>2. \A t \in Securities \ {s} : position'[t] = position[t]
      BY <1>1, <1>2 DEF PositionsInv, Positions
    <3>3. Priced(position', frame)
      BY <1>4, <3>1, <3>2 DEF Priced
    <3> QED
      BY <1>1, <3>3 DEF HeldInv
  <2> QED
    BY <2>2, <2>3, <2>4, <2>5, <2>6, <2>7
<1>8. ApprovalsInv'
  <2>1. filled' \subseteq DOMAIN approved' /\ DOMAIN approved' = DOMAIN orders'
    BY <1>1, <1>2, <1>3 DEF ApprovalsInv
  <2>2. step' = "Close" => filled' = DOMAIN orders'
    BY <1>1
  <2>3. \A t \in DOMAIN approved' : VerdictFits(t)'
    BY <1>1, <1>2, <1>6 DEF ApprovalsInv
  <2> QED
    BY <1>7, <2>1, <2>2, <2>3 DEF ApprovalsInv
<1>9. PositionsInv'
  <2>1. PICK q, p : q = approved[s].quantity /\ p = position[s]
    OBVIOUS
  <2>2. /\ q \in Nat /\ InLots(q) /\ p \in [total : Nat, available : Nat, today : Nat]
        /\ p.available + p.today = p.total /\ (s \in T0 => p.today = 0) /\ InLots(p.total)
        /\ p.total = opened[s] /\ p.today = 0 /\ opened[s] \in Nat
    <3>1. q \in Nat /\ InLots(q)
      BY <1>2, <1>3, <1>5, <2>1 DEF ApprovalsInv, VerdictFits
    <3>2. /\ p \in [total : Nat, available : Nat, today : Nat] /\ opened[s] \in Nat
          /\ p.available + p.today = p.total /\ (s \in T0 => p.today = 0) /\ InLots(p.total)
          /\ p.total = opened[s] + Traded(s) /\ p.today = 0
      BY <1>2, <1>4, <2>1 DEF PositionsInv, Positions
    <3>3. Traded(s) = 0
      BY <1>4 DEF Traded
    <3> QED
      BY <3>1, <3>2, <3>3
  <2>3. \A t \in Securities : t # s => position'[t] = position[t] /\ Traded(t)' = Traded(t)
                                       /\ (t \in filled' <=> t \in filled)
    <3> TAKE t \in Securities
    <3> SUFFICES ASSUME t # s PROVE position'[t] = position[t] /\ Traded(t)' = Traded(t)
                                    /\ (t \in filled' <=> t \in filled)
      OBVIOUS
    <3>1. position'[t] = position[t]
      BY <1>1, <1>2 DEF PositionsInv, Positions
    <3>2. t \in filled' <=> t \in filled
      BY <1>1
    <3> QED
      BY <1>1, <1>6, <3>1, <3>2 DEF Traded
  <2>4. PICK h : h = position'[s]
    OBVIOUS
  <2>5. /\ h \in [total : Nat, available : Nat, today : Nat]
        /\ h.available + h.today = h.total /\ (s \in T0 => h.today = 0) /\ InLots(h.total)
        /\ h.total = opened[s] + Traded(s)'
    <3>1. Traded(s)' = IF s \in Sells THEN 0 - q ELSE q
      BY <1>1, <1>6, <2>1, <2>2 DEF Traded
    <3>2. s \in DOMAIN position
      BY <1>2, <1>4 DEF PositionsInv, Positions
    <3>3. CASE q = 0 /\ position' = position
      <4>1. h = p
        BY <2>1, <2>4, <3>3
      <4>2. Traded(s)' = 0
        <5>1. q = 0 /\ 0 - q = 0
          BY <3>3
        <5> QED
          BY <3>1, <5>1
      <4>3. p.total + 0 = p.total
        BY <2>2
      <4> QED
        BY <2>2, <4>1, <4>2, <4>3
    <3>4. CASE s \in Sells /\ position' = [position EXCEPT ![s] = Sold(s, q)]
      <4>1. h = [p EXCEPT !.total = @ - q, !.available = @ - q]
        BY <2>1, <2>4, <3>2, <3>4 DEF Sold
      <4>2. q <= p.available
        BY <1>3, <2>1, <3>4
      <4>3. p.available \in Nat /\ p.total \in Nat /\ p.today \in Nat
        BY <2>2
      <4>4. h.total = p.total - q /\ h.available = p.available - q /\ h.today = p.today
            /\ p.total - q \in Nat /\ p.available - q \in Nat
        BY <2>2, <4>1, <4>2, <4>3
      <4>5. h \in [total : Nat, available : Nat, today : Nat]
        BY <2>2, <4>1, <4>4
      <4>6. InLots(p.total - q)
        BY <2>2, <4>2, <4>3, WholeSum
      <4> QED
        BY <2>2, <3>1, <3>4, <4>3, <4>4, <4>5, <4>6
    <3>5. CASE s \notin Sells /\ position' = [position EXCEPT ![s] = Bought(s, q)]
      <4>1. h = IF s \in T0 THEN [p EXCEPT !.total = @ + q, !.available = @ + q]
                            ELSE [p EXCEPT !.total = @ + q, !.today = @ + q]
        BY <2>1, <2>4, <3>2, <3>5 DEF Bought
      <4>2. p.available \in Nat /\ p.total \in Nat /\ p.today \in Nat
        BY <2>2
      <4>3. h.total = p.total + q /\ h \in [total : Nat, available : Nat, today : Nat]
            /\ h.available + h.today = h.total /\ (s \in T0 => h.today = 0)
        <5>0. p.total + q \in Nat /\ p.available + q \in Nat /\ p.today + q \in Nat
          BY <2>2, <4>2
        <5>1. CASE s \in T0
          <6>1. /\ h.total = p.total + q /\ h.available = p.available + q /\ h.today = p.today
                /\ h \in [total : Nat, available : Nat, today : Nat]
            BY <2>2, <4>1, <5>0, <5>1
          <6> QED
            BY <2>2, <4>2, <5>1, <6>1
        <5>2. CASE s \notin T0
          <6>1. /\ h.total = p.total + q /\ h.available = p.available /\ h.today = p.today + q
                /\ h \in [total : Nat, available : Nat, today : Nat]
            BY <2>2, <4>1, <5>0, <5>2
          <6> QED
            BY <2>2, <4>2, <5>2, <6>1
        <5> QED
          BY <5>1, <5>2
      <4>4. InLots(p.total + q)
        BY <2>2, WholeSum
      <4> QED
        BY <2>2, <3>1, <3>5, <4>3, <4>4
    <3> QED
      BY <1>1, <1>4, <2>1, <3>3, <3>4, <3>5
  <2>6. position' \in Positions
    <3>1. DOMAIN position' = Securities /\ position' = [t \in Securities |-> position'[t]]
      BY <1>1, <1>2 DEF PositionsInv, Positions
    <3>2. \A t \in Securities : position'[t] \in [total : Nat, available : Nat, today : Nat]
      BY <1>2, <2>3, <2>4, <2>5 DEF PositionsInv, Positions
    <3> QED
      BY <3>1, <3>2 DEF Positions
  <2>7. s \in filled' /\ opened' = opened
    BY <1>1
  <2>8. ASSUME NEW t \in Securities
        PROVE  /\ position'[t].available + position'[t].today = position'[t].total
               /\ (t \in T0 => position'[t].today = 0) /\ InLots(position'[t].total)
               /\ position'[t].total = opened'[t] + Traded(t)'
               /\ t \notin filled' => position'[t].today = 0
    <3>1. CASE t = s
      BY <2>4, <2>5, <2>7, <3>1
    <3>2. CASE t # s
      BY <1>2, <2>3, <2>7, <3>2 DEF PositionsInv
    <3> QED
      BY <3>1, <3>2
  <2> QED
    BY <1>1, <1>2, <2>6, <2>7, <2>8 DEF PositionsInv
<1>10. CashInv'
  <2>1. PICK e, R : e = Effects[s] /\ R = DOMAIN approved \ filled
    OBVIOUS
  <2>2. IsFiniteSet(R) /\ s \in R /\ e \in Int /\ cash \in Nat /\ \A t \in R : Effects[t] \in Int
    BY <1>2, <1>3, <1>4, <1>5, <2>1, FS_Subset DEF StateInv
  <2>3. Total(Effects, R) = e + Total(Effects, R \ {s})
    BY <2>1, <2>2, TotalWithout
  <2>4. IsFiniteSet(R \ {s})
    BY <2>2, FS_Subset
  <2>5. Total(Effects, R \ {s}) \in Int
    BY <2>2, <2>4, TotalInt
  <2>6. projected = cash + Total(Effects, R) /\ projected >= 0
    BY <1>2, <2>1 DEF CashInv
  <2>7. DOMAIN approved' \ filled' = R \ {s}
    BY <1>1, <2>1
  <2>8. projected' = cash' + Total(Effects', DOMAIN approved' \ filled') /\ projected' >= 0
    <3>1. PICK x, y : x = Total(Effects, R) /\ y = Total(Effects, R \ {s})
      OBVIOUS
    <3>2. Total(Effects', DOMAIN approved' \ filled') = y
      BY <1>6, <2>7, <3>1
    <3>3. cash' = cash + e /\ projected' = projected
      BY <1>1, <2>1
    <3>4. x = e + y /\ y \in Int /\ projected = cash + x /\ projected >= 0
      BY <2>3, <2>5, <2>6, <3>1
    <3>5. projected' = cash' + y /\ projected' >= 0
      BY <2>2, <3>3, <3>4
    <3> QED
      BY <3>2, <3>5
  <2>9. ASSUME NEW t \in (DOMAIN approved' \ filled') \cap Sells' PROVE (cash + Total(Effects, SalesTo(t)) >= 0)'
    <3>1. t \in R /\ t # s /\ t \in Sells /\ t \in DOMAIN orders \ filled /\ t \notin Buys
      BY <1>2, <1>6, <2>1, <2>7, Sides
    <3>2. s \in Sells /\ s < t
      BY <1>1, <1>4, <3>1 DEF Foremost
    <3>3. s \in Nat /\ t \in Nat
      BY <1>2, <1>4, <3>1, Sides
    <3>4. s \in SalesTo(t) /\ SalesTo(t)' = SalesTo(t) \ {s}
      BY <1>1, <1>4, <1>6, <3>2, <3>3 DEF SalesTo
    <3>5. SalesTo(t) \subseteq R
      BY <1>2, <2>1, Sides DEF SalesTo
    <3>6. IsFiniteSet(SalesTo(t)) /\ IsFiniteSet(SalesTo(t) \ {s}) /\ \A u \in SalesTo(t) : Effects[u] \in Int
      BY <2>2, <3>5, FS_Subset
    <3>7. Total(Effects, SalesTo(t)) = e + Total(Effects, SalesTo(t) \ {s})
      BY <2>1, <3>4, <3>6, TotalWithout
    <3>8. Total(Effects, SalesTo(t) \ {s}) \in Int
      BY <3>6, TotalInt
    <3>9. cash + Total(Effects, SalesTo(t)) >= 0
      BY <1>2, <2>1, <3>1 DEF CashInv
    <3> QED
      BY <1>1, <1>6, <2>1, <2>2, <3>4, <3>7, <3>8, <3>9
  <2> QED
    BY <2>8, <2>9 DEF CashInv
<1>11. CutsInv'
  <2> SUFFICES ASSUME NEW t \in DOMAIN approved' \cap Buys', CutForCash(t)'
               PROVE  (projected - Total(Effects, After(t))
                        < Cost(t, approved[t].quantity + Lot) - Cost(t, approved[t].quantity))'
    BY DEF CutsInv
  <2>1. After(t)' = After(t)
    BY <1>1, <1>6 DEF After
  <2>2. CutForCash(t) /\ t \in DOMAIN approved \cap Buys
    BY <1>1, <1>6 DEF CutForCash
  <2>3. projected - Total(Effects, After(t)) < Cost(t, approved[t].quantity + Lot) - Cost(t, approved[t].quantity)
    BY <1>2, <2>2 DEF CutsInv
  <2>4. Cost(t, approved[t].quantity + Lot)' = Cost(t, approved[t].quantity + Lot)
        /\ Cost(t, approved[t].quantity)' = Cost(t, approved[t].quantity)
    BY <1>1 DEF Cost, Amount
  <2> QED
    BY <1>1, <1>6, <2>1, <2>3, <2>4
<1>12. DOMAIN approved' \subseteq DOMAIN orders' /\ filled' \subseteq DOMAIN orders'
       /\ \A t \in DOMAIN approved' :
            approved'[t] \in Verdict /\ approved'[t].reason # "TURNOVER_RULE"
            /\ "sellable-holdings" \notin approved'[t].cut
  BY <1>8 DEF ApprovalsInv, VerdictFits
<1> QED
  BY <1>7, <1>8, <1>9, <1>10, <1>11, <1>12 DEF DayInv

LEMMA CloseStep == DayInv /\ Close => DayInv'
<1> SUFFICES ASSUME DayInv, Close PROVE DayInv'
  OBVIOUS
<1>1. /\ step = "Close" /\ UNCHANGED <<cash, position, orders, approved, projected, filled, opened>>
      /\ \/ ~Priced(position, frame) /\ step' = "Failed" /\ UNCHANGED <<day, frame, pending>>
         \/ day = LastFrame /\ step' = "Done" /\ UNCHANGED <<day, frame, pending>>
         \/ day # LastFrame /\ day' = day + 1 /\ step' = "Open" /\ frame' \in FramesOn(day') /\ Decide
  BY DEF Close, batch
<1>2. StateInv /\ PendingInv /\ PositionsInv /\ ~Trading' /\ HeldInv
  BY <1>1 DEF DayInv, Trading
<1>3. StateInv'
  BY <1>1, <1>2, Units DEF StateInv
<1>4. PendingInv'
  <2>1. pending = NoTarget
    BY <1>1, <1>2 DEF PendingInv
  <2>2. CASE step' \in {"Done", "Failed"}
    BY <1>1, <2>1, <2>2 DEF PendingInv
  <2>3. CASE step' = "Open" /\ Decide
    BY <1>1, <2>3 DEF PendingInv, Decide
  <2> QED
    BY <1>1, <2>2, <2>3
<1>5. PositionsInv'
  BY <1>1, <1>2 DEF PositionsInv
\* A snapshot raises on a day without orders.
<1>6. RaisesForData'
  <2> SUFFICES ASSUME step' = "Failed" PROVE RaisesForData'
    BY DEF RaisesForData
  <2>1. ~Priced(position, frame) /\ UNCHANGED <<day, frame, pending>>
    BY <1>1
  <2>2. DOMAIN orders = {}
    BY <1>2, <2>1 DEF HeldInv
  <2>3. filled' = {}
    BY <1>1, <2>2 DEF DayInv
  <2>4. DOMAIN frame = ActiveOn(day)
    BY <1>2, FrameType DEF StateInv
  <2>5. \E s \in Securities \ ActiveOn(day) : position[s].total > 0
    BY <2>1, <2>4 DEF Priced
  <2> QED
    BY <1>1, <2>1, <2>3, <2>5 DEF RaisesForData
<1> QED
  BY <1>1, <1>2, <1>3, <1>4, <1>5, <1>6 DEF DayInv

LEMMA DayStays == DayInv /\ UNCHANGED dayVars => DayInv'
<1> SUFFICES ASSUME DayInv, UNCHANGED dayVars PROVE DayInv'
  OBVIOUS
<1>1. UNCHANGED <<day, step, frame, cash, position, pending, orders, approved, projected, filled, opened>>
  BY DEF dayVars, batch
<1>2. StateInv' /\ PendingInv' /\ RaisesForData' /\ (HeldInv' <=> HeldInv)
  <2>1. StateInv' /\ PendingInv'
    BY <1>1 DEF DayInv, StateInv, PendingInv
  <2>2. Named' = Named
    BY <1>1 DEF Named
  <2>3. RaisesForData'
    BY <1>1, <2>2 DEF DayInv, RaisesForData
  <2>4. HeldInv' <=> HeldInv
    BY <1>1 DEF HeldInv
  <2> QED
    BY <2>1, <2>3, <2>4
<1>3. Sells' = Sells /\ Buys' = Buys /\ (Trading' <=> Trading)
  BY <1>1 DEF Sells, Buys, Trading
<1>4. \A t : Traded(t)' = Traded(t)
  BY <1>1, <1>3 DEF Traded
<1>5. PositionsInv'
  BY <1>1, <1>3, <1>4 DEF DayInv, PositionsInv
<1>6. OrdersInv' <=> OrdersInv
  <2>1. \A t : Fits(t)' <=> Fits(t)
    BY <1>1 DEF Fits, Worth
  <2> QED
    BY <1>1, <2>1 DEF OrdersInv
<1>7. \A t, u : ApprovedBefore(t, u)' <=> ApprovedBefore(t, u)
  BY <1>1, <1>3 DEF ApprovedBefore
<1>8. ApprovalsInv' <=> ApprovalsInv
  <2>1. \A t : Tradable(t)' <=> Tradable(t)
    BY <1>1 DEF Tradable
  <2>2. \A t : VerdictFits(t)' <=> VerdictFits(t)
    BY <1>1, <2>1 DEF VerdictFits
  <2> QED
    BY <1>1, <1>7, <2>2 DEF ApprovalsInv
<1>9. Effects' = Effects /\ \A t, q : Cost(t, q)' = Cost(t, q)
  BY <1>1, <1>3 DEF Effects, Effect, Cost, Proceeds, Amount
<1>10. CashInv' <=> CashInv
  <2>1. \A t : SalesTo(t)' = SalesTo(t)
    BY <1>1, <1>3 DEF SalesTo
  <2> QED
    BY <1>1, <1>3, <1>9, <2>1 DEF CashInv
<1>11. CutsInv' <=> CutsInv
  <2>1. \A t : After(t)' = After(t) /\ (CutForCash(t)' <=> CutForCash(t))
    BY <1>1, <1>7 DEF After, CutForCash
  <2>2. \A t : /\ Cost(t, approved[t].quantity + Lot)' = Cost(t, approved[t].quantity + Lot)
               /\ Cost(t, approved[t].quantity)' = Cost(t, approved[t].quantity)
    BY <1>1 DEF Cost, Amount
  <2> QED
    BY <1>1, <1>3, <1>9, <2>1, <2>2 DEF CutsInv
<1> QED
  BY <1>1, <1>2, <1>3, <1>5, <1>6, <1>8, <1>10, <1>11 DEF DayInv

LEMMA DayInvariant == DaySpec => []DayInv
<1>1. DayInv /\ [DayNext]_dayVars => DayInv'
  <2> SUFFICES ASSUME DayInv, [DayNext]_dayVars PROVE DayInv'
    OBVIOUS
  <2>1. CASE Finished
    BY <2>1, DayStays DEF Finished
  <2> QED
    BY <2>1, OpenStep, ApproveStep, FillStep, CloseStep, DayStays DEF DayNext
<1> QED
  BY <1>1, DayStarts, PTL DEF DaySpec
-------------------------------------------------------------------------------
(* What follows. *)

\* A backtest raises only when an ETF that it holds or that its target names is outside
\* its life, or when an ordered close is outside its limits or slips to zero, and before
\* the first fill of that day (core/account.py:81-87, core/order_generator.py:57-60,
\* core/order.py:120-136).  On every other day the fills are within cash, shares, volume and
\* turnover rule, never refused by the account, and worth what was projected
\* (core/account.py:160-181, core/engine.py:304-316, core/etf_rules.py:174-371).
THEOREM FillsSafe == DaySpec => []FillsInv
<1>1. DayInv => FillsInv
  <2> SUFFICES ASSUME DayInv PROVE FillsInv
    OBVIOUS
  <2>1. StateInv /\ PendingInv /\ PositionsInv
    BY DEF DayInv
  <2>2. DayTypes
    <3>1. pending = NoTarget \/ pending \in [executionDay : 0 .. LastFrame, weights : Targets]
      BY <2>1 DEF PendingInv, StateInv
    <3> QED
      BY <2>1, <3>1 DEF DayInv, DayTypes, StateInv, PositionsInv, Positions
  <2>3. RaisesForData
    BY DEF DayInv
  <2>4. CashAsApproved
    <3> SUFFICES ASSUME step = "Close" PROVE cash = projected
      BY DEF CashAsApproved
    <3>1. CashInv /\ DOMAIN approved \ filled = {}
      BY DEF DayInv, Trading, ApprovalsInv
    <3>2. projected = cash + 0
      BY <3>1, TotalEmpty DEF CashInv
    <3> QED
      BY <2>1, <3>2 DEF StateInv
  <2>5. VolumeWithinCap
    <3> SUFFICES ASSUME step = "Close", NEW s \in Securities
                 PROVE  Greatest(position[s].total - opened[s], opened[s] - position[s].total) * RateUnit
                          <= IF s \in DOMAIN frame THEN frame[s].volume * ParticipationRate ELSE 0
      BY DEF VolumeWithinCap
    <3>1. ApprovalsInv /\ OrdersInv /\ Trading
      BY DEF DayInv, Trading
    <3>2. PICK p, o, n : /\ p = position[s].total /\ o = opened[s]
                         /\ n = IF s \in DOMAIN frame THEN frame[s].volume * ParticipationRate ELSE 0
      OBVIOUS
    <3>3. p \in Nat /\ o \in Nat /\ p = o + Traded(s) /\ n \in Nat
      <4>1. p \in Nat /\ o \in Nat /\ p = o + Traded(s)
        BY <2>1, <3>1, <3>2 DEF PositionsInv, Positions
      <4>2. n \in Nat
        BY <2>1, <3>2, BarType, Units DEF StateInv
      <4> QED
        BY <4>1, <4>2
    <3>4. CASE s \in filled
      <4>1. PICK q : q = approved[s].quantity
        OBVIOUS
      <4>2. q \in Nat /\ q * RateUnit <= n
        <5>1. s \in DOMAIN approved /\ s \in DOMAIN frame
          BY <3>1, <3>4, Sides DEF ApprovalsInv
        <5> QED
          BY <3>1, <3>2, <4>1, <5>1 DEF ApprovalsInv, VerdictFits, Verdict
      <4>3. p = o + q \/ p = o - q
        BY <3>3, <3>4, <4>1, <4>2 DEF Traded
      <4>4. Greatest(p - o, o - p) = q
        BY <3>3, <4>2, <4>3 DEF Greatest
      <4> QED
        BY <3>2, <4>2, <4>4
    <3>5. CASE s \notin filled
      <4>1. p = o
        BY <3>3, <3>5 DEF Traded
      <4>2. Greatest(p - o, o - p) = 0
        BY <3>3, <4>1 DEF Greatest
      <4> QED
        BY <3>2, <3>3, <4>2, Units
    <3> QED
      BY <3>4, <3>5
  <2>6. NeverHeldByT1
    BY DEF NeverHeldByT1, DayInv
  <2> QED
    BY <2>2, <2>3, <2>4, <2>5, <2>6 DEF FillsInv
<1> QED
  BY <1>1, DayInvariant, PTL

\* An order approved in full leaves less than a lot of the gap, no purchase exceeds it,
\* and of the purchases cut for cash none could have had one more lot even with the
\* money of those of a smaller gap (core/order_generator.py:39-104, core/etf_rules.py:211-371).
THEOREM SizesFollow == DaySpec => []SizesFollowTheTarget
<1>1. DayInv => SizesFollowTheTarget
  <2> SUFFICES ASSUME DayInv, step = "Close" PROVE SizesFollowTheTarget
    BY DEF SizesFollowTheTarget, WithinOneLot, LargestGapFirst
  <2>1. /\ StateInv /\ PositionsInv /\ OrdersInv /\ ApprovalsInv /\ CashInv /\ CutsInv /\ Trading
        /\ DOMAIN approved = DOMAIN orders /\ filled = DOMAIN orders
    BY DEF DayInv, Trading, ApprovalsInv
  <2>2. WithinOneLot
    <3> SUFFICES ASSUME NEW s \in DOMAIN orders
                 PROVE  LET lotValue == WeightUnit * frame[s].close * Lot
                            short == orders[s].gap - WeightUnit * frame[s].close * (position[s].total - opened[s])
                        IN  /\ s \in Buys => short >= 0
                            /\ approved[s].quantity = orders[s].requested => short \in 0 .. lotValue - 1
      BY DEF WithinOneLot
    <3>1. PICK v, g, r, q, p, o :
            /\ v = Worth(s) /\ g = orders[s].gap /\ r = orders[s].requested /\ q = approved[s].quantity
            /\ p = position[s].total /\ o = opened[s]
      OBVIOUS
    <3>2. /\ s \in Securities /\ s \in DOMAIN frame /\ v \in Nat /\ g \in Int /\ r \in Nat /\ q \in Nat /\ q <= r
          /\ p \in Nat /\ o \in Nat
      <4>1. s \in Securities /\ s \in DOMAIN frame /\ g \in Int /\ r \in Nat
        BY <2>1, <3>1 DEF OrdersInv, Fits
      <4>2. q \in Nat /\ q <= r
        BY <2>1, <3>1 DEF ApprovalsInv, VerdictFits, Verdict
      <4>3. v \in Nat
        BY <2>1, <3>1, <4>1, BarType, Units DEF Worth, StateInv
      <4>4. p \in Nat /\ o \in Nat
        BY <2>1, <3>1, <4>1 DEF PositionsInv, Positions
      <4> QED
        BY <4>1, <4>2, <4>3, <4>4
    <3>3. v * q \in Nat /\ v * r \in Nat /\ v * Lot \in Nat /\ v * q <= v * r
      BY <3>2, Units
    <3>4. p = o + (IF s \in Sells THEN 0 - q ELSE q)
      BY <2>1, <3>1, <3>2 DEF PositionsInv, Traded
    <3>5. PICK short : short = g - v * (p - o)
      OBVIOUS
    <3>6. CASE s \in Buys
      <4>1. orders[s].side = "BUY" /\ s \notin Sells
        BY <3>6 DEF Buys, Sells
      <4>2. 0 <= g - v * r /\ g - v * r < v * Lot
        BY <2>1, <3>1, <4>1 DEF OrdersInv, Fits
      <4>3. p - o = q
        BY <3>2, <3>4, <4>1
      <4>4. short = g - v * q
        BY <3>5, <4>3
      <4>5. short \in Int /\ short >= 0 /\ (q = r => short <= v * Lot - 1)
        BY <3>2, <3>3, <4>2, <4>4
      <4>6. q = r => short \in 0 .. v * Lot - 1
        BY <3>3, <4>5
      <4> QED
        BY <3>1, <3>5, <4>5, <4>6 DEF Worth
    <3>7. CASE s \notin Buys
      <4>1. orders[s].side = "SELL" /\ s \in Sells
        BY <2>1, <3>7, Sides DEF Sells
      <4>2. 0 <= g + v * r /\ g + v * r < v * Lot
        BY <2>1, <3>1, <4>1 DEF OrdersInv, Fits
      <4>3. p - o = 0 - q
        BY <3>2, <3>4, <4>1
      <4>4. v * (0 - q) = 0 - v * q
        BY <3>2
      <4>5. short = g + v * q
        BY <3>2, <3>3, <3>5, <4>3, <4>4
      <4>6. short \in Int /\ (q = r => short >= 0 /\ short <= v * Lot - 1)
        BY <3>2, <3>3, <4>2, <4>5
      <4>7. q = r => short \in 0 .. v * Lot - 1
        BY <3>3, <4>6
      <4> QED
        BY <3>1, <3>5, <3>7, <4>7 DEF Worth
    <3> QED
      BY <3>6, <3>7
  <2>3. LargestGapFirst
    <3> SUFFICES ASSUME NEW s \in Buys, CutForCash(s)
                 PROVE  LET q == approved[s].quantity
                            after == {t \in Buys : orders[t].gap < orders[s].gap}
                        IN cash + SumFunction([t \in after |-> Cost(t, approved[t].quantity)])
                             < Cost(s, q + Lot) - Cost(s, q)
      BY DEF LargestGapFirst, CutForCash
    <3> DEFINE smaller == {t \in Buys : orders[t].gap < orders[s].gap}
               costs == [t \in smaller |-> Cost(t, approved[t].quantity)]
    <3>1. s \in DOMAIN orders /\ s \in DOMAIN approved
      BY <2>1, Sides
    <3>2. smaller \subseteq After(s)
      <4> SUFFICES ASSUME NEW t \in Buys, orders[t].gap < orders[s].gap PROVE t \in After(s)
        OBVIOUS
      <4>1. t \in DOMAIN orders /\ s \in DOMAIN orders /\ orders[t].gap \in Int /\ orders[s].gap \in Int
        BY <2>1, <3>1, Sides
      <4>2. ApprovedBefore(s, t)
        BY <4>1 DEF ApprovedBefore
      <4> QED
        BY <2>1, <4>1, <4>2 DEF After
    <3>3. \A t \in After(s) : t \in Buys /\ t \in DOMAIN approved
      <4> TAKE t \in After(s)
      <4>1. t \in DOMAIN approved /\ ApprovedBefore(s, t)
        BY DEF After
      <4>2. s \notin Sells /\ t \in DOMAIN orders
        BY <2>1, <3>1, <4>1, Sides
      <4> QED
        BY <4>1, <4>2 DEF ApprovedBefore
    <3>4. \A t \in DOMAIN approved :
            /\ approved[t].quantity \in Nat /\ t \in Securities /\ t \in DOMAIN frame /\ Effects[t] \in Int
            /\ t \in Buys => Effects[t] = - Cost(t, approved[t].quantity) /\ Effects[t] <= 0
      BY <2>1, EffectsType
    <3>5. IsFiniteSet(After(s)) /\ IsFiniteSet(smaller)
      <4>1. IsFiniteSet(DOMAIN approved) /\ After(s) \subseteq DOMAIN approved
        BY <2>1, EffectsType DEF After
      <4> HIDE DEF smaller
      <4> QED
        BY <3>2, <4>1, FS_Subset
    <3> DEFINE owed == [t \in After(s) |-> Cost(t, approved[t].quantity)]
    <3>6. \A t \in After(s) : owed[t] \in Nat /\ Effects[t] = (-1) * owed[t] /\ owed[t] \in Int
      <4> TAKE t \in After(s)
      <4>1. /\ t \in Buys /\ approved[t].quantity \in Nat /\ t \in Securities /\ t \in DOMAIN frame
            /\ Effects[t] = - Cost(t, approved[t].quantity)
        BY <3>3, <3>4
      <4>2. PICK x : x = Cost(t, approved[t].quantity)
        OBVIOUS
      <4>3. x \in Nat
        BY <2>1, <4>1, <4>2, CostType DEF StateInv
      <4>4. owed[t] = x
        BY <4>2
      <4>5. Effects[t] = (-1) * x
        BY <4>1, <4>2, <4>3
      <4> QED
        BY <4>3, <4>4, <4>5
    <3>7. \A t \in smaller : costs[t] = owed[t]
      BY <3>2
    <3>8. DOMAIN costs = smaller
      OBVIOUS
    <3> HIDE DEF costs, owed, smaller
    <3>9. SumFunction(costs) = Total(owed, smaller)
      BY <3>5, <3>7, <3>8, SumIsTotal, TotalAgrees
    <3>10. Total(owed, smaller) \in Nat /\ Total(owed, smaller) <= Total(owed, After(s)) /\ Total(owed, After(s)) \in Nat
      BY <3>2, <3>5, <3>6, TotalPart
    <3>11. Total(Effects, After(s)) = (-1) * Total(owed, After(s))
      <4>1. PICK c \in Int : c = -1
        OBVIOUS
      <4>2. /\ IsFiniteSet(After(s))
            /\ \A t \in After(s) : owed[t] \in Int /\ Effects[t] = c * owed[t]
        BY <3>5, <3>6, <4>1
      <4>3. Total(Effects, After(s)) = c * Total(owed, After(s))
        BY <4>2, TotalScaled
      <4> QED
        BY <4>1, <4>3
    <3>12. projected - Total(Effects, After(s)) < Cost(s, approved[s].quantity + Lot) - Cost(s, approved[s].quantity)
      <4>1. CutsInv /\ s \in DOMAIN approved \cap Buys /\ CutForCash(s)
        BY <2>1, <3>1
      <4> QED
        BY <4>1 DEF CutsInv
    <3>13. cash = projected /\ cash \in Nat
      <4>1. projected = cash + 0
        <5>1. DOMAIN approved \ filled = {}
          BY <2>1
        <5> QED
          BY <2>1, <5>1, TotalEmpty DEF CashInv
      <4> QED
        BY <2>1, <4>1 DEF StateInv
    <3>14. cash + SumFunction(costs) < Cost(s, approved[s].quantity + Lot) - Cost(s, approved[s].quantity)
      <4>1. PICK x, y, z : /\ x = Total(owed, smaller) /\ y = Total(owed, After(s))
                           /\ z = Cost(s, approved[s].quantity + Lot) - Cost(s, approved[s].quantity)
        OBVIOUS
      <4>2. z \in Int
        <5>1. approved[s].quantity \in Nat /\ approved[s].quantity + Lot \in Nat /\ s \in Securities /\ s \in DOMAIN frame
          BY <3>1, <3>4, Units
        <5>2. Cost(s, approved[s].quantity + Lot) \in Nat /\ Cost(s, approved[s].quantity) \in Nat
          BY <2>1, <5>1, CostType DEF StateInv
        <5> QED
          BY <4>1, <5>2
      <4>3. cash - (-1) * y < z /\ x \in Nat /\ y \in Nat /\ x <= y
        BY <3>10, <3>11, <3>12, <3>13, <4>1
      <4>4. cash + x < z
        BY <3>13, <4>2, <4>3
      <4> QED
        BY <3>9, <4>1, <4>4
    <3> QED
      BY <3>14 DEF costs, smaller
  <2> QED
    BY <2>2, <2>3 DEF SizesFollowTheTarget
<1> QED
  BY <1>1, DayInvariant, PTL

\* No fill makes the account richer at the closes it trades against: slippage and
\* fees are on the side of the market (core/fill.py:83-116, core/fee.py:59-91).
THEOREM MarketIsPaid == DaySpec => TradingNeverPays
<1>1. ASSUME DayInv, [DayNext]_dayVars, step = "Fill"
      PROVE  Assets(cash', position', frame) <= Assets(cash, position, frame)
  <2>1. /\ StateInv /\ PositionsInv /\ OrdersInv /\ ApprovalsInv
    BY <1>1 DEF DayInv, Trading
  <2>2. /\ cash \in Nat /\ frame \in FramesOn(day)
        /\ \A t \in DOMAIN frame : t \in Securities /\ position[t].total \in Nat /\ frame[t].close \in Nat
        /\ IsFiniteSet(DOMAIN frame)
    BY <2>1, BarType, FrameType DEF StateInv, PositionsInv, Positions
  <2>3. CASE UNCHANGED dayVars
    <3>1. cash' = cash /\ position' = position
      BY <2>3 DEF dayVars
    <3>2. Assets(cash, position, frame) \in Nat
      BY <2>2, AssetsType
    <3> QED
      BY <3>1, <3>2
  <2>4. CASE Fill
    <3>1. PICK s : /\ Foremost(s) /\ cash' = cash + Effects[s]
                   /\ \/ approved[s].quantity = 0 /\ position' = position /\ Effects[s] = 0
                      \/ /\ approved[s].quantity # 0 /\ s \in Sells
                         /\ position' = [position EXCEPT ![s] = Sold(s, approved[s].quantity)]
                         /\ Effects[s] = Proceeds(s, approved[s].quantity)
                      \/ /\ approved[s].quantity # 0 /\ s \in Buys
                         /\ position' = [position EXCEPT ![s] = Bought(s, approved[s].quantity)]
                         /\ Effects[s] = - Cost(s, approved[s].quantity)
      BY <1>1, <2>4, FillDoes
    <3>2. /\ s \in DOMAIN approved /\ s \in Securities /\ s \in DOMAIN frame /\ (s \in Buys <=> s \notin Sells)
          /\ s \in DOMAIN orders
      BY <1>1, <2>1, <3>1, FillFits, EffectsType, Sides DEF Foremost
    <3>3. DayInv'
      BY <1>1, <2>4, FillStep
    <3>4. cash' \in Nat /\ position' \in Positions
      BY <3>3 DEF DayInv, StateInv, PositionsInv
    <3>5. \A t \in DOMAIN frame : position'[t].total \in Nat
      BY <2>2, <3>4 DEF Positions
    <3> DEFINE old == [t \in DOMAIN frame |-> position[t].total * frame[t].close]
               new == [t \in DOMAIN frame |-> position'[t].total * frame[t].close]
    <3>6. /\ Assets(cash, position, frame) = cash + Total(old, DOMAIN frame)
          /\ Assets(cash', position', frame) = cash' + Total(new, DOMAIN frame)
      BY <2>2, <3>4, <3>5, AssetsType
    <3>7. \A t \in DOMAIN frame : old[t] \in Nat /\ new[t] \in Nat /\ old[t] \in Int /\ new[t] \in Int
      BY <2>2, <3>5
    <3>8. \A t \in DOMAIN frame \ {s} : old[t] = new[t]
      <4>1. \A t \in DOMAIN frame \ {s} : position'[t] = position[t]
        BY <2>2, <2>1, <3>1, <3>2 DEF PositionsInv, Positions
      <4> QED
        BY <4>1
    <3>9. PICK c, q, p : c = frame[s].close /\ q = approved[s].quantity /\ p = position[s].total
      OBVIOUS
    <3>10. c \in Nat /\ q \in Nat /\ p \in Nat /\ Effects[s] \in Int
      BY <2>1, <2>2, <3>2, <3>9, EffectsType
    <3>11. cash' + new[s] <= cash + old[s]
      <4>1. old[s] = p * c /\ new[s] = position'[s].total * c
        BY <3>2, <3>9
      <4>2. s \in DOMAIN position
        BY <2>1, <3>2 DEF PositionsInv, Positions
      <4>3. Amount("BUY", s, q) \in Nat /\ Amount("SELL", s, q) \in Nat
            /\ Cost(s, q) >= Amount("BUY", s, q) /\ Proceeds(s, q) <= Amount("SELL", s, q)
            /\ Cost(s, q) \in Nat /\ Proceeds(s, q) \in Int
        BY <2>2, <3>2, <3>10, CostType
      <4>4. q > 0 => Tradable(s)
        BY <2>1, <3>2, <3>9 DEF ApprovalsInv, VerdictFits
      <4>5. q * c \in Nat
        BY <3>10
      <4>6. CASE q = 0 /\ position' = position /\ Effects[s] = 0
        <5>1. new[s] = old[s] /\ cash' = cash + 0
          BY <3>1, <3>2, <4>6
        <5> QED
          BY <2>2, <3>2, <3>7, <5>1
      <4>7. CASE /\ q # 0 /\ s \in Sells /\ position' = [position EXCEPT ![s] = Sold(s, q)]
                 /\ Effects[s] = Proceeds(s, q)
        <5>1. position'[s] = [position[s] EXCEPT !.total = @ - q, !.available = @ - q]
          BY <4>2, <4>7 DEF Sold
        <5>2. position'[s].total = p - q
          BY <2>1, <3>2, <3>9, <5>1 DEF PositionsInv, Positions
        <5>3. orders[s].side = "SELL" /\ Tradable(s)
          BY <3>10, <4>4, <4>7 DEF Sells
        <5>4. PICK f : f = FillPrice("SELL", frame[s])
          OBVIOUS
        <5>5. f <= c
          BY <3>9, <5>3, <5>4 DEF Tradable
        <5>6. f \in Nat
          BY <2>2, <3>2, <5>4, PriceType
        <5>7. f * q <= c * q /\ f * q \in Nat
          BY <3>10, <5>5, <5>6
        <5>8. Amount("SELL", s, q) = f * q
          BY <5>4 DEF Amount
        <5>9. PICK x, e : x = Proceeds(s, q) /\ e = Effects[s]
          OBVIOUS
        <5>10. x \in Int /\ x <= f * q /\ e = x
          BY <4>3, <4>7, <5>8, <5>9
        <5>11. c * q \in Nat /\ e <= c * q
          BY <3>10, <5>7, <5>10
        <5>12. (p - q) * c = p * c - c * q /\ p * c \in Nat
          BY <3>10
        <5> QED
          BY <2>2, <3>1, <3>10, <4>1, <5>2, <5>9, <5>10, <5>11, <5>12
      <4>8. CASE /\ q # 0 /\ s \in Buys /\ position' = [position EXCEPT ![s] = Bought(s, q)]
                 /\ Effects[s] = - Cost(s, q)
        <5>1. position'[s] = Bought(s, q)
          BY <4>2, <4>8
        <5>2. position'[s].total = p + q
          BY <2>1, <3>2, <3>9, <5>1 DEF PositionsInv, Positions, Bought
        <5>3. orders[s].side = "BUY" /\ Tradable(s)
          BY <3>10, <4>4, <4>8 DEF Buys
        <5>4. PICK f : f = FillPrice("BUY", frame[s])
          OBVIOUS
        <5>5. f >= c
          BY <3>9, <5>3, <5>4 DEF Tradable
        <5>6. f \in Nat
          BY <2>2, <3>2, <5>4, PriceType
        <5>7. f * q >= c * q /\ f * q \in Nat
          BY <3>10, <5>5, <5>6
        <5>8. Amount("BUY", s, q) = f * q
          BY <5>4 DEF Amount
        <5>9. PICK x, e : x = Cost(s, q) /\ e = Effects[s]
          OBVIOUS
        <5>10. x \in Nat /\ x >= f * q /\ e = 0 - x
          BY <4>3, <4>8, <5>8, <5>9
        <5>11. c * q \in Nat /\ e <= 0 - c * q
          BY <3>10, <5>7, <5>10
        <5>12. (p + q) * c = p * c + c * q /\ p * c \in Nat
          BY <3>10
        <5> QED
          BY <2>2, <3>1, <3>10, <4>1, <5>2, <5>9, <5>10, <5>11, <5>12
      <4> QED
        BY <3>1, <3>9, <4>6, <4>7, <4>8
    <3> HIDE DEF old, new
    <3>12. IsFiniteSet(DOMAIN frame) /\ IsFiniteSet(DOMAIN frame \ {s})
      BY <2>2, FS_Subset
    <3>13. /\ Total(old, DOMAIN frame) = old[s] + Total(old, DOMAIN frame \ {s})
           /\ Total(new, DOMAIN frame) = new[s] + Total(new, DOMAIN frame \ {s})
      BY <3>2, <3>7, <3>12, TotalWithout
    <3>14. /\ Total(old, DOMAIN frame \ {s}) = Total(new, DOMAIN frame \ {s})
           /\ Total(old, DOMAIN frame \ {s}) \in Int
      BY <3>7, <3>8, <3>12, TotalAgrees, TotalInt
    <3> QED
      BY <2>2, <3>2, <3>4, <3>6, <3>7, <3>11, <3>13, <3>14
  <2> QED
    BY <1>1, <2>3, <2>4 DEF DayNext, Open, Approve, Close, Finished
<1>2. DayInv /\ [DayNext]_dayVars => [FillNeverPays]_dayVars
  BY <1>1 DEF FillNeverPays
<1> QED
  BY <1>2, DayInvariant, PTL DEF DaySpec, TradingNeverPays
-----------------------------------------------------------------------------
(* What the example strategy knows. *)

LEMMA Parameters ==
  /\ IsFiniteSet(Etfs) /\ Anchor \in Etfs
  /\ Whole \in Nat /\ SmallMax \in Nat /\ BigMax \in Nat /\ Base \in Nat /\ BuyCap \in Nat /\ SellCap \in Nat
  /\ BigConfirm \in Nat \ {0} /\ BigDays \in Nat \ {0} /\ SmallDays \in Nat \ {0}
  /\ Prices \subseteq Nat \ {0} /\ Cash \in Nat /\ MaxDays \in Nat
  BY RuleAssumption

LEMMA PairMax ==
  ASSUME NEW x \in Int, NEW y \in Int
  PROVE  Max({x, y}) = IF x >= y THEN x ELSE y
<1>1. Max({x, y}) = CHOOSE z \in {x, y} : \A w \in {x, y} : z >= w
  BY DEF Max
<1>2. \E z \in {x, y} : \A w \in {x, y} : z >= w
  OBVIOUS
<1>3. Max({x, y}) \in {x, y} /\ \A w \in {x, y} : Max({x, y}) >= w
  BY <1>1, <1>2
<1> QED
  BY <1>3

LEMMA PairMin ==
  ASSUME NEW x \in Int, NEW y \in Int
  PROVE  Min({x, y}) = IF x <= y THEN x ELSE y
<1>1. Min({x, y}) = CHOOSE z \in {x, y} : \A w \in {x, y} : z <= w
  BY DEF Min
<1>2. \E z \in {x, y} : \A w \in {x, y} : z <= w
  OBVIOUS
<1>3. Min({x, y}) \in {x, y} /\ \A w \in {x, y} : Min({x, y}) <= w
  BY <1>1, <1>2
<1> QED
  BY <1>3

LEMMA TripleMin ==
  ASSUME NEW x \in Int, NEW y \in Int, NEW z \in Int
  PROVE  /\ Min({x, y, z}) \in {x, y, z}
         /\ Min({x, y, z}) <= x /\ Min({x, y, z}) <= y /\ Min({x, y, z}) <= z
<1>1. Min({x, y, z}) = CHOOSE v \in {x, y, z} : \A w \in {x, y, z} : v <= w
  BY DEF Min
<1>2. \E v \in {x, y, z} : \A w \in {x, y, z} : v <= w
  OBVIOUS
<1> QED
  BY <1>1, <1>2

LEMMA KnownCases == \A S : Known(S) <=> (S = {} \/ \E x \in Nat : S = {x})
<1> SUFFICES ASSUME NEW S PROVE Known(S) <=> (S = {} \/ \E x \in Nat : S = {x})
  OBVIOUS
<1>1. ASSUME Known(S), S # {} PROVE \E x \in Nat : S = {x}
  <2>1. PICK x : x \in S
    BY <1>1
  <2>2. x \in Nat /\ S = {x}
    BY <1>1, <2>1 DEF Known
  <2> QED
    BY <2>2
<1>2. ASSUME S = {} \/ \E x \in Nat : S = {x} PROVE Known(S)
  BY <1>2 DEF Known
<1> QED
  BY <1>1, <1>2

LEMMA KnownType ==
  ASSUME NEW S, Known(S)
  PROVE  IsFiniteSet(S) /\ S \subseteq Nat
<1>1. CASE S = {}
  BY <1>1, FS_EmptySet
<1>2. CASE \E x \in Nat : S = {x}
  BY <1>2, FS_Singleton
<1> QED
  BY <1>1, <1>2, KnownCases

LEMMA YminKnown ==
  ASSUME NEW m \in Markets, NEW s \in Etfs
  PROVE  Known(Ymin(m, s))
<1>1. PICK A, B : A = m.flow[s].share /\ B = Ratio[s]
  OBVIOUS
<1>2. Known(A) /\ Known(B)
  BY <1>1, MarketAssumption
<1> DEFINE least(x, r) == Max({0, x - (Whole - r)})
<1>3. Ymin(m, s) = {least(x, r) : x \in A, r \in B}
  BY <1>1 DEF Ymin
<1>4. CASE A = {} \/ B = {}
  <2> HIDE DEF least
  <2>1. Ymin(m, s) = {}
    BY <1>3, <1>4
  <2> QED
    BY <2>1, KnownCases
<1>5. CASE A # {} /\ B # {}
  <2>1. PICK x \in Nat, r \in Nat : A = {x} /\ B = {r}
    BY <1>2, <1>5, KnownCases
  <2>2. Ymin(m, s) = {Max({0, x - (Whole - r)})}
    BY <1>3, <2>1
  <2>3. x - (Whole - r) \in Int
    BY Parameters
  <2>4. Max({0, x - (Whole - r)}) \in Nat
    BY <2>3, PairMax
  <2> QED
    BY <2>2, <2>4, KnownCases
<1> QED
  BY <1>4, <1>5

LEMMA YminsType ==
  ASSUME NEW m \in Markets
  PROVE  Ymins(m) \in [Etfs -> Nat]
<1>1. ASSUME NEW s \in Etfs PROVE Max({0} \cup Ymin(m, s)) \in Nat
  <2>1. Known(Ymin(m, s))
    BY YminKnown
  <2>2. CASE Ymin(m, s) = {}
    <3>1. {0} \cup Ymin(m, s) = {0, 0}
      BY <2>2
    <3> QED
      BY <3>1, PairMax
  <2>3. CASE Ymin(m, s) # {}
    <3>1. PICK x \in Nat : Ymin(m, s) = {x}
      BY <2>1, <2>3, KnownCases
    <3>2. {0} \cup Ymin(m, s) = {0, x}
      BY <3>1
    <3> QED
      BY <3>2, PairMax
  <2> QED
    BY <2>2, <2>3
<1> QED
  BY <1>1 DEF Ymins

\* There is a k-th smallest estimate of n, for k up to n.
LEMMA RankedType ==
  ASSUME NEW m \in Markets, NEW known, known \subseteq Etfs, known # {},
         NEW k \in Int, k <= Cardinality(known)
  PROVE  Ranked(m, known, k) \in Nat
<1> DEFINE values == {Ymins(m)[s] : s \in known}
           below(x) == {s \in known : Ymins(m)[s] <= x}
           high == {x \in values : Cardinality(below(x)) >= k}
<1>1. IsFiniteSet(known)
  BY Parameters, FS_Subset
<1>2. IsFiniteSet(values)
  <2> DEFINE f == [s \in known |-> Ymins(m)[s]]
  <2>1. f \in Surjection(known, values)
    BY DEF Surjection
  <2> HIDE DEF f, values
  <2> QED
    BY <1>1, <2>1, FS_Surjection
<1>3. values \subseteq Nat /\ values # {}
  BY YminsType
<1>4. PICK x \in values : \A y \in values : x >= y
  <2> HIDE DEF values
  <2> QED
    BY <1>2, <1>3, FiniteMax
<1>5. below(x) = known
  <2>1. \A s \in known : Ymins(m)[s] <= x
    BY <1>3, <1>4
  <2> QED
    BY <2>1
<1>6. x \in high /\ high \subseteq values /\ high \subseteq Nat
  BY <1>3, <1>4, <1>5
<1>7. Ranked(m, known, k) = Min(high)
  BY DEF Ranked
<1> HIDE DEF values, high, below
<1>8. IsFiniteSet(high)
  BY <1>2, <1>6, FS_Subset
<1> QED
  BY <1>6, <1>7, <1>8, Extremes

LEMMA MedianKnown ==
  ASSUME NEW m \in Markets
  PROVE  Known(Median(m))
<1>1. PICK known : known = {s \in Etfs : Ymin(m, s) # {}}
  OBVIOUS
<1>2. PICK n : n = Cardinality(known)
  OBVIOUS
<1>3. known \subseteq Etfs /\ IsFiniteSet(known)
  BY <1>1, Parameters, FS_Subset
<1>4. CASE known = {}
  <2>1. Median(m) = {}
    BY <1>1, <1>4 DEF Median
  <2> QED
    BY <2>1, KnownCases
<1>5. CASE known # {}
  <2>1. n \in Nat \ {0}
    BY <1>2, <1>3, <1>5, FS_CardinalityType, FS_EmptySet
  <2>2. PICK j, k : j = (n + 1) \div 2 /\ k = n \div 2 + 1
    OBVIOUS
  <2>3. j \in Int /\ j <= n /\ k \in Int /\ k <= n
    BY <2>1, <2>2
  <2>4. PICK x, y : x = Ranked(m, known, j) /\ y = Ranked(m, known, k)
    OBVIOUS
  <2>5. x \in Nat /\ y \in Nat
    BY <1>2, <1>3, <1>5, <2>3, <2>4, RankedType
  <2>6. Median(m) = {(x + y) \div 2}
    BY <1>1, <1>2, <1>5, <2>2, <2>4 DEF Median
  <2>7. (x + y) \div 2 \in Nat
    BY <2>5, DivNat
  <2> QED
    BY <2>6, <2>7, KnownCases
<1> QED
  BY <1>4, <1>5

LEMMA AnchorKnown ==
  ASSUME NEW m \in Markets
  PROVE  Known(AnchorYmin(m))
  BY Parameters, YminKnown, MedianKnown DEF AnchorYmin

LEMMA StreakType ==
  ASSUME history \in Seq(Markets), NEW days, NEW most \in Nat
  PROVE  Streak(days, most) \in 0 .. most
<1>1. PICK n : n = Len(history)
  OBVIOUS
<1>2. n \in Nat
  BY <1>1
<1>3. Min({most, n}) \in 0 .. most
  BY <1>2, PairMin
<1> DEFINE lengths == {k \in 0 .. Min({most, n}) : n - k + 1 .. n \subseteq days}
<1>4. 0 \in lengths
  <2>1. n - 0 + 1 .. n = {}
    BY <1>2
  <2> QED
    BY <1>3, <2>1
<1>5. lengths \subseteq 0 .. most /\ lengths \subseteq Nat
  BY <1>3
<1>6. Streak(days, most) = Max(lengths)
  BY <1>1 DEF Streak
<1> HIDE DEF lengths
<1>7. IsFiniteSet(lengths)
  <2>1. IsFiniteSet(0 .. most)
    BY FS_Interval
  <2> QED
    BY <1>5, <2>1, FS_Subset
<1> QED
  BY <1>4, <1>5, <1>6, <1>7, Extremes

-----------------------------------------------------------------------------
(* What it asks for. *)

RuleState ==
  /\ history \in Seq(Markets) /\ funds \in Nat
  /\ holding \in [Etfs -> Nat] /\ quote \in [Etfs -> Prices]

LEMMA ValueType ==
  ASSUME RuleState
  PROVE  /\ Value \in [Etfs -> Nat] /\ SumFunction(Value) = Total(Value, Etfs)
         /\ SumFunction(Value) \in Nat /\ Asset \in Nat /\ SumFunction(Value) <= Asset
<1>1. Value \in [Etfs -> Nat]
  <2>1. \A s \in Etfs : holding[s] \in Nat /\ quote[s] \in Nat
    BY Parameters DEF RuleState
  <2>2. \A s \in Etfs : holding[s] * quote[s] \in Nat
    BY <2>1
  <2> QED
    BY <2>2 DEF Value
<1>2. SumFunction(Value) = Total(Value, Etfs) /\ Total(Value, Etfs) \in Nat
  BY <1>1, Parameters, SumIsTotal, TotalPart
<1> QED
  BY <1>1, <1>2 DEF Asset, RuleState

\* What is asked for is a target portfolio.
Target(d) ==
  /\ d.kind \in {"none", "buy", "reduce"} /\ d.stage \in 0 .. Max({SmallDays, BigDays})
  /\ d.target \in [Etfs -> Nat] /\ d.den \in Nat \ {0}
  /\ SumFunction(d.target) <= d.den

LEMMA NothingType == Target(Nothing)
<1>1. Nothing.target \in [Etfs -> Nat] /\ Nothing.den = 1 /\ Nothing.kind = "none" /\ Nothing.stage = 0
  BY DEF Nothing
<1>2. SumFunction(Nothing.target) = Total(Nothing.target, Etfs)
  BY <1>1, Parameters, SumIsTotal
<1>3. \A s \in Etfs : Nothing.target[s] = 0
  BY DEF Nothing
<1>4. Total(Nothing.target, Etfs) = 0
  BY <1>3, Parameters, TotalZero
<1>5. Max({SmallDays, BigDays}) \in Nat
  BY Parameters, PairMax
<1> QED
  BY <1>1, <1>2, <1>4, <1>5 DEF Target

\* The bounds of a purchase: no weight is lowered, the daily cap, the stage's part.
Purchase(d, limit, turn, days) ==
  LET bought == SumFunction(d.target) * Asset - SumFunction(Value) * d.den
  IN  /\ \A s \in Etfs : d.target[s] * Asset >= Value[s] * d.den
      /\ bought > 0 /\ bought * Whole <= BuyCap * Asset * d.den
      /\ SumFunction(d.target) * Whole * days <= limit * turn * d.den

\* A quotient r of the asset A, in parts of n = W * D * r * A: h is held, x may be
\* bought at the scale k, of the gaps G.
LEMMA PurchaseSums ==
  ASSUME NEW W \in Nat, NEW D \in Nat, NEW r \in Nat, NEW A \in Nat, NEW V \in Nat, NEW G \in Nat \ {0},
         NEW f \in Nat, NEW u \in Nat, NEW v \in Nat, v <= u, NEW c \in Nat, NEW k \in Nat \ {0}, NEW limit \in Nat, f <= limit,
         V * W * D * r + k <= f * v * r * A, V * W * D * r + k <= W * D * r * A, k <= c * D * r * A,
         NEW total, total = (V * W * D * r) * G + G * k, NEW den, den = W * D * r * A * G
  PROVE  /\ total \in Nat /\ den \in Nat \ {0} /\ total <= den
         /\ total * A - V * den > 0 /\ (total * A - V * den) * W <= c * A * den
         /\ total * W * D <= limit * u * den
<1>1. PICK h, n : h = V * W * D * r /\ n = W * D * r * A
  OBVIOUS
<1>2. h \in Nat /\ n \in Nat /\ h + k <= n /\ total = h * G + G * k /\ den = n * G
  BY <1>1
<1>3. total = G * (h + k) /\ total \in Nat
  BY <1>2
<1>4. den \in Nat \ {0}
  BY <1>2
<1>5. total <= den
  <2>1. PICK z \in Nat : n = (h + k) + z
    BY <1>2
  <2>2. den = G * (h + k) + z * G /\ z * G \in Nat
    BY <1>2, <2>1
  <2> QED
    BY <1>3, <2>2
<1>6. A > 0 /\ W > 0 /\ D > 0 /\ r > 0
  BY <1>1, <1>2
<1>7. V * den = G * h * A
  BY <1>1, <1>2
<1>8. total * A = G * h * A + G * k * A
  BY <1>2, <1>3
<1>9. total * A - V * den = G * k * A
  BY <1>2, <1>7, <1>8
<1>10. G * k * A > 0
  BY <1>6
<1>11. (G * k * A) * W <= c * A * den
  <2>1. PICK q : q = c * D * r * A
    OBVIOUS
  <2>2. q \in Nat /\ k <= q
    BY <2>1
  <2>3. c * A * den = (G * A * W) * q
    BY <1>1, <1>2, <2>1
  <2>4. (G * k * A) * W = (G * A * W) * k
    OBVIOUS
  <2>5. (G * A * W) \in Nat
    OBVIOUS
  <2> QED
    BY <2>2, <2>3, <2>4, <2>5
<1>12. total * W * D <= limit * u * den
  <2>1. PICK q : q = f * v * r * A
    OBVIOUS
  <2>2. q \in Nat /\ h + k <= q
    BY <1>1, <2>1
  <2>3. f * v <= limit * u
    OBVIOUS
  <2>4. PICK e, g : e = f * v /\ g = limit * u
    OBVIOUS
  <2>5. e \in Nat /\ g \in Nat /\ e <= g /\ q = e * (r * A)
    BY <2>1, <2>3, <2>4
  <2>6. q <= g * (r * A)
    BY <2>5
  <2>7. total * W * D = (G * W * D) * (h + k)
    BY <1>2, <1>3
  <2>8. limit * u * den = (G * W * D) * (g * (r * A))
    BY <1>1, <1>2, <2>4
  <2>9. (G * W * D) \in Nat /\ g * (r * A) \in Nat /\ h + k <= g * (r * A)
    BY <1>2, <2>2, <2>5, <2>6
  <2> QED
    BY <1>2, <2>7, <2>8, <2>9
<1> QED
  BY <1>3, <1>4, <1>5, <1>9, <1>10, <1>11, <1>12


LEMMA TodayType == RuleState /\ history # <<>> => Today \in Markets
<1> SUFFICES ASSUME RuleState, history # <<>> PROVE Today \in Markets
  OBVIOUS
<1>1. history \in Seq(Markets) /\ Len(history) \in 1 .. Len(history)
  BY DEF RuleState
<1>2. history[Len(history)] \in Markets
  BY <1>1
<1> QED
  BY <1>2 DEF Today, Last

LEMMA CapacityType ==
  ASSUME NEW due \in Int, NEW h \in Int, NEW whole \in Int, NEW cap \in Nat
  PROVE  LET room == Capacity(due, h, whole, cap)
         IN  room \in Nat /\ (room # 0 => h + room <= due /\ h + room <= whole /\ room <= cap)
<1>1. PICK x, y : x = Max({0, due - h}) /\ y = Max({0, whole - h})
  OBVIOUS
<1>2. x = (IF 0 >= due - h THEN 0 ELSE due - h) /\ y = (IF 0 >= whole - h THEN 0 ELSE whole - h)
  BY <1>1, PairMax
<1>3. x \in Nat /\ y \in Nat
  BY <1>2
<1>4. Capacity(due, h, whole, cap) = Min({x, y, cap})
  BY <1>1 DEF Capacity
<1>5. PICK room : room = Min({x, y, cap})
  OBVIOUS
<1>6. room \in {x, y, cap} /\ room <= x /\ room <= y /\ room <= cap
  <2>1. x \in Int /\ y \in Int /\ cap \in Int
    BY <1>3
  <2>2. /\ Min({x, y, cap}) \in {x, y, cap}
        /\ Min({x, y, cap}) <= x /\ Min({x, y, cap}) <= y /\ Min({x, y, cap}) <= cap
    BY <2>1, TripleMin
  <2> QED
    BY <1>5, <2>2
<1>7. room \in Nat
  BY <1>3, <1>6
<1>8. room # 0 => h + room <= due /\ h + room <= whole
  BY <1>2, <1>3, <1>6, <1>7
<1> QED
  BY <1>4, <1>5, <1>6, <1>7, <1>8

\* What limits a purchase at all.
Limit(most, floor) ==
  Min({most, Max(AnchorYmin(Today) \cup (IF floor THEN Median(Today) ELSE {}))})

LEMMA BuyType ==
  ASSUME RuleState, history # <<>>, NEW most \in Nat, NEW turn \in 0 .. Max({SmallDays, BigDays}),
         NEW days \in Nat \ {0}, NEW floor
  PROVE  LET d == BuyTargets(most, turn, days, floor)
         IN  /\ Target(d)
             /\ \/ d = Nothing
                \/ d.kind = "buy" /\ d.stage = turn /\ Purchase(d, Limit(most, floor), turn, days)
<1> DEFINE anchor == AnchorYmin(Today)
           known == anchor \cup (IF floor THEN Median(Today) ELSE {})
           cap == Max({0} \cup anchor \cup (IF floor THEN Median(Today) ELSE {}))
           raw == SumFunction(Ymins(Today))
           full == Min({raw, most, cap})
           held == [s \in Etfs |-> Value[s] * Whole * days * raw]
           gap == [s \in Etfs |-> Max({0, full * Min({turn, days}) * Ymins(Today)[s] * Asset - held[s]})]
           room == Capacity(full * Min({turn, days}) * raw * Asset, SumFunction(held),
                            Whole * days * raw * Asset, BuyCap * days * raw * Asset)
           scale == Min({room, SumFunction(gap)})
           weights == [s \in Etfs |-> held[s] * SumFunction(gap) + gap[s] * scale]
           d == [kind |-> "buy", stage |-> turn, target |-> weights,
                 den |-> Whole * days * raw * Asset * SumFunction(gap)]
<1>1. BuyTargets(most, turn, days, floor) =
        IF anchor = {} \/ full = 0 \/ room = 0 \/ SumFunction(gap) = 0 THEN Nothing ELSE d
  BY DEF BuyTargets
<1>2. SUFFICES ASSUME anchor # {}, full # 0, room # 0, SumFunction(gap) # 0
               PROVE  Target(d) /\ Purchase(d, Limit(most, floor), turn, days)
  <2> HIDE DEF anchor, known, cap, raw, full, held, gap, room, scale, weights
  <2> QED
    BY <1>1, NothingType
<1>3. Today \in Markets
  BY TodayType
<1>4. Max({SmallDays, BigDays}) \in Nat /\ turn \in Nat
  BY Parameters, PairMax
<1>5. /\ Value \in [Etfs -> Nat] /\ SumFunction(Value) = Total(Value, Etfs)
      /\ SumFunction(Value) \in Nat /\ Asset \in Nat
  BY ValueType
<1>6. raw = Total(Ymins(Today), Etfs) /\ raw \in Nat /\ Ymins(Today) \in [Etfs -> Nat]
  <2>1. Ymins(Today) \in [Etfs -> Nat]
    BY <1>3, YminsType
  <2> QED
    BY <2>1, Parameters, SumIsTotal, TotalPart
<1>7. /\ IsFiniteSet(known) /\ known \subseteq Nat /\ known # {}
      /\ IsFiniteSet({0} \cup known) /\ {0} \cup known \subseteq Nat
  <2>1. IsFiniteSet(anchor) /\ anchor \subseteq Nat
    BY <1>3, AnchorKnown, KnownType
  <2>2. IsFiniteSet(Median(Today)) /\ Median(Today) \subseteq Nat
    BY <1>3, MedianKnown, KnownType
  <2>3. IsFiniteSet({}) /\ IsFiniteSet({0})
    BY FS_EmptySet, FS_Singleton
  <2>4. PICK M : M = IF floor THEN Median(Today) ELSE {}
    OBVIOUS
  <2>5. IsFiniteSet(M) /\ M \subseteq Nat /\ known = anchor \cup M
    BY <2>2, <2>3, <2>4
  <2> HIDE DEF anchor, known
  <2>6. IsFiniteSet(known) /\ known \subseteq Nat /\ known # {}
    BY <1>2, <2>1, <2>5, FS_Union
  <2>7. IsFiniteSet({0} \cup known)
    BY <2>3, <2>6, FS_Union
  <2>8. {0} \cup known \subseteq Nat
    BY <2>6
  <2> QED
    BY <2>6, <2>7, <2>8
<1>8. cap \in Nat /\ cap <= Max(known) /\ Max(known) \in Nat
  <2>1. cap = Max({0} \cup known)
    <3>1. {0} \cup anchor \cup (IF floor THEN Median(Today) ELSE {}) = {0} \cup known
      OBVIOUS
    <3> QED
      BY <3>1
  <2> HIDE DEF cap, known
  <2>2. Max({0} \cup known) \in {0} \cup known /\ Max(known) \in known /\ \A y \in known : y <= Max(known)
    BY <1>7, Extremes
  <2>3. PICK x, y : x = Max({0} \cup known) /\ y = Max(known)
    OBVIOUS
  <2>4. x \in {0} \cup known /\ y \in Nat /\ \A z \in known : z <= y
    BY <1>7, <2>2, <2>3
  <2>5. x \in Nat /\ x <= y
    BY <1>7, <2>4
  <2> QED
    BY <2>1, <2>3, <2>4, <2>5
<1>9. full \in Nat /\ full <= Limit(most, floor) /\ Limit(most, floor) \in Nat
  <2>1. Limit(most, floor) = Min({most, Max(known)})
    BY DEF Limit
  <2> HIDE DEF cap, known, raw
  <2>2. full \in {raw, most, cap} /\ full <= most /\ full <= cap
    <3>1. raw \in Int /\ most \in Int /\ cap \in Int
      BY <1>6, <1>8
    <3> QED
      BY <3>1, TripleMin
  <2>3. Min({most, Max(known)}) = IF most <= Max(known) THEN most ELSE Max(known)
    BY <1>8, PairMin
  <2> HIDE DEF full
  <2> QED
    BY <1>6, <1>8, <2>1, <2>2, <2>3
<1>10. Min({turn, days}) \in Nat /\ Min({turn, days}) <= turn
  BY <1>4, PairMin
<1> HIDE DEF cap, known, raw, full
<1>11. PICK W, D, r, A, V, f, u : /\ W = Whole /\ D = days /\ r = raw /\ A = Asset /\ V = SumFunction(Value)
                                  /\ f = full /\ u = Min({turn, days})
  OBVIOUS
<1>12. W \in Nat /\ D \in Nat /\ r \in Nat /\ A \in Nat /\ V \in Nat /\ f \in Nat /\ u \in Nat /\ u <= turn
  BY <1>5, <1>6, <1>9, <1>10, <1>11, Parameters
<1>13. /\ \A s \in Etfs : held[s] = Value[s] * W * D * r /\ held[s] \in Nat
       /\ SumFunction(held) = V * W * D * r /\ SumFunction(held) = Total(held, Etfs)
  <2>1. \A s \in Etfs : Value[s] \in Nat /\ held[s] = Value[s] * W * D * r
    BY <1>5, <1>11
  <2>2. \A s \in Etfs : Value[s] * W * D * r \in Nat
    BY <1>12, <2>1
  <2>3. \A s \in Etfs : Value[s] * W * D * r = (W * D * r) * Value[s]
    BY <1>12, <2>1
  <2>4. DOMAIN held = Etfs /\ W * D * r \in Int
    BY <1>12
  <2> HIDE DEF held
  <2>5. SumFunction(held) = Total(held, Etfs)
    BY <2>4, Parameters, SumIsTotal
  <2>6. Total(held, Etfs) = (W * D * r) * Total(Value, Etfs)
    <3>1. \A s \in Etfs : Value[s] \in Int /\ held[s] = (W * D * r) * Value[s]
      BY <2>1, <2>3
    <3> QED
      BY <2>4, <3>1, Parameters, TotalScaled
  <2>7. (W * D * r) * V = V * W * D * r
    BY <1>12
  <2> QED
    BY <1>5, <1>11, <2>1, <2>2, <2>5, <2>6, <2>7
<1>14. \A s \in Etfs : gap[s] \in Nat
  <2> SUFFICES ASSUME NEW s \in Etfs PROVE gap[s] \in Nat
    OBVIOUS
  <2>1. PICK x : x = full * Min({turn, days}) * Ymins(Today)[s] * Asset - held[s]
    OBVIOUS
  <2>2. Ymins(Today)[s] \in Nat
    BY <1>6
  <2> HIDE DEF held
  <2>3. x \in Int
    BY <1>5, <1>9, <1>10, <1>13, <2>1, <2>2
  <2>4. gap[s] = Max({0, x})
    BY <2>1
  <2> QED
    BY <2>3, <2>4, PairMax
<1>15. SumFunction(gap) = Total(gap, Etfs) /\ SumFunction(gap) \in Nat \ {0}
  <2>1. DOMAIN gap = Etfs
    OBVIOUS
  <2> HIDE DEF gap
  <2> QED
    BY <1>2, <1>14, <2>1, Parameters, SumIsTotal, TotalPart
<1> HIDE DEF held, gap
<1>16. /\ room \in Nat \ {0} /\ V * W * D * r + room <= f * u * r * A
       /\ V * W * D * r + room <= W * D * r * A /\ room <= BuyCap * D * r * A
  <2>1. /\ f * u * r * A \in Int /\ V * W * D * r \in Int /\ W * D * r * A \in Int
        /\ BuyCap * D * r * A \in Nat
    BY <1>12, Parameters
  <2>2. room = Capacity(f * u * r * A, V * W * D * r, W * D * r * A, BuyCap * D * r * A)
    BY <1>11, <1>13
  <2> HIDE DEF room
  <2> QED
    BY <1>2, <2>1, <2>2, CapacityType
<1> HIDE DEF room
<1>17. PICK G, k : G = SumFunction(gap) /\ k = scale
  OBVIOUS
<1>18. G \in Nat \ {0} /\ k \in Nat \ {0} /\ k <= room
  BY <1>15, <1>16, <1>17, PairMin
<1>19. /\ V * W * D * r + k <= f * u * r * A /\ V * W * D * r + k <= W * D * r * A
       /\ k <= BuyCap * D * r * A
  <2>1. /\ V * W * D * r \in Nat /\ f * u * r * A \in Nat /\ W * D * r * A \in Nat
        /\ BuyCap * D * r * A \in Nat
    BY <1>12, Parameters
  <2>2. PICK p, q, t, w : p = V * W * D * r /\ q = f * u * r * A /\ t = W * D * r * A /\ w = BuyCap * D * r * A
    OBVIOUS
  <2>3. p + room <= q /\ p + room <= t /\ room <= w /\ p \in Nat /\ q \in Nat /\ t \in Nat /\ w \in Nat
    BY <1>16, <2>1, <2>2
  <2>4. p + k <= q /\ p + k <= t /\ k <= w
    BY <1>16, <1>18, <2>3
  <2> QED
    BY <2>2, <2>4
<1>20. \A s \in Etfs : weights[s] = held[s] * G + gap[s] * k /\ weights[s] \in Nat
  BY <1>13, <1>14, <1>17, <1>18
<1>21. SumFunction(weights) = (V * W * D * r) * G + G * k
  <2>1. DOMAIN weights = Etfs
    OBVIOUS
  <2> HIDE DEF weights
  <2>2. SumFunction(weights) = Total(weights, Etfs)
    BY <2>1, Parameters, SumIsTotal
  <2> DEFINE x == [s \in Etfs |-> G * held[s]]
             y == [s \in Etfs |-> k * gap[s]]
  <2>3. \A s \in Etfs : x[s] = G * held[s] /\ y[s] = k * gap[s] /\ x[s] \in Int /\ y[s] \in Int
    BY <1>13, <1>14, <1>18
  <2>4. \A s \in Etfs : weights[s] = x[s] + y[s]
    BY <1>13, <1>14, <1>18, <1>20
  <2> HIDE DEF x, y
  <2>5. Total(weights, Etfs) = Total(x, Etfs) + Total(y, Etfs)
    BY <2>3, <2>4, Parameters, TotalSum
  <2>6. Total(x, Etfs) = G * Total(held, Etfs) /\ Total(y, Etfs) = k * Total(gap, Etfs)
    <3>1. \A s \in Etfs : held[s] \in Int /\ gap[s] \in Int
      BY <1>13, <1>14
    <3> QED
      BY <1>18, <2>3, <3>1, Parameters, TotalScaled
  <2>7. V * W * D * r \in Nat
    BY <1>12
  <2> QED
    BY <1>13, <1>15, <1>17, <1>18, <2>2, <2>5, <2>6, <2>7
<1>22. d.den = W * D * r * A * G /\ d.target = weights /\ d.kind = "buy" /\ d.stage = turn
  BY <1>11, <1>17
<1>23. weights \in [Etfs -> Nat]
  BY <1>20
<1> HIDE DEF d, weights, scale, anchor
<1>24. PICK total, den, limit : total = SumFunction(d.target) /\ den = d.den /\ limit = Limit(most, floor)
  OBVIOUS
<1>25. total = (V * W * D * r) * G + G * k /\ den = W * D * r * A * G /\ limit \in Nat /\ f <= limit
  BY <1>9, <1>11, <1>21, <1>22, <1>24
<1>26. /\ total \in Nat /\ den \in Nat \ {0} /\ total <= den
       /\ total * A - V * den > 0 /\ (total * A - V * den) * W <= BuyCap * A * den
       /\ total * W * D <= limit * turn * den
  BY <1>4, <1>12, <1>18, <1>19, <1>25, Parameters, PurchaseSums
<1>27. \A s \in Etfs : d.target[s] * Asset >= Value[s] * d.den
  <2> SUFFICES ASSUME NEW s \in Etfs PROVE d.target[s] * Asset >= Value[s] * d.den
    OBVIOUS
  <2>1. PICK v, g : v = Value[s] /\ g = gap[s]
    OBVIOUS
  <2>2. v \in Nat /\ g \in Nat
    BY <1>5, <1>14, <2>1
  <2>3. d.target[s] = (v * W * D * r) * G + g * k
    BY <1>13, <1>20, <1>22, <2>1
  <2>4. ((v * W * D * r) * G + g * k) * A = v * (W * D * r * A * G) + g * k * A
    BY <1>12, <1>18, <2>2
  <2>5. g * k * A \in Nat /\ v * (W * D * r * A * G) \in Nat
    BY <1>12, <1>18, <2>2
  <2>6. Value[s] * d.den = v * (W * D * r * A * G)
    BY <1>22, <2>1
  <2> QED
    BY <1>11, <2>3, <2>4, <2>5, <2>6
<1> QED
  BY <1>11, <1>22, <1>23, <1>24, <1>26, <1>27 DEF Target, Purchase


\* The bounds of a reduction: no weight is raised, the daily cap, the base position,
\* and what is not known stays.
Reduction(d, keep) ==
  /\ \A s \in Etfs : d.target[s] * Asset <= Value[s] * d.den
  /\ SumFunction(Value) * d.den * Whole - SumFunction(d.target) * Asset * Whole <= SellCap * d.den * Asset
  /\ SumFunction(d.target) * Whole >= keep * d.den
  /\ \A s \in Etfs \ Reducible(Today) : d.target[s] * Asset = Value[s] * d.den

\* When every ETF is reducible, all are scaled alike, down to the day's floor.
ScaledToFloor(d) ==
  Reducible(Today) = Etfs =>
    \E k \in Nat : /\ k <= Max({Base * Asset, SumFunction(Value) * Whole - SellCap * Asset})
                   /\ SumFunction(Value) * Whole > 0
                   /\ d.den = Asset * (SumFunction(Value) * Whole)
                   /\ \A s \in Etfs : d.target[s] = Value[s] * k

\* M = m * W may move of the value V in parts of W, and k of M is left.
LEMMA ReductionSums ==
  ASSUME NEW W \in Nat, NEW A \in Nat, NEW V \in Nat, V <= A, NEW m \in Nat, m <= V,
         NEW M, M = W * m, M # 0, NEW k \in Nat, k < M, NEW keep \in Nat, NEW c \in Nat,
         k >= keep * A - (V * W - M), k >= M - c * A,
         NEW total, total = M * V - (M - k) * m, NEW den, den = A * M
  PROVE  /\ total \in Nat /\ den \in Nat \ {0} /\ total <= den
         /\ V * den * W - total * A * W <= c * den * A
         /\ total * W >= keep * den
<1>1. M \in Nat \ {0} /\ M - k \in Nat /\ M - k <= M
  OBVIOUS
<1>2. PICK j : j = M - k
  OBVIOUS
<1>3. j \in Nat /\ j <= M /\ j <= c * A /\ total = M * V - j * m
  BY <1>1, <1>2
<1>4. j * m <= M * m /\ M * m <= M * V /\ j * m \in Nat /\ M * V \in Nat /\ M * m \in Nat
  <2>1. j * m \in Nat /\ M * V \in Nat /\ M * m \in Nat
    BY <1>1, <1>3
  <2>2. j * m <= M * m
    BY <1>1, <1>3
  <2>3. M * m <= M * V
    BY <1>1
  <2> QED
    BY <2>1, <2>2, <2>3
<1>5. total \in Nat /\ total <= M * V
  BY <1>3, <1>4
<1>6. A > 0 /\ den \in Nat \ {0} /\ M * V <= den
  <2>1. m > 0 /\ A > 0
    BY <1>1
  <2>2. M * V <= M * A
    BY <1>1
  <2>3. den = M * A /\ den \in Nat \ {0}
    BY <1>1, <2>1
  <2> QED
    BY <2>1, <2>2, <2>3
<1>7. V * den * W - total * A * W = (A * M) * j
  <2>1. V * den * W = A * W * (M * V)
    BY <1>1
  <2>2. total * A * W = A * W * (M * V) - A * W * (j * m)
    BY <1>1, <1>3
  <2>3. A * W * (j * m) = (A * M) * j
    BY <1>3
  <2>4. A * W * (M * V) \in Nat /\ A * W * (j * m) \in Nat
    BY <1>4
  <2> QED
    BY <2>1, <2>2, <2>3, <2>4
<1>8. (A * M) * j <= c * den * A
  <2>1. PICK e, g : e = A * M /\ g = c * A
    OBVIOUS
  <2>2. e \in Nat /\ g \in Nat /\ j <= g
    BY <1>1, <1>3, <2>1
  <2>3. e * j <= e * g
    BY <1>3, <2>2
  <2>4. c * den * A = e * g
    BY <1>1, <2>1
  <2> QED
    BY <2>1, <2>3, <2>4
<1>9. total * W >= keep * den
  <2>1. PICK e, g : e = V * W - j /\ g = keep * A
    OBVIOUS
  <2>2. e \in Int /\ g \in Nat /\ g <= e
    BY <1>1, <1>2, <1>3, <2>1
  <2>3. total * W = M * e
    BY <1>1, <1>3, <2>1
  <2>4. keep * den = M * g
    BY <1>1, <2>1
  <2>5. M * g <= M * e
    BY <1>1, <2>2
  <2> QED
    BY <2>3, <2>4, <2>5
<1> QED
  BY <1>5, <1>6, <1>7, <1>8, <1>9

LEMMA ReduceType ==
  ASSUME RuleState, history # <<>>
  PROVE  /\ Target(ReduceTargets)
         /\ \/ ReduceTargets = Nothing
            \/ /\ ReduceTargets.kind = "reduce"
               /\ Reduction(ReduceTargets, Min({Base} \cup AnchorYmin(Today)))
               /\ ScaledToFloor(ReduceTargets)
<1> DEFINE keep == Min({Base} \cup AnchorYmin(Today))
           moves == Reducible(Today)
           movable == SumFunction([s \in Etfs |-> IF s \in moves THEN Value[s] * Whole ELSE 0])
           wanted == Max({0, Floor(keep) - (SumFunction(Value) * Whole - movable)})
           scale == Min({wanted, movable})
           weights == [s \in Etfs |-> Value[s] * (IF s \in moves THEN scale ELSE movable)]
           d == [kind |-> "reduce", stage |-> 0, target |-> weights, den |-> Asset * movable]
<1>1. ReduceTargets =
        IF SumFunction(Value) * Whole <= keep * Asset \/ movable = 0 \/ scale = movable THEN Nothing ELSE d
  BY DEF ReduceTargets
<1>2. SUFFICES ASSUME movable # 0, scale # movable
               PROVE  Target(d) /\ Reduction(d, keep) /\ ScaledToFloor(d)
  <2> HIDE DEF keep, movable, scale, weights
  <2> QED
    BY <1>1, NothingType DEF keep
<1>3. Today \in Markets
  BY TodayType
<1>4. /\ Value \in [Etfs -> Nat] /\ SumFunction(Value) = Total(Value, Etfs)
      /\ SumFunction(Value) \in Nat /\ Asset \in Nat /\ SumFunction(Value) <= Asset
  BY ValueType
<1>5. keep \in Nat /\ keep <= Base
  <2>1. IsFiniteSet(AnchorYmin(Today)) /\ AnchorYmin(Today) \subseteq Nat /\ IsFiniteSet({Base})
    BY <1>3, AnchorKnown, KnownType, FS_Singleton
  <2>2. PICK S : S = {Base} \cup AnchorYmin(Today)
    OBVIOUS
  <2>3. IsFiniteSet(S) /\ S \subseteq Nat /\ Base \in S
    BY <2>1, <2>2, FS_Union, Parameters
  <2>4. Min(S) \in S /\ Min(S) <= Base
    BY <2>3, Extremes
  <2> QED
    BY <2>2, <2>3, <2>4
<1> DEFINE u == [s \in Etfs |-> IF s \in moves THEN Value[s] ELSE 0]
<1> HIDE DEF keep, moves
<1>6. PICK W, A, V, M, m : /\ W = Whole /\ A = Asset /\ V = SumFunction(Value) /\ M = movable
                           /\ m = Total(u, Etfs)
  OBVIOUS
<1>7. \A s \in Etfs : Value[s] \in Nat /\ u[s] \in Nat /\ u[s] <= Value[s]
  BY <1>4
<1>8. W \in Nat /\ A \in Nat /\ V \in Nat /\ V <= A /\ m \in Nat /\ m <= V
  <2>1. \A s \in Etfs : Value[s] \in Int /\ u[s] \in Int
    BY <1>7
  <2> HIDE DEF u
  <2>2. Total(u, Etfs) \in Nat /\ Total(u, Etfs) <= Total(Value, Etfs)
    BY <1>7, <2>1, Parameters, TotalPart, TotalMonotone
  <2> QED
    BY <1>4, <1>6, <2>2, Parameters
<1>9. M = W * m /\ M # 0 /\ M \in Nat
  <2> DEFINE parts == [s \in Etfs |-> IF s \in moves THEN Value[s] * Whole ELSE 0]
  <2>1. \A s \in Etfs : u[s] \in Int /\ parts[s] = W * u[s]
    BY <1>6, <1>7, <1>8
  <2>2. DOMAIN parts = Etfs /\ M = SumFunction(parts)
    BY <1>6
  <2> HIDE DEF parts, u
  <2>3. SumFunction(parts) = Total(parts, Etfs)
    BY <2>2, Parameters, SumIsTotal
  <2>4. Total(parts, Etfs) = W * Total(u, Etfs)
    BY <1>8, <2>1, Parameters, TotalScaled
  <2> QED
    BY <1>2, <1>6, <1>8, <2>2, <2>3, <2>4
<1> HIDE DEF movable
<1>10. PICK floor : floor = Max({keep * A, V * W - SellCap * A})
  OBVIOUS
<1>11. floor = (IF keep * A >= V * W - SellCap * A THEN keep * A ELSE V * W - SellCap * A) /\ floor \in Int
  <2>1. keep * A \in Int /\ V * W - SellCap * A \in Int
    BY <1>5, <1>8, Parameters
  <2> QED
    BY <1>10, <2>1, PairMax
<1>12. PICK k, x : k = scale /\ x = floor - (V * W - M)
  OBVIOUS
<1>13. k \in Nat /\ k < M /\ k >= x /\ (k = 0 \/ k = x)
  <2>1. wanted = Max({0, x})
    BY <1>6, <1>10, <1>12 DEF Floor
  <2>2. x \in Int
    BY <1>8, <1>9, <1>11, <1>12
  <2>3. wanted = IF 0 >= x THEN 0 ELSE x
    BY <2>1, <2>2, PairMax
  <2> HIDE DEF wanted
  <2>4. scale = IF wanted <= M THEN wanted ELSE M
    BY <1>6, <1>9, <2>2, <2>3, PairMin
  <2> HIDE DEF scale
  <2> QED
    BY <1>2, <1>6, <1>9, <1>12, <2>2, <2>3, <2>4
<1>14. k >= keep * A - (V * W - M) /\ k >= M - SellCap * A
  <2>1. PICK a, b, c : a = keep * A /\ b = V * W /\ c = SellCap * A
    OBVIOUS
  <2>2. a \in Nat /\ b \in Nat /\ c \in Nat
    BY <1>5, <1>8, <2>1, Parameters
  <2>3. floor >= a /\ floor >= b - c /\ x = floor - (b - M)
    BY <1>11, <1>12, <2>1, <2>2
  <2>4. k >= a - (b - M) /\ k >= M - c
    BY <1>9, <1>11, <1>13, <2>2, <2>3
  <2> QED
    BY <2>1, <2>4
<1>15. \A s \in Etfs : /\ weights[s] = Value[s] * (IF s \in moves THEN k ELSE M)
                       /\ weights[s] = M * Value[s] - (M - k) * u[s] /\ weights[s] \in Nat
  <2> SUFFICES ASSUME NEW s \in Etfs
               PROVE  /\ weights[s] = Value[s] * (IF s \in moves THEN k ELSE M)
                      /\ weights[s] = M * Value[s] - (M - k) * u[s] /\ weights[s] \in Nat
    OBVIOUS
  <2>1. weights[s] = Value[s] * (IF s \in moves THEN k ELSE M)
    BY <1>6, <1>12
  <2>2. PICK v : v = Value[s]
    OBVIOUS
  <2>3. v \in Nat /\ u[s] = IF s \in moves THEN v ELSE 0
    BY <1>7, <2>2
  <2> HIDE DEF weights, u
  <2>4. CASE s \in moves
    <3>1. weights[s] = v * k /\ u[s] = v
      BY <2>1, <2>2, <2>3, <2>4
    <3>2. M * v - (M - k) * v = v * k
      BY <1>9, <1>13, <2>3
    <3> QED
      BY <1>13, <2>1, <2>2, <2>3, <3>1, <3>2
  <2>5. CASE s \notin moves
    <3>1. weights[s] = v * M /\ u[s] = 0
      BY <2>1, <2>2, <2>3, <2>5
    <3>2. M * v - (M - k) * 0 = v * M
      BY <1>9, <1>13, <2>3
    <3> QED
      BY <1>9, <2>1, <2>2, <2>3, <3>1, <3>2
  <2> QED
    BY <2>4, <2>5
<1>16. SumFunction(weights) = M * V - (M - k) * m
  <2>1. DOMAIN weights = Etfs
    OBVIOUS
  <2> HIDE DEF weights, u
  <2>2. SumFunction(weights) = Total(weights, Etfs)
    BY <2>1, Parameters, SumIsTotal
  <2> DEFINE p == [s \in Etfs |-> M * Value[s]]
             q == [s \in Etfs |-> (k - M) * u[s]]
  <2>3. \A s \in Etfs : /\ p[s] = M * Value[s] /\ q[s] = (k - M) * u[s] /\ p[s] \in Int /\ q[s] \in Int
                        /\ Value[s] \in Int /\ u[s] \in Int
    BY <1>7, <1>9, <1>13
  <2>4. \A s \in Etfs : (M - k) * u[s] = 0 - (k - M) * u[s]
    BY <1>9, <1>13, <2>3
  <2>5. \A s \in Etfs : weights[s] = p[s] + q[s]
    BY <1>15, <2>3, <2>4
  <2> HIDE DEF p, q
  <2>6. Total(weights, Etfs) = Total(p, Etfs) + Total(q, Etfs)
    BY <2>3, <2>5, Parameters, TotalSum
  <2>7. M \in Int /\ k - M \in Int
    BY <1>9, <1>13
  <2>8. Total(p, Etfs) = M * Total(Value, Etfs) /\ Total(q, Etfs) = (k - M) * Total(u, Etfs)
    BY <2>3, <2>7, Parameters, TotalScaled
  <2>9. (k - M) * m = 0 - (M - k) * m
    BY <1>8, <1>9, <1>13
  <2> QED
    BY <1>4, <1>6, <1>8, <1>9, <1>13, <2>2, <2>6, <2>8, <2>9
<1>17. d.den = A * M /\ d.target = weights /\ d.kind = "reduce" /\ d.stage = 0
  BY <1>6
<1>18. weights \in [Etfs -> Nat]
  BY <1>15
<1> HIDE DEF d, weights, scale
<1>19. PICK total, den : total = SumFunction(d.target) /\ den = d.den
  OBVIOUS
<1>20. /\ total \in Nat /\ den \in Nat \ {0} /\ total <= den
       /\ V * den * W - total * A * W <= SellCap * den * A
       /\ total * W >= keep * den
  <2>1. total = M * V - (M - k) * m /\ den = A * M
    BY <1>16, <1>17, <1>19
  <2>2. /\ W \in Nat /\ A \in Nat /\ V \in Nat /\ V <= A /\ m \in Nat /\ m <= V
        /\ M = W * m /\ M # 0 /\ k \in Nat /\ k < M /\ keep \in Nat /\ SellCap \in Nat
        /\ k >= keep * A - (V * W - M) /\ k >= M - SellCap * A
    BY <1>5, <1>8, <1>9, <1>13, <1>14, Parameters
  <2> QED
    BY <2>1, <2>2, ReductionSums
<1>21. Target(d)
  <2>1. Max({SmallDays, BigDays}) \in Nat
    BY Parameters, PairMax
  <2> QED
    BY <1>17, <1>18, <1>19, <1>20, <2>1 DEF Target
<1>22. ASSUME NEW s \in Etfs
       PROVE  d.target[s] * Asset <= Value[s] * d.den /\ (s \notin moves => d.target[s] * Asset = Value[s] * d.den)
  <2>1. PICK v, z : v = Value[s] /\ z = IF s \in moves THEN k ELSE M
    OBVIOUS
  <2>2. v \in Nat /\ z \in Nat /\ z <= M /\ (s \notin moves => z = M)
    BY <1>7, <1>9, <1>13, <2>1
  <2>3. d.target[s] = v * z /\ d.den = A * M
    BY <1>15, <1>17, <2>1
  <2>4. (v * z) * A = (v * A) * z /\ v * (A * M) = (v * A) * M
    BY <1>8, <1>9, <2>2
  <2>5. (v * A) \in Nat
    BY <1>8, <2>2
  <2>6. (v * A) * z <= (v * A) * M
    BY <1>9, <2>2, <2>5
  <2> QED
    BY <1>6, <2>1, <2>2, <2>3, <2>4, <2>6
<1>23. Reduction(d, keep)
  BY <1>6, <1>19, <1>20, <1>22 DEF Reduction, moves
<1>24. ScaledToFloor(d)
  <2> SUFFICES ASSUME moves = Etfs
               PROVE  \E n \in Nat :
                        /\ n <= Max({Base * A, V * W - SellCap * A})
                        /\ V * W > 0 /\ d.den = A * (V * W) /\ \A s \in Etfs : d.target[s] = Value[s] * n
    BY <1>6 DEF ScaledToFloor, moves
  <2>1. m = V
    <3>1. \A s \in Etfs : u[s] = Value[s]
      OBVIOUS
    <3> HIDE DEF u
    <3> QED
      BY <1>4, <1>6, <3>1, Parameters, TotalAgrees
  <2>2. M = V * W /\ V * W \in Nat /\ V * W > 0
    BY <1>8, <1>9, <2>1
  <2>3. PICK a, b, c : a = keep * A /\ b = V * W - SellCap * A /\ c = Base * A
    OBVIOUS
  <2>4. a \in Nat /\ b \in Int /\ c \in Nat /\ a <= c
    BY <1>5, <1>8, <2>3, Parameters
  <2>5. Max({c, b}) = (IF c >= b THEN c ELSE b) /\ floor = IF a >= b THEN a ELSE b
    BY <1>11, <2>3, <2>4, PairMax
  <2>6. x = floor
    BY <1>11, <1>12, <2>2
  <2>7. k <= Max({c, b})
    BY <1>11, <1>13, <2>4, <2>5, <2>6
  <2>8. \A s \in Etfs : d.target[s] = Value[s] * k
    BY <1>15, <1>17
  <2> QED
    BY <1>13, <1>17, <2>2, <2>3, <2>7, <2>8
<1> QED
  BY <1>21, <1>23, <1>24

-----------------------------------------------------------------------------
(* What every day leaves. *)

Buying(d) ==
  /\ history # <<>> /\ d.kind = "buy"
  /\ \/ Today.zone = "big" /\ Purchase(d, Limit(BigMax, TRUE), d.stage, BigDays)
     \/ Today.zone = "small" /\ Purchase(d, Limit(SmallMax, FALSE), d.stage, SmallDays)

Selling(d) ==
  /\ history # <<>> /\ d.kind = "reduce"
  /\ Reduction(d, Min({Base} \cup AnchorYmin(Today))) /\ ScaledToFloor(d)

LEMMA WeightsType ==
  ASSUME RuleState, history # <<>>
  PROVE  LET d == GenerateWeights
         IN  Target(d) /\ (d.kind = "none" \/ Buying(d) \/ Selling(d))
<1>1. Nothing.kind = "none"
  BY DEF Nothing
<1>2. CASE Reducing
  BY <1>1, <1>2, ReduceType DEF GenerateWeights, Selling
<1>3. CASE ~Reducing /\ BigBuying
  <2>1. PICK turn : turn = Min({FloodStreak - BigConfirm + 1, BigDays})
    OBVIOUS
  <2>2. BigConfirm + BigDays - 1 \in Nat
    BY Parameters
  <2>3. FloodStreak \in Nat
    BY <2>2, StreakType DEF FloodStreak, RuleState
  <2>4. FloodStreak >= BigConfirm /\ Today.zone = "big"
    BY <1>3 DEF BigBuying
  <2>5. turn \in 0 .. BigDays
    BY <2>1, <2>3, <2>4, Parameters, PairMin
  <2>6. turn \in 0 .. Max({SmallDays, BigDays})
    BY <2>5, Parameters, PairMax
  <2>7. GenerateWeights = BuyTargets(BigMax, turn, BigDays, TRUE)
    BY <1>3, <2>1 DEF GenerateWeights
  <2>8. BigMax \in Nat /\ BigDays \in Nat \ {0}
    BY Parameters
  <2>9. LET d == BuyTargets(BigMax, turn, BigDays, TRUE)
        IN  /\ Target(d)
            /\ \/ d = Nothing
               \/ d.kind = "buy" /\ d.stage = turn /\ Purchase(d, Limit(BigMax, TRUE), turn, BigDays)
    BY <2>6, <2>8, BuyType, Zenon
  <2> QED
    BY <1>1, <2>4, <2>7, <2>9, Zenon DEF Buying
<1>4. CASE ~Reducing /\ ~BigBuying /\ SmallCondition(Today)
  <2>1. SmallStreak \in 0 .. SmallDays
    BY Parameters, StreakType DEF SmallStreak, RuleState
  <2>2. SmallStreak \in 0 .. Max({SmallDays, BigDays})
    BY <2>1, Parameters, PairMax
  <2>3. GenerateWeights = BuyTargets(SmallMax, SmallStreak, SmallDays, FALSE) /\ Today.zone = "small"
    BY <1>4 DEF GenerateWeights, SmallCondition
  <2>4. SmallMax \in Nat /\ SmallDays \in Nat \ {0}
    BY Parameters
  <2>5. LET d == BuyTargets(SmallMax, SmallStreak, SmallDays, FALSE)
        IN  /\ Target(d)
            /\ \/ d = Nothing
               \/ d.kind = "buy" /\ d.stage = SmallStreak /\ Purchase(d, Limit(SmallMax, FALSE), SmallStreak, SmallDays)
    BY <2>2, <2>4, BuyType, Zenon
  <2> QED
    BY <1>1, <2>3, <2>5, Zenon DEF Buying
<1>5. CASE ~Reducing /\ ~BigBuying /\ ~SmallCondition(Today)
  <2>1. GenerateWeights = Nothing
    BY <1>5 DEF GenerateWeights
  <2> QED
    BY <1>1, <2>1, NothingType
<1> QED
  BY <1>2, <1>3, <1>4, <1>5

\* What reductions in a row have brought the portfolio down to, in every phase of a day.
AddUp ==
  reductions.count > 0 =>
    SumFunction(Value) * Whole <= Max({Base * Asset, reductions.from * Whole - reductions.count * SellCap * Asset})

\* The decision that is about to be executed is that of the day's state.
RuleInv ==
  /\ RuleState /\ Target(decision) /\ phase \in {"close", "decide", "trade"}
  /\ phase # "close" => history # <<>>
  /\ phase = "trade" => decision = GenerateWeights
  /\ reductions \in [count : Nat, from : Nat] /\ AddUp

\* A reduction of everything, executed in full at the prices of its decision, ends at
\* the floor of the day or below.
LEMMA ReductionArrives ==
  ASSUME RuleState, NEW d, ScaledToFloor(d), Reducible(Today) = Etfs,
         NEW h, h = [s \in Etfs |-> (d.target[s] * Asset) \div (d.den * quote[s])]
  PROVE  LET after == SumFunction([s \in Etfs |-> h[s] * quote[s]])
         IN  after * Whole <= Max({Base * Asset, SumFunction(Value) * Whole - SellCap * Asset})
<1>1. PICK k \in Nat : /\ k <= Max({Base * Asset, SumFunction(Value) * Whole - SellCap * Asset})
                       /\ SumFunction(Value) * Whole > 0
                       /\ d.den = Asset * (SumFunction(Value) * Whole)
                       /\ \A s \in Etfs : d.target[s] = Value[s] * k
  BY DEF ScaledToFloor
<1> DEFINE worth == [s \in Etfs |-> h[s] * quote[s]]
           x == [s \in Etfs |-> k * Value[s]]
           y == [s \in Etfs |-> (SumFunction(Value) * Whole) * worth[s]]
<1>2. /\ Value \in [Etfs -> Nat] /\ SumFunction(Value) = Total(Value, Etfs)
      /\ SumFunction(Value) \in Nat /\ Asset \in Nat /\ SumFunction(Value) <= Asset
  BY ValueType
<1>3. PICK A, V, W, M : A = Asset /\ V = SumFunction(Value) /\ W = Whole /\ M = V * W
  OBVIOUS
<1>4. A \in Nat \ {0} /\ V \in Nat \ {0} /\ W \in Nat \ {0} /\ M \in Nat \ {0}
  <2>1. A \in Nat /\ V \in Nat /\ W \in Nat /\ V <= A /\ V * W > 0
    BY <1>1, <1>2, <1>3, Parameters
  <2>2. V # 0 /\ W # 0
    BY <2>1
  <2> QED
    BY <1>3, <2>1, <2>2
<1>5. ASSUME NEW s \in Etfs
      PROVE  worth[s] \in Nat /\ M * worth[s] <= k * Value[s]
  <2>1. PICK v, p : v = Value[s] /\ p = quote[s]
    OBVIOUS
  <2>2. v \in Nat /\ p \in Nat \ {0}
    BY <1>2, <2>1, Parameters DEF RuleState
  <2>3. PICK n, e, q : n = (v * k) * A /\ e = (A * M) * p /\ q = n \div e
    OBVIOUS
  <2>4. n \in Nat /\ e \in Nat \ {0}
    BY <1>4, <2>2, <2>3
  <2>5. q \in Nat /\ e * q <= n
    <3>1. q = n \div e
      BY <2>3
    <3>2. n \in Nat /\ n \in Int /\ e \in Nat \ {0}
      BY <2>4
    <3> QED
      BY <3>1, <3>2, DivBounds, DivNat
  <2>6. h[s] = q
    BY <1>1, <1>3, <2>1, <2>3
  <2>7. worth[s] = q * p /\ q * p \in Nat
    BY <2>1, <2>2, <2>5, <2>6
  <2>8. A * (M * (q * p)) <= A * (k * v)
    <3>1. e * q = A * (M * (q * p)) /\ n = A * (k * v)
      BY <1>4, <2>2, <2>3, <2>5
    <3> QED
      BY <2>5, <3>1
  <2>9. M * (q * p) \in Nat /\ k * v \in Nat
    BY <1>4, <2>2, <2>7
  <2>10. M * (q * p) <= k * v
    BY <1>4, <2>8, <2>9, TimesCancel
  <2> QED
    BY <2>1, <2>7, <2>10
<1>6. SumFunction(worth) = Total(worth, Etfs) /\ Total(worth, Etfs) \in Nat
  <2>1. DOMAIN worth = Etfs
    OBVIOUS
  <2> HIDE DEF worth
  <2> QED
    BY <1>5, <2>1, Parameters, SumIsTotal, TotalPart
<1>7. M * Total(worth, Etfs) <= k * V
  <2> HIDE DEF worth
  <2>1. \A s \in Etfs : /\ x[s] = k * Value[s] /\ y[s] = M * worth[s] /\ x[s] \in Int /\ y[s] \in Int
                        /\ y[s] <= x[s] /\ worth[s] \in Int /\ Value[s] \in Int
    BY <1>2, <1>3, <1>4, <1>5
  <2> HIDE DEF x, y
  <2>2. Total(y, Etfs) <= Total(x, Etfs)
    BY <2>1, Parameters, TotalMonotone
  <2>3. Total(x, Etfs) = k * Total(Value, Etfs) /\ Total(y, Etfs) = M * Total(worth, Etfs)
    BY <1>4, <2>1, Parameters, TotalScaled
  <2> QED
    BY <1>2, <1>3, <2>2, <2>3
<1>8. PICK a : a = Total(worth, Etfs)
  OBVIOUS
<1>9. a \in Nat /\ V * (a * W) <= V * k
  <2>1. a \in Nat
    BY <1>6, <1>8
  <2>2. M * a <= k * V
    BY <1>7, <1>8
  <2>3. M * a = V * (a * W) /\ k * V = V * k
    BY <1>3, <1>4, <2>1
  <2> QED
    BY <2>1, <2>2, <2>3
<1>10. a * W <= k
  <2>1. a * W \in Int
    BY <1>4, <1>9
  <2> QED
    BY <1>4, <1>9, <2>1, TimesCancel
<1>11. SumFunction(worth) * Whole <= k
  BY <1>3, <1>6, <1>8, <1>10
<1> HIDE DEF worth
<1>12. PICK bound, reached : bound = Max({Base * Asset, SumFunction(Value) * Whole - SellCap * Asset})
                             /\ reached = SumFunction(worth) * Whole
  OBVIOUS
<1>13. bound \in Int /\ reached \in Int /\ reached <= k /\ k <= bound
  <2>1. Base * Asset \in Int /\ SumFunction(Value) * Whole - SellCap * Asset \in Int
    BY <1>2, Parameters
  <2> QED
    BY <1>1, <1>3, <1>4, <1>6, <1>11, <1>12, <2>1, PairMax
<1>14. SumFunction(worth) * Whole <= Max({Base * Asset, SumFunction(Value) * Whole - SellCap * Asset})
  BY <1>12, <1>13
<1> QED
  BY <1>14 DEF worth


LEMMA RuleStarts == RuleInit => RuleInv
<1> SUFFICES ASSUME RuleInit PROVE RuleInv
  OBVIOUS
<1>1. RuleState
  BY Parameters DEF RuleInit, RuleState
<1>2. Target(decision)
  BY NothingType DEF RuleInit
<1> QED
  BY <1>1, <1>2 DEF RuleInit, RuleInv, AddUp

LEMMA EndOfDayStep == RuleInv /\ EndOfDay => RuleInv'
<1> SUFFICES ASSUME RuleInv, EndOfDay PROVE RuleInv'
  OBVIOUS
<1>1. PICK m \in Markets : history' = Append(history, m)
  BY DEF EndOfDay
<1>2. /\ phase' = "decide" /\ holding' = holding /\ funds' = funds /\ quote' = quote /\ decision' = decision
      /\ reductions' = reductions
  BY DEF EndOfDay
<1>3. history' \in Seq(Markets) /\ history' # <<>>
  BY <1>1 DEF RuleInv, RuleState
<1>4. Value' = Value /\ Asset' = Asset
  BY <1>2 DEF Value, Asset
<1>5. AddUp'
  BY <1>2, <1>4 DEF RuleInv, AddUp
<1> QED
  BY <1>2, <1>3, <1>5 DEF RuleInv, RuleState, Target

\* A decision is read off the days, the weights and the assets, and nothing else.
LEMMA SameDecision ==
  ASSUME history' = history, Value' = Value, Asset' = Asset
  PROVE  GenerateWeights' = GenerateWeights
<1>1. Today' = Today
  BY DEF Today
<1>2. AnchorDeclines' = AnchorDeclines
  BY DEF AnchorDeclines
<1>3. Reducing' = Reducing
  BY <1>1, <1>2 DEF Reducing
<1>4. FloodStreak' = FloodStreak /\ SmallStreak' = SmallStreak
  BY DEF FloodStreak, SmallStreak, Streak
<1>5. BigBuying' = BigBuying
  BY <1>1, <1>4 DEF BigBuying
<1>6. ReduceTargets' = ReduceTargets
  BY <1>1 DEF ReduceTargets, Floor
<1>7. \A most, turn, days, floor : BuyTargets(most, turn, days, floor)' = BuyTargets(most, turn, days, floor)
  BY <1>1 DEF BuyTargets
<1> QED
  BY <1>1, <1>3, <1>4, <1>5, <1>6, <1>7 DEF GenerateWeights

LEMMA DecideStep == RuleInv /\ DecideWeights => RuleInv'
<1> SUFFICES ASSUME RuleInv, DecideWeights PROVE RuleInv'
  OBVIOUS
<1>1. /\ phase = "decide" /\ phase' = "trade" /\ decision' = GenerateWeights
      /\ history' = history /\ holding' = holding /\ funds' = funds /\ quote' = quote /\ reductions' = reductions
  BY DEF DecideWeights
<1>2. RuleState /\ history # <<>>
  BY <1>1 DEF RuleInv
<1>3. Target(GenerateWeights)
  BY <1>2, WeightsType
<1>4. Value' = Value /\ Asset' = Asset
  BY <1>1 DEF Value, Asset
<1>5. GenerateWeights' = GenerateWeights
  BY <1>1, <1>4, SameDecision
<1>6. AddUp'
  BY <1>1, <1>4 DEF RuleInv, AddUp
<1> QED
  BY <1>1, <1>2, <1>3, <1>5, <1>6 DEF RuleInv, RuleState, Target

LEMMA TradeStep == RuleInv /\ Trade => RuleInv'
<1> SUFFICES ASSUME RuleInv, Trade PROVE RuleInv'
  OBVIOUS
<1> DEFINE asset == funds + SumFunction([s \in Etfs |-> holding[s] * quote'[s]])
           quantity == [s \in Etfs |-> (decision.target[s] * asset) \div (decision.den * quote'[s])]
<1>1. /\ phase = "trade" /\ phase' = "close" /\ history' = history /\ decision' = decision
      /\ quote' \in [Etfs -> Prices]
  BY DEF Trade
<1>2. PICK trading \in (IF decision.kind = "none" THEN {{}} ELSE SUBSET Etfs) :
        /\ holding' = [s \in Etfs |-> IF s \in trading THEN quantity[s] ELSE holding[s]]
        /\ funds' = asset - SumFunction([s \in Etfs |-> holding'[s] * quote'[s]])
        /\ funds' >= 0
        /\ reductions' = IF /\ decision.kind = "reduce" /\ trading = Etfs /\ quote' = quote
                            /\ \A s \in Etfs : Today.flow[s].valid /\ Ymin(Today, s) # {}
                         THEN [count |-> reductions.count + 1,
                               from |-> IF reductions.count = 0 THEN SumFunction(Value) ELSE reductions.from]
                         ELSE [count |-> 0, from |-> 0]
  BY DEF Trade
<1>2a. reductions' = IF /\ decision.kind = "reduce" /\ trading = Etfs /\ quote' = quote
                        /\ \A s \in Etfs : Today.flow[s].valid /\ Ymin(Today, s) # {}
                     THEN [count |-> reductions.count + 1,
                           from |-> IF reductions.count = 0 THEN SumFunction(Value) ELSE reductions.from]
                     ELSE [count |-> 0, from |-> 0]
  BY <1>2
<1>3. RuleState /\ Target(decision) /\ history # <<>> /\ decision = GenerateWeights
      /\ reductions \in [count : Nat, from : Nat] /\ AddUp
  BY <1>1 DEF RuleInv
<1>4. \A s \in Etfs : holding[s] \in Nat /\ quote[s] \in Nat \ {0} /\ quote'[s] \in Nat \ {0}
  BY <1>1, <1>3, Parameters DEF RuleState
<1>5. asset \in Nat
  <2> DEFINE worth == [s \in Etfs |-> holding[s] * quote'[s]]
  <2>1. DOMAIN worth = Etfs /\ \A s \in Etfs : worth[s] \in Nat
    BY <1>4
  <2>2. asset = funds + SumFunction(worth)
    OBVIOUS
  <2> HIDE DEF worth, asset
  <2>3. SumFunction(worth) \in Nat
    BY <2>1, Parameters, SumIsTotal, TotalPart
  <2> QED
    BY <1>3, <2>2, <2>3 DEF RuleState
<1>6. holding' \in [Etfs -> Nat]
  <2>1. ASSUME NEW s \in Etfs PROVE quantity[s] \in Nat
    <3>1. PICK n, e : n = decision.target[s] * asset /\ e = decision.den * quote'[s]
      OBVIOUS
    <3>2. decision.target[s] \in Nat /\ decision.den \in Nat \ {0}
      BY <1>3 DEF Target
    <3> HIDE DEF asset
    <3>3. n \in Nat /\ e \in Nat \ {0}
      BY <1>4, <1>5, <3>1, <3>2
    <3>4. quantity[s] = n \div e
      BY <3>1
    <3> QED
      BY <3>3, <3>4, DivNat
  <2> HIDE DEF quantity
  <2> QED
    BY <1>2, <1>4, <2>1
<1>7. funds' \in Nat
  <2> DEFINE worth == [s \in Etfs |-> holding'[s] * quote'[s]]
  <2>1. DOMAIN worth = Etfs /\ \A s \in Etfs : worth[s] \in Nat
    BY <1>4, <1>6
  <2>2. funds' = asset - SumFunction(worth) /\ funds' >= 0
    BY <1>2
  <2> HIDE DEF worth, asset
  <2>3. SumFunction(worth) \in Nat
    BY <2>1, Parameters, SumIsTotal, TotalPart
  <2> QED
    BY <1>5, <2>2, <2>3
<1>8. RuleState'
  BY <1>1, <1>3, <1>6, <1>7 DEF RuleState
<1>9. /\ Value \in [Etfs -> Nat] /\ SumFunction(Value) \in Nat /\ Asset \in Nat
  BY <1>3, ValueType
<1>10. reductions' \in [count : Nat, from : Nat]
  <2>1. reductions.count \in Nat /\ reductions.from \in Nat
    BY <1>3
  <2>2. \/ reductions' = [count |-> 0, from |-> 0]
        \/ reductions' = [count |-> reductions.count + 1,
                          from |-> IF reductions.count = 0 THEN SumFunction(Value) ELSE reductions.from]
    BY <1>2a
  <2> QED
    BY <1>9, <2>1, <2>2
<1>11. AddUp'
  <2> SUFFICES ASSUME reductions'.count > 0 PROVE AddUp'
    BY DEF AddUp
  <2>1. /\ decision.kind = "reduce" /\ trading = Etfs /\ quote' = quote
        /\ \A s \in Etfs : Today.flow[s].valid /\ Ymin(Today, s) # {}
    BY <1>2a
  <2>2. reductions' = [count |-> reductions.count + 1,
                       from |-> IF reductions.count = 0 THEN SumFunction(Value) ELSE reductions.from]
    BY <1>2, <2>1
  <2>3. Reducible(Today) = Etfs
    BY <2>1 DEF Reducible
  <2>4. ScaledToFloor(decision)
    BY <1>3, <2>1, WeightsType DEF Buying, Selling
  <2>5. asset = Asset
    BY <2>1 DEF Asset, Value
  <2>6. holding' = [s \in Etfs |-> (decision.target[s] * Asset) \div (decision.den * quote[s])]
    <3> HIDE DEF asset
    <3> QED
      BY <1>2, <2>1, <2>5
  <2>7. Value' = [s \in Etfs |-> holding'[s] * quote[s]]
    BY <2>1 DEF Value
  <2> HIDE DEF asset, quantity
  <2>8. SumFunction(Value') * Whole <= Max({Base * Asset, SumFunction(Value) * Whole - SellCap * Asset})
    BY <1>3, <2>3, <2>4, <2>6, <2>7, ReductionArrives
  <2>9. Asset' = Asset
    <3>1. Asset' = funds' + SumFunction(Value')
      BY DEF Asset
    <3>2. funds' = Asset - SumFunction(Value')
      BY <1>2, <2>1, <2>5, <2>7
    <3>3. SumFunction(Value') \in Nat
      <4>1. DOMAIN Value' = Etfs /\ \A s \in Etfs : Value'[s] \in Nat
        BY <1>4, <1>6, <2>7
      <4> QED
        BY <4>1, Parameters, SumIsTotal, TotalPart
    <3> QED
      BY <1>9, <3>1, <3>2, <3>3
  <2>10. PICK v, w, a, b, c, n, g :
           /\ v = SumFunction(Value) * Whole /\ w = SumFunction(Value') * Whole /\ a = Base * Asset
           /\ b = SellCap * Asset /\ c = reductions.from * Whole /\ n = reductions.count
           /\ g = reductions'.from * Whole
    OBVIOUS
  <2>11. v \in Nat /\ a \in Nat /\ b \in Nat /\ c \in Nat /\ n \in Nat /\ n * b \in Nat
    BY <1>3, <1>9, <2>10, Parameters
  <2>12. reductions.count * SellCap * Asset = n * b /\ reductions'.count * SellCap * Asset = n * b + b
    <3>1. reductions'.count = n + 1
      BY <2>2, <2>10
    <3> QED
      BY <1>9, <2>10, <2>11, <3>1, Parameters
  <2>13. w <= Max({a, v - b})
    BY <2>8, <2>10
  <2>14. Max({a, v - b}) = IF a >= v - b THEN a ELSE v - b
    BY <2>11, PairMax
  <2>15. w \in Int
    <3>1. DOMAIN Value' = Etfs /\ \A s \in Etfs : Value'[s] \in Nat
      BY <1>4, <1>6, <2>7
    <3>2. SumFunction(Value') \in Nat
      BY <3>1, Parameters, SumIsTotal, TotalPart
    <3> QED
      BY <2>10, <3>2, Parameters
  <2>16. g \in Nat /\ (n = 0 => g = v) /\ (n # 0 => g = c)
    BY <1>9, <2>2, <2>10, <2>11
  <2>17. n # 0 => v <= Max({a, c - n * b})
    <3>1. n # 0 => reductions.count > 0
      BY <2>10, <2>11
    <3>2. SumFunction(Value) * Whole = v /\ Base * Asset = a
            /\ reductions.from * Whole - reductions.count * SellCap * Asset = c - n * b
      BY <2>10, <2>12
    <3>3. AddUp
      BY <1>3
    <3> QED
      BY <3>1, <3>2, <3>3 DEF AddUp
  <2>18. Max({a, c - n * b}) = IF a >= c - n * b THEN a ELSE c - n * b
    BY <2>11, PairMax
  <2>19. Max({a, g - (n * b + b)}) = IF a >= g - (n * b + b) THEN a ELSE g - (n * b + b)
    BY <2>11, <2>16, PairMax
  <2>20. w <= Max({a, g - (n * b + b)})
    <3>1. CASE n = 0
      <4>1. n * b = 0
        BY <2>11, <3>1
      <4> QED
        BY <2>11, <2>13, <2>14, <2>15, <2>16, <2>19, <3>1, <4>1
    <3>2. CASE n # 0
      <4>1. PICK j : j = n * b
        OBVIOUS
      <4> QED
        BY <2>11, <2>13, <2>14, <2>15, <2>16, <2>17, <2>18, <2>19, <3>2, <4>1
    <3> QED
      BY <3>1, <3>2
  <2> QED
    BY <2>9, <2>10, <2>12, <2>20 DEF AddUp
<1>12. Target(decision)'
  BY <1>1, <1>3 DEF Target
<1> QED
  BY <1>1, <1>8, <1>10, <1>11, <1>12 DEF RuleInv

LEMMA RuleStays == RuleInv /\ UNCHANGED ruleVars => RuleInv'
<1> SUFFICES ASSUME RuleInv, UNCHANGED ruleVars PROVE RuleInv'
  OBVIOUS
<1>1. /\ history' = history /\ holding' = holding /\ funds' = funds /\ quote' = quote
      /\ decision' = decision /\ phase' = phase /\ reductions' = reductions
  BY DEF ruleVars
<1>2. Value' = Value /\ Asset' = Asset
  BY <1>1 DEF Value, Asset
<1>3. GenerateWeights' = GenerateWeights
  BY <1>1, <1>2, SameDecision
<1> QED
  BY <1>1, <1>2, <1>3 DEF RuleInv, RuleState, Target, AddUp

\* Purchases and reductions of the example strategy stay within their caps, whatever the
\* market and the execution did before, and reductions executed in a row arrive at the
\* base position (private_strategy/huijin_multi_example/rule.py:552-658).
THEOREM CapsHold == RuleSpec => []HuijinInv
<1>1. RuleInv /\ [RuleNext]_ruleVars => RuleInv'
  BY EndOfDayStep, DecideStep, TradeStep, RuleStays DEF RuleNext
<1>2. RuleInv => HuijinInv
  <2> SUFFICES ASSUME RuleInv PROVE HuijinInv
    OBVIOUS
  <2>1. RuleState /\ Target(decision)
    BY DEF RuleInv
  <2>2. RuleTypes
    BY <2>1 DEF RuleTypes, RuleState, Target
  <2>3. PurchasesAreBounded
    <3> SUFFICES ASSUME phase = "trade", decision.kind = "buy" PROVE PurchasesAreBounded
      BY DEF PurchasesAreBounded
    <3>1. Buying(decision)
      BY WeightsType DEF RuleInv, Selling
    <3> QED
      BY <3>1 DEF Buying, Purchase, Limit, PurchasesAreBounded
  <2>4. ReductionsAreBounded
    <3> SUFFICES ASSUME phase = "trade", decision.kind = "reduce" PROVE ReductionsAreBounded
      BY DEF ReductionsAreBounded
    <3>1. Selling(decision)
      BY WeightsType DEF RuleInv, Buying
    <3> QED
      BY <3>1 DEF Selling, Reduction, Reducible, ReductionsAreBounded
  <2>5. ReductionsAddUp
    BY DEF RuleInv, AddUp, ReductionsAddUp
  <2> QED
    BY <2>2, <2>3, <2>4, <2>5 DEF HuijinInv
<1> QED
  BY <1>1, <1>2, RuleStarts, PTL DEF RuleSpec
===============================================================================
