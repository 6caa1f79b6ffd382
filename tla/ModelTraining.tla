----------------------------- MODULE ModelTraining -----------------------------
(***************************************************************************)
(* A model from its samples to its live predictions.  A backtest builds    *)
(* the training, validation and test samples, trains with early stopping   *)
(* on the validation loss, keeps the best state, predicts each day of the  *)
(* test range and publishes the bundle with its results; an operator puts  *)
(* a published bundle where the live service loads it, and the service     *)
(* predicts one day per session.  model.py and experiment.yaml may change  *)
(* between any two of these.                                               *)
(*                                                                         *)
(* Days are trading days.  A security has a row on every day of its life   *)
(* (the data set's coverage check).  Losses are integers; the weights of a *)
(* trained network are named by the epoch they were taken after.           *)
(***************************************************************************)
EXTENDS Integers, Sequences, FiniteSets, SequencesExt, FiniteSetsExt

CONSTANTS
  Symbols, Lives,        \* [symbol -> [from, to]]
  Splits,                \* date ranges a user may configure: [train, valid, test]
  ModelSources,          \* contents of model.py: [features, history, portfolio, params]
  Backends,              \* subset of {"torch", "xgboost"}
  Losses, NaN, MinDelta, Patience, MaxEpochs,
  Padding,               \* days loaded before the training range
  LastDay, MaxRuns, MaxStarts, MaxChanges  \* bounds

ASSUME LossAssumption == Losses \subseteq Nat /\ NaN \notin Losses /\ MinDelta \in Nat
ASSUME DataAssumption ==
  /\ \A s \in Symbols : {Lives[s].from, Lives[s].to} \subseteq Int
  /\ \A sp \in Splits, part \in {"train", "valid", "test"} : {sp[part].from, sp[part].to} \subseteq Int
  /\ \A src \in ModelSources : src.history \in Nat
ASSUME TrainingAssumption ==
  /\ Patience \in Nat \ {0} /\ MaxEpochs \in Nat \ {0} /\ Padding \in Nat
  /\ LastDay \in Nat /\ MaxRuns \in Nat /\ MaxStarts \in Nat /\ MaxChanges \in Nat
  /\ Backends \subseteq {"torch", "xgboost"}

VARIABLES
  split, source,   \* experiment.yaml and model.py, as they stand
  run,             \* the backtest under way: its split, source and backend
  stage,           \* its progress
  losses,          \* validation loss of each epoch
  best, stale,     \* best_epoch and stale_epochs
  bundle,          \* the workflow's bundle: a set of at most one
  testDay,         \* day of the next backtest prediction
  results,         \* bundles in result directories
  deployed,        \* the file at bundle_path: a set of at most one
  loaded,          \* the live session's [bundle, source]: a set of at most one
  predictions,     \* what was predicted: [bundle, day, symbol, features, history]
  served,          \* bundles of all live sessions
  runs, starts, changes

fitVars == <<run, losses, best, stale, bundle>>
liveVars == <<deployed, loaded, served, starts>>
trainingVars == <<split, source, stage, fitVars, testDay, results, liveVars, predictions, runs, changes>>
--------------------------------------------------------------------------------
(* Samples. *)

Dates == 0 .. LastDay

Holds(range, d) == range.from <= d /\ d <= range.to

\* ModelSettings and build_backtest_config.
Ordered(sp) == sp.train.to < sp.valid.from /\ sp.valid.to < sp.test.from

\* A security's rows in the data loaded, one per day of its life.
Rows(s, sp) == LET first == Max({Lives[s].from, sp.train.from - Padding, 0})
                   last  == Min({Lives[s].to, sp.test.to, LastDay})
               IN  [i \in 1 .. (last - first + 1) |-> first + i - 1]

RowSet(s, sp) == Range(Rows(s, sp))

\* The rows a sample's features are computed from: the last ones of its security.
History(s, sp, src, i) == LET r == Rows(s, sp)
                          IN  {r[j] : j \in {k \in DOMAIN r : i - src.history < k /\ k <= i}}

\* The rows the strategy is shown on day d: those of the last days of the calendar.
Shown(s, sp, src, d) == {x \in RowSet(s, sp) : d - src.history < x /\ x <= d}

\* A feature builder answers None for a history that is too short.
Enough(h, src) == Cardinality(h) = src.history

\* The rows of a split's samples: [symbol, row].
Samples(part, sp, src) ==
  UNION {{[symbol |-> s, row |-> i] : i \in
            {k \in 1 .. (Len(Rows(s, sp)) - 2) :
               /\ Holds(sp[part], Rows(s, sp)[k])
               /\ Enough(History(s, sp, src, k), src)}} : s \in Symbols}

DayOf(x, sp) == Rows(x.symbol, sp)[x.row]

TrainedUntil(sp, src) == Max({DayOf(x, sp) : x \in Samples("train", sp, src)})
--------------------------------------------------------------------------------
(* A backtest of a model. *)

TrainingInit ==
  /\ split \in Splits /\ source \in ModelSources
  /\ run = [split |-> split, source |-> source, backend |-> "torch"]
  /\ stage = "idle" /\ losses = <<>> /\ best = 0 /\ stale = 0 /\ bundle = {}
  /\ testDay = 0 /\ results = {} /\ deployed = {} /\ loaded = {}
  /\ predictions = {} /\ served = {} /\ runs = 0 /\ starts = 0 /\ changes = 0

Prepare ==
  /\ stage = "idle" /\ runs < MaxRuns /\ runs' = runs + 1
  /\ \E b \in Backends : run' = [split |-> split, source |-> source, backend |-> b]
  /\ losses' = <<>> /\ best' = 0 /\ stale' = 0 /\ bundle' = {}
  /\ stage' = IF Ordered(split) THEN "build" ELSE "idle"
  /\ UNCHANGED <<split, source, testDay, results, liveVars, predictions, changes>>

\* Each split must have a sample.
Build ==
  /\ stage = "build"
  /\ stage' = IF \E p \in {"train", "valid", "test"} : Samples(p, run.split, run.source) = {}
           THEN "idle" ELSE "fit"
  /\ UNCHANGED <<split, source, fitVars, testDay, results, liveVars, predictions, runs, changes>>

\* Torch refuses a loss that is not finite; the callback of XGBoost takes the first
\* round as the best, whatever it is, and counts a later NaN as no improvement.
Improves(loss) ==
  \/ best = 0
  \/ loss # NaN /\ losses[best] # NaN /\ loss < losses[best] - MinDelta

Exhausted == stale' >= Patience

Epoch ==
  /\ stage = "fit" /\ Len(losses) < MaxEpochs
  /\ \E loss \in Losses \cup {NaN} :
       /\ losses' = Append(losses, loss)
       /\ \/ /\ loss = NaN /\ run.backend = "torch"
             /\ stage' = "idle" /\ UNCHANGED <<best, stale>>
          \/ /\ loss # NaN \/ run.backend = "xgboost"
             /\ best' = IF Improves(loss) THEN Len(losses') ELSE best
             /\ stale' = IF Improves(loss) THEN 0 ELSE stale + 1
             /\ stage' = IF Exhausted THEN "keep" ELSE "fit"
  /\ UNCHANGED <<split, source, run, bundle, testDay, results, liveVars, predictions, runs, changes>>

\* The state that is kept.
Kept_Last == Len(losses)  \* variant: the best state not restored
Kept == best

\* The bundle is set, or the best score refused.
Keep ==
  /\ \/ stage = "fit" /\ Len(losses) = MaxEpochs
     \/ stage = "keep"
  /\ \/ losses[best] = NaN /\ stage' = "idle" /\ UNCHANGED bundle
     \/ /\ losses[best] # NaN /\ stage' = "evaluate"
        /\ bundle' = {[id |-> runs, weights |-> Kept, epochs |-> Len(losses),
                       losses |-> losses, split |-> run.split, source |-> run.source,
                       backend |-> run.backend,
                       trained |-> TrainedUntil(run.split, run.source)]}
  /\ UNCHANGED <<split, source, run, losses, best, stale, testDay, results, liveVars,
                 predictions, runs, changes>>

\* Scores of the validation and test samples; one that is not finite ends the run.
Evaluate ==
  /\ stage = "evaluate" /\ stage' \in {"predict", "idle"} /\ testDay' = run.split.test.from
  /\ UNCHANGED <<split, source, fitVars, results, liveVars, predictions, runs, changes>>

Predicted(b, d, sp, src) ==
  {[bundle |-> b, day |-> d, symbol |-> s, features |-> src.features,
    history |-> Shown(s, sp, src, d)] :
     s \in {x \in Symbols : d \in RowSet(x, sp) /\ Enough(Shown(x, sp, src, d), src)}}

\* DailyModelStrategy refuses the days it was trained on.
OutOfSample(b, d) == d > b.trained

Backtest ==
  /\ stage = "predict" /\ testDay <= run.split.test.to
  /\ \E b \in bundle :
       LET p == Predicted(b, testDay, run.split, run.source)
       IN  \/ (~OutOfSample(b, testDay) \/ p = {}) /\ stage' = "idle" /\ UNCHANGED <<testDay, predictions>>
           \/ /\ OutOfSample(b, testDay) /\ p # {} /\ UNCHANGED stage
              /\ testDay' = testDay + 1 /\ predictions' = predictions \cup p
  /\ UNCHANGED <<split, source, fitVars, results, liveVars, runs, changes>>

Publish ==
  /\ stage = "predict" /\ testDay > run.split.test.to /\ stage' = "idle"
  /\ results' = results \cup bundle
  /\ UNCHANGED <<split, source, fitVars, testDay, liveVars, predictions, runs, changes>>
--------------------------------------------------------------------------------
(* The live service. *)

EditSource ==
  /\ changes < MaxChanges /\ changes' = changes + 1
  /\ split' \in Splits /\ source' \in ModelSources
  /\ UNCHANGED <<stage, fitVars, testDay, results, liveVars, predictions, runs>>

Deploy ==
  /\ \E b \in results : deployed' = {b}
  /\ UNCHANGED <<split, source, stage, fitVars, testDay, results, loaded, served, starts,
                 predictions, runs, changes>>

\* load_inference_bundle: metadata, inference payload, training cutoff against the
\* experiment's start.  No expected SHA-256 is passed, so none is compared.
Compatible(b) == b.source = source /\ b.trained < split.test.from

StartLive ==
  /\ starts < MaxStarts /\ starts' = starts + 1 /\ Ordered(split)
  /\ loaded' = {[bundle |-> b, source |-> source] : b \in {x \in deployed : Compatible(x)}}
  /\ served' = served \cup {x.bundle : x \in loaded'}
  /\ UNCHANGED <<split, source, stage, fitVars, testDay, results, deployed, predictions, runs, changes>>

\* The signal of day d, by the model.py the session was started with; the window
\* loaded is never shorter than the history.
Signal ==
  /\ \E x \in loaded, d \in Dates :
       LET full == [split EXCEPT !.train = [from |-> 0, to |-> 0], !.test = [from |-> d, to |-> d]]
           p    == Predicted(x.bundle, d, full, x.source)
       IN  OutOfSample(x.bundle, d) /\ p # {} /\ predictions' = predictions \cup p
  /\ loaded' = {}
  /\ UNCHANGED <<split, source, stage, fitVars, testDay, results, deployed, served, starts, runs, changes>>

TrainingNext ==
  \/ Prepare \/ Build \/ Epoch \/ Keep \/ Evaluate \/ Backtest \/ Publish
  \/ EditSource \/ Deploy \/ StartLive \/ Signal

TrainingSpec == TrainingInit /\ [][TrainingNext]_trainingVars
--------------------------------------------------------------------------------
(* Properties. *)

TrainingTypes ==
  /\ split \in Splits /\ source \in ModelSources
  /\ stage \in {"idle", "build", "fit", "keep", "evaluate", "predict"}
  /\ \A i \in DOMAIN losses : losses[i] \in Losses \cup {NaN}
  /\ best \in 0 .. Len(losses) /\ stale \in 0 .. Patience
  /\ Cardinality(bundle) <= 1 /\ Cardinality(deployed) <= 1 /\ Cardinality(loaded) <= 1
  /\ served \subseteq results /\ deployed \subseteq results

\* What is kept is the state of an epoch no trained epoch beats by more than
\* min_delta, not that of the last one, which may be past the overfitting point
\* (model_training.py:453-469, xgboost_training.py:328-356).
BestIsKept ==
  \A b \in bundle \cup results :
    \A e \in 1 .. b.epochs :
      b.losses[e] # NaN => b.losses[b.weights] # NaN /\ b.losses[e] >= b.losses[b.weights] - MinDelta

\* Training stops when the validation loss has not improved for patience epochs,
\* and not before unless the epochs run out (model_training.py:460-463).
StopsInTime ==
  \A b \in bundle \cup results :
    /\ b.epochs - b.weights <= Patience
    /\ b.epochs - b.weights = Patience \/ b.epochs = MaxEpochs

\* A sample's features come from the rows the strategy is shown on the day it
\* predicts: the builder of samples counts a security's own rows, the portal counts
\* days of the calendar (model_data.py:85, portal.py:189-192).
FeaturesAgree ==
  stage = "fit" =>
    \A part \in {"train", "valid", "test"}, s \in Symbols :
      \A x \in {y \in Samples(part, run.split, run.source) : y.symbol = s} :
        History(s, run.split, run.source, x.row)
          = Shown(s, run.split, run.source, DayOf(x, run.split))

\* No model, backtested or live, freshly deployed or replaced after the experiment
\* was edited, predicts a day on or before its last training signal
\* (experiment.py:210, model_contracts.py:768, model_runtime.py:108).
PredictionsAreOutOfSample == \A p \in predictions : p.day > p.bundle.trained

\* Every prediction, in the backtest or after any edits and replacements live, is of
\* the features the bundle was trained on, over a history of the same length
\* (model_training.py:629-650, xgboost_training.py:486-508, model_contracts.py:628).
ServedAsTrained ==
  \A p \in predictions :
    p.features = p.bundle.source.features /\ Cardinality(p.history) = p.bundle.source.history

\* From the samples to the live prediction: the epoch that is kept, when training
\* stops, and features and histories that are the same in training, backtest and
\* live service, of days after the training.
TrainingInv ==
  /\ TrainingTypes /\ BestIsKept /\ StopsInTime /\ FeaturesAgree
  /\ PredictionsAreOutOfSample /\ ServedAsTrained
================================================================================
