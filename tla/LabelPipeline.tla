--------------------------- MODULE LabelPipeline ---------------------------
(***************************************************************************)
(* How the meta-label model comes by its training data:                     *)
(* scripts/run_meta_research_pipeline.py replays the universe in batches,   *)
(* each a run of backtest.py behind the bar cache (backtest/data_store.py)  *)
(* that exports its labels to files of its own; the files are merged, and   *)
(* scripts/train_meta_model.py fits the model.  Files outlive runs, and the  *)
(* next run may have other arguments.                                       *)
(***************************************************************************)
EXTENDS Integers, Sequences, FiniteSets, SequencesExt

CONSTANTS
    Missing,           \* no file, or an empty field
    Torn, Empty,    \* a file whose writer died: unreadable, or of no bytes
    Tickers,       \* the symbols of the universe file, in order
    Holdout,        \* those that the model must never see
    Trades,         \* threshold -> the trades a replay of all days fills, each
                    \* [symbol, in, out]; a time is a day times DayLength, plus
                    \* the time of day
    DayLength,
    FirstDay, LastDay,   \* bounds: the days of the pipeline's runs
    Tolerance,      \* _COVERAGE_TOLERANCE
    Arguments,      \* [start, end, trainEnd, rvol, batch, resume, skip]
    MinRows, Folds, \* --min-rows; n_splits
    Embargo,
    MaxPipelines, MaxCrashes, MaxOutages    \* bounds, of crashes and failed writes together

ASSUME PipelineAssumption ==
    /\ {Tolerance, FirstDay, LastDay, MinRows, Embargo} \subseteq Nat
    /\ {DayLength, Folds} \subseteq Nat \ {0}
    /\ {MaxPipelines, MaxCrashes, MaxOutages} \subseteq Nat
    /\ Tickers \in Seq(ToSet(Tickers))
    /\ \A a \in Arguments :
          /\ {a.start, a.end, a.trainEnd, a.batch} \subseteq Nat
          /\ {a.resume, a.skip} \subseteq BOOLEAN
          /\ \A t \in Trades[a.rvol] : {t.in, t.out} \subseteq 0..((LastDay + 1) * DayLength)

VARIABLES
    today,          \* the last day the provider has bars of
    cache,          \* symbol -> Missing, Torn, Empty or [lo, hi, forming]
    parts, oos,     \* label files: 0 is --labels, the others the batches'
    model,          \* the model file: what it was fitted on
    step,
    args, batch,    \* of the pipeline: its arguments, the batch's number
    served,         \* symbol -> the bars this run's backtests were given
    pipelines,
    crashes,        \* processes that died and cache files that could not be written
    outages         \* symbols that the provider had no answer for

pipelineVars == <<today, cache, parts, oos, model, step, args, batch, served, pipelines,
                  crashes, outages>>

Traded == ToSet(Tickers)
DayOf(time) == time \div DayLength
Unreadable == {Torn, Empty}

-----------------------------------------------------------------------------
(* BarStore.                                                                *)

NoBars == [days |-> {}, forming |-> FALSE]

\* The requested days of a file.  Its last day may have been running when it
\* was fetched, and is in the file as it was then.
Requested(file) ==
    LET days == (file.lo..file.hi) \cap (args.start..args.end)
    IN  [days |-> days, forming |-> file.forming /\ file.hi \in days]

\* The start alone is looked at.
FaultCovers(file) == file.lo <= args.start + Tolerance
\* Bars exist on trading days only, so the ends are compared with some slack;
\* what a file lacks within it is not fetched.
Covers(file) == file.lo <= args.start + Tolerance /\ file.hi >= args.end - Tolerance

Cached(s) == IF cache[s] \in {Missing} \cup Unreadable THEN FALSE ELSE Covers(cache[s])

\* What the provider has of the request; of today, the session so far.
Fetched(running) ==
    LET hi == IF args.end < today THEN args.end ELSE today
    IN  [lo |-> args.start, hi |-> hi, forming |-> running /\ hi = today]

-----------------------------------------------------------------------------
(* Batches and files.                                                       *)

\* chunk_symbols; a size of 0 is one batch.
Batches(a) ==
    IF a.batch = 0 \/ Len(Tickers) <= a.batch THEN 1
    ELSE (Len(Tickers) + a.batch - 1) \div a.batch

InBatch(a, i) ==
    {Tickers[k] : k \in {k \in DOMAIN Tickers :
                            Batches(a) = 1 \/ (k - 1) \div a.batch = i - 1}}

\* Where backtest.py is told to export to: one batch writes the final file.
Target == IF Batches(args) = 1 THEN 0 ELSE batch

\* The labels of the running backtest.  A trade that closes with the data, as
\* its session was cut short, has the label of that and not of the whole session.
LabelsOf(inSample) ==
    {[trade |-> t, rvol |-> args.rvol, run |-> pipelines, part |-> Target,
      whole |-> ~(served[t.symbol].forming
                  /\ \A d \in served[t.symbol].days : d <= DayOf(t.in))] :
        t \in {t \in Trades[args.rvol] :
                  /\ t.symbol \in InBatch(args, batch)
                  /\ DayOf(t.in) \in served[t.symbol].days
                  /\ (DayOf(t.in) <= args.trainEnd) = inSample}}

\* export_labels returns before it writes when there is nothing to write: an
\* older file stays.
Export(rows, file) == IF rows = {} THEN file ELSE rows

\* merge_parquet_files of every part on disk, also of runs with more batches.
\* A file of no bytes is passed over; without any part the merged file goes.
Merged(files) ==
    LET present == {i \in DOMAIN files : i > 0 /\ files[i] \notin {Missing, Empty}}
    IN  IF present = {} THEN Missing ELSE UNION {files[i] : i \in present}

-----------------------------------------------------------------------------
(* train_meta_model.py.                                                     *)

\* The rows the model may be fitted on.
FitRows(rows) ==
    {r \in rows : r.trade.symbol \notin Holdout /\ DayOf(r.trade.in) <= args.trainEnd}

Latest(times) == CHOOSE x \in times : \A y \in times : y <= x
Earliest(times) == CHOOSE x \in times : \A y \in times : x <= y

\* The block ends with its last entry.
FaultTestEnd(test) == Latest({r.trade.in : r \in test})
TestEnd(test) == Latest({r.trade.out : r \in test})

\* purged_train_test_split: no row whose label window meets the test block and
\* its embargo.
Purged(rows, test) ==
    {r \in rows \ test :
        \/ r.trade.out < Earliest({x.trade.in : x \in test})
        \/ r.trade.in > TestEnd(test) + Embargo}

ByEntry(rows) ==
    LET First(left) == CHOOSE r \in left : \A x \in left : r.trade.in <= x.trade.in
    IN  FoldLeft(LAMBDA seq, i : Append(seq, First(rows \ ToSet(seq))), <<>>,
                 [i \in 1..Cardinality(rows) |-> i])

\* The rows of the k-th block, in order of entry.
Block(rows, k) ==
    LET size == IF Cardinality(rows) < Folds + 1 THEN 1
                ELSE Cardinality(rows) \div (Folds + 1)
        ordered == ByEntry(rows)
    IN  {r \in rows : \E i \in DOMAIN ordered :
            k * size < i /\ i <= (k + 1) * size /\ ordered[i] = r}

\* purged_cv_aucs: the blocks, each with the rows it is tested against.
PurgedFolds(rows) ==
    {[test |-> Block(rows, k), train |-> Purged(rows, Block(rows, k))] :
        k \in {k \in 1..Folds : Block(rows, k) # {}}}

-----------------------------------------------------------------------------
(* The run.                                                                 *)

PipelineInit ==
    /\ today = FirstDay
    /\ cache = [s \in Traded |-> Missing]
    /\ parts = [i \in 0..Len(Tickers) |-> Missing]
    /\ oos = parts
    /\ model = Missing
    /\ step = "idle"
    /\ args = Missing
    /\ batch = 0
    /\ served = [s \in Traded |-> NoBars]
    /\ pipelines = 0 /\ crashes = 0 /\ outages = 0

files == <<cache, parts, oos, model>>
counts == <<today, pipelines, crashes, outages>>

\* main: the checks on the way to the first script.
StartRun(a) ==
    /\ step = "idle"
    /\ pipelines < MaxPipelines
    /\ args' = a
    /\ batch' = 1
    /\ served' = [s \in Traded |-> NoBars]
    /\ pipelines' = pipelines + 1
    /\ step' = IF a.skip THEN "train" ELSE "batch"
    /\ UNCHANGED <<today, crashes, outages, files>>

\* The pipeline ends, by an exception, an exit code or as it is done.
Ends == step' = "idle" /\ UNCHANGED <<args, batch, served, files, counts>>

\* One batch is exported to the final file and not merged.
NextBatch ==
    IF Batches(args) = 1 THEN step' = "train" /\ UNCHANGED batch
    ELSE IF batch < Batches(args) THEN step' = "batch" /\ batch' = batch + 1
    ELSE step' = "merge" /\ UNCHANGED batch

Resumes ==
    args.resume /\ Batches(args) > 1 /\ parts[batch] # Missing /\ oos[batch] # Missing

\* run_batched_backtest, --resume-batches: both files are there.
SkipBatch ==
    /\ step = "batch" /\ Resumes
    /\ NextBatch
    /\ UNCHANGED <<args, served, files, counts>>

\* backtest.py up to the replay.  A symbol the provider returns nothing of is
\* logged and left out; with no symbol left the script exits.  A file that cannot
\* be written is logged, and stays as it was or is left torn; its bars are used.
Load(lost, running) ==
    /\ step = "batch" /\ ~Resumes
    /\ lost \subseteq {s \in InBatch(args, batch) : ~Cached(s)}
    /\ outages + Cardinality(lost) <= MaxOutages
    /\ outages' = outages + Cardinality(lost)
    /\ LET got == {s \in InBatch(args, batch) : ~Cached(s) /\ s \notin lost}
           kept == {s \in InBatch(args, batch) : Cached(s)}
       IN  /\ \E saved, torn \in SUBSET got :
                  /\ cache' = [s \in Traded |-> IF s \in saved THEN Fetched(running)
                                               ELSE IF s \in torn THEN Torn ELSE cache[s]]
                  /\ crashes' = crashes + Cardinality(got \ saved)
                  /\ crashes' <= MaxCrashes
           /\ served' = [s \in Traded |->
                            IF s \in got \cup kept
                            THEN Requested(IF s \in got THEN Fetched(running) ELSE cache[s])
                            ELSE served[s]]
           /\ step' = IF got \cup kept = {} THEN "idle" ELSE "exportIn"
    /\ UNCHANGED <<args, batch, parts, oos, model, today, pipelines>>

ExportIn ==
    /\ step = "exportIn"
    /\ parts' = [parts EXCEPT ![Target] = Export(LabelsOf(TRUE), @)]
    /\ step' = "exportOos"
    /\ UNCHANGED <<cache, oos, model, args, batch, served, counts>>

ExportOos ==
    /\ step = "exportOos"
    /\ oos' = [oos EXCEPT ![Target] = Export(LabelsOf(FALSE), @)]
    /\ NextBatch
    /\ UNCHANGED <<cache, parts, model, args, served, counts>>

\* An unreadable part ends the run before the merged file is written.
Merge ==
    /\ step = "merge"
    /\ Torn \notin {parts[i] : i \in DOMAIN parts \ {0}}
    /\ parts' = [parts EXCEPT ![0] = Merged(parts)]
    /\ step' = "mergeOos"
    /\ UNCHANGED <<cache, oos, model, args, batch, served, counts>>

MergeOos ==
    /\ step = "mergeOos"
    /\ Torn \notin {oos[i] : i \in DOMAIN oos \ {0}}
    /\ oos' = [oos EXCEPT ![0] = Merged(oos)]
    /\ step' = "train"
    /\ UNCHANGED <<cache, parts, model, args, batch, served, counts>>

MergeFails ==
    /\ \/ step = "merge" /\ Torn \in {parts[i] : i \in DOMAIN parts \ {0}}
       \/ step = "mergeOos" /\ Torn \in {oos[i] : i \in DOMAIN oos \ {0}}
    /\ Ends

HasLabels == parts[0] \notin {Missing} \cup Unreadable

\* Too few rows, or no file that can be read: the older model stays.
TrainFails ==
    /\ step = "train"
    /\ IF HasLabels THEN Cardinality(FitRows(parts[0])) < MinRows ELSE TRUE
    /\ Ends

Train ==
    /\ step = "train"
    /\ HasLabels
    /\ LET rows == FitRows(parts[0])
       IN  /\ Cardinality(rows) >= MinRows
           /\ model' = [run |-> pipelines, rows |-> rows, folds |-> PurgedFolds(rows)]
    /\ step' = "trained"
    /\ UNCHANGED <<cache, parts, oos, args, batch, served, counts>>

Finish == step = "trained" /\ Ends

\* The process dies, maybe in the middle of a write.
Crash ==
    /\ step \notin {"idle", "trained"}
    /\ crashes < MaxCrashes
    /\ crashes' = crashes + 1
    /\ step' = "idle"
    /\ \/ UNCHANGED <<cache, parts, oos>>
       \/ /\ step = "batch" /\ ~Resumes
          /\ \E s \in InBatch(args, batch) : ~Cached(s) /\ cache' = [cache EXCEPT ![s] = Torn]
          /\ UNCHANGED <<parts, oos>>
       \/ /\ step = "exportIn" /\ LabelsOf(TRUE) # {}
          /\ \E broken \in Unreadable : parts' = [parts EXCEPT ![Target] = broken]
          /\ UNCHANGED <<cache, oos>>
       \/ /\ step = "exportOos" /\ LabelsOf(FALSE) # {}
          /\ \E broken \in Unreadable : oos' = [oos EXCEPT ![Target] = broken]
          /\ UNCHANGED <<cache, parts>>
       \/ /\ step = "merge" /\ Merged(parts) # Missing
          /\ parts' = [parts EXCEPT ![0] = Torn]
          /\ UNCHANGED <<cache, oos>>
    /\ UNCHANGED <<model, args, batch, served, today, pipelines, outages>>

\* Bound: no day passes in the middle of a run.
DayPasses ==
    /\ step = "idle" /\ today < LastDay
    /\ today' = today + 1
    /\ UNCHANGED <<files, args, batch, served, step, pipelines, crashes, outages>>

PipelineNext ==
    \/ \E a \in Arguments : StartRun(a)
    \/ SkipBatch
    \/ \E lost \in SUBSET Traded, running \in BOOLEAN : Load(lost, running)
    \/ ExportIn
    \/ ExportOos
    \/ Merge
    \/ MergeOos
    \/ MergeFails
    \/ TrainFails
    \/ Train
    \/ Finish
    \/ Crash
    \/ DayPasses

PipelineSpec == PipelineInit /\ [][PipelineNext]_pipelineVars

-----------------------------------------------------------------------------
(* Properties.                                                              *)

\* The slack of the cache: a file may stop short of either end of the window.
NearAnEnd(d) == d < args.start + Tolerance \/ d > args.end - Tolerance

\* The in-sample trades of a batch that this run asked for.
Asked(i) ==
    {t \in Trades[args.rvol] :
        /\ t.symbol \in InBatch(args, i)
        /\ DayOf(t.in) \in args.start..args.end
        /\ DayOf(t.in) <= today /\ DayOf(t.in) <= args.trainEnd}

\* Those that the slack cannot have cost the run, nor a silent provider, nor
\* that the batch was resumed.
Sure(i) ==
    {t \in Asked(i) :
        /\ ~NearAnEnd(DayOf(t.in))
        /\ served[t.symbol].days # {} \/ (outages = 0 /\ ~args.resume)}

PartOf(i) == IF Batches(args) = 1 THEN 0 ELSE i

\* A label that this run asked for, of a whole session but at the window's end.
Belongs(r) ==
    /\ \E i \in 1..Batches(args) : PartOf(i) = r.part /\ r.trade \in Asked(i)
    /\ \/ r.whole
       \/ DayOf(r.trade.in) >= args.end - Tolerance
       \/ DayOf(r.trade.in) = today

\* A model that a whole run of the pipeline has just fitted was fitted on the
\* labels the run's arguments ask for.  Every label that does not belong there
\* is an older run's, left in a part that this run has no batch for, or had
\* maybe nothing to export to; every one that is missing is of a symbol it got
\* no bars of, from the provider or as the batch was resumed, or within the
\* cache's slack of the window's ends; and only there, or today, is one the
\* label of an unfinished session (run_batched_backtest, export_labels,
\* BarStore.get).
ModelForCause ==
    step = "trained" /\ ~args.skip =>
        /\ \A r \in model.rows :
              IF r.run = pipelines THEN Belongs(r)
              ELSE Sure(IF Batches(args) = 1 THEN 1 ELSE r.part) = {}
        /\ \A i \in 1..Batches(args) : \A t \in Sure(i) :
              \/ t.symbol \in Holdout
              \/ \E r \in model.rows : r.trade = t /\ r.run = pipelines

\* What the model is judged by was not known to it: no fold's training rows
\* share a moment, nor the embargo after it, with a trade they are tested on,
\* and the model in use knows no held-out symbol and nothing after the cutoff
\* of the run that fitted it (train_meta_model.py).  The labels it is given may
\* be of several runs, and hold the same trade more than once.
NoLeakage ==
    step = "trained" =>
        /\ \A r \in model.rows :
              r.trade.symbol \notin Holdout /\ DayOf(r.trade.in) <= args.trainEnd
        /\ \A fold \in model.folds : \A r \in fold.train, x \in fold.test :
              \/ r.trade.out < x.trade.in
              \/ r.trade.in > x.trade.out + Embargo

-----------------------------------------------------------------------------
(* What the proofs of the two rest on.                                      *)

Label ==
    [trade : UNION {Trades[a.rvol] : a \in Arguments}, rvol : {a.rvol : a \in Arguments},
     run : 1..MaxPipelines, part : 0..Len(Tickers), whole : BOOLEAN]

Readable(file) == file \notin {Missing} \cup Unreadable

PipelineTypeOK ==
    /\ today \in Nat
    /\ cache = [s \in Traded |-> cache[s]]
    /\ \A s \in Traded : Readable(cache[s]) => cache[s].lo \in Nat /\ cache[s].hi \in 0..today
    /\ parts = [i \in 0..Len(Tickers) |-> parts[i]]
    /\ \A i \in 0..Len(Tickers) : Readable(parts[i]) => parts[i] \subseteq Label
    /\ step \in {"idle", "batch", "exportIn", "exportOos", "merge", "mergeOos", "train",
                 "trained"}
    /\ step # "idle" => args \in Arguments /\ batch \in 1..Batches(args) /\ pipelines > 0
    /\ served = [s \in Traded |-> served[s]]
    /\ \A s \in Traded : served[s].forming \in BOOLEAN
    /\ pipelines \in 0..MaxPipelines
    /\ outages \in Nat

\* A part holds the labels of its own batch, and none of a run to come.
LabelsOfRuns ==
    \A i \in 0..Len(Tickers) : Readable(parts[i]) =>
        \A r \in parts[i] : r.run <= pipelines /\ (i > 0 => r.part = i)

\* A backtest sees no day outside its window or ahead of time, and an
\* unfinished session only within the slack of the window's end, or today.
ServedInWindow ==
    step # "idle" => \A s \in Traded :
        /\ served[s].days \subseteq args.start..args.end
        /\ \A d \in served[s].days : d <= today
        /\ served[s].forming => \E d \in served[s].days : d >= args.end - Tolerance \/ d = today

\* The batches that this run has exported, or left as they were.
Exported(i) == i < batch \/ (i = batch /\ step \notin {"batch", "exportIn"})

\* Nothing is served before its batch.
NotYetServed ==
    step # "idle" /\ ~args.skip => \A i \in 1..Batches(args) :
        i > batch \/ (i = batch /\ step = "batch") =>
            \A s \in InBatch(args, i) : served[s].days = {}

\* A batch is served all of the window but the slack, save the symbols the
\* provider was silent about.
AllServed ==
    step = "exportIn" => \A s \in InBatch(args, batch) :
        \/ served[s].days = {} /\ outages > 0
        \/ \A d \in args.start..args.end :
              d <= today /\ ~NearAnEnd(d) => d \in served[s].days

RowsBelong ==
    step # "idle" => \A i \in 0..Len(Tickers) : Readable(parts[i]) =>
        \A r \in parts[i] : r.run = pipelines => Belongs(r)

\* An exported part is this run's and has all that can be expected of it; an
\* older one stays only where nothing could be.
PartsForCause ==
    step # "idle" /\ ~args.skip => \A i \in 1..Batches(args) :
        Exported(i) /\ Sure(i) # {} =>
            /\ Readable(parts[PartOf(i)])
            /\ \A r \in parts[PartOf(i)] : r.run = pipelines
            /\ \A t \in Sure(i) : \E r \in parts[PartOf(i)] : r.trade = t

\* A run that skips its backtests has none of their steps, and one that does
\* not goes through all of its batches.
Stages ==
    /\ step \in {"batch", "exportIn", "exportOos", "merge", "mergeOos"} => ~args.skip
    /\ step \in {"merge", "mergeOos"} => Batches(args) # 1
    /\ step \in {"merge", "mergeOos", "train", "trained"} /\ ~args.skip => batch = Batches(args)

\* What is fitted is the parts together, when there are several.
MergedParts ==
    step \in {"mergeOos", "train", "trained"} /\ ~args.skip /\ Batches(args) # 1 =>
        /\ \A i \in 1..Len(Tickers) : parts[i] # Torn
        /\ parts[0] = Merged(parts)

ModelFits ==
    step = "trained" =>
        /\ HasLabels
        /\ model.rows = FitRows(parts[0])
        /\ model.folds = PurgedFolds(model.rows)

LabelsInv ==
    PipelineTypeOK /\ LabelsOfRuns /\ ServedInWindow /\ NotYetServed /\ AllServed
    /\ RowsBelong /\ PartsForCause /\ Stages /\ MergedParts /\ ModelFits
=============================================================================
