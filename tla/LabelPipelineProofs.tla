------------------------ MODULE LabelPipelineProofs ------------------------
(***************************************************************************)
(* Theorems about the label pipeline, for any universe, any trades, any     *)
(* arguments of its runs, and any number of runs, crashes and outages.      *)
(***************************************************************************)
EXTENDS LabelPipeline, WellFoundedInduction, FiniteSetTheorems, TLAPS

-----------------------------------------------------------------------------
(* Times and batches.                                                      *)

\* A set of numbers that is not empty has a least one.
LEMMA LeastExists ==
    ASSUME NEW S \in SUBSET Nat, S # {}
    PROVE  \E m \in S : \A x \in S : m <= x
  <1> DEFINE R == OpToRel(<, Nat)
  <1>1. PICK m \in S : \A x \in S : <<x, m>> \notin R
    <2>1. IsWellFoundedOn(R, Nat)
      BY NatLessThanWellFounded
    <2> HIDE DEF R
    <2> QED BY <2>1, WFMin
  <1>2. ASSUME NEW x \in S
        PROVE  m <= x
    <2>1. x \in Nat /\ m \in Nat
      OBVIOUS
    <2>2. ~(x < m)
      BY <1>1, <2>1 DEF OpToRel
    <2> QED BY <2>1, <2>2
  <1> QED BY <1>2

\* No time of a set is before its earliest.
LEMMA EarliestIsFirst ==
    ASSUME NEW times \in SUBSET Nat, NEW x \in times
    PROVE  Earliest(times) \in times /\ Earliest(times) <= x
  <1>1. \E m \in times : \A y \in times : m <= y
    BY LeastExists
  <1> QED BY <1>1 DEF Earliest

\* No time of a set below a bound is after its latest.
LEMMA LatestIsLast ==
    ASSUME NEW n \in Nat, NEW times \in SUBSET (0..n), NEW x \in times
    PROVE  Latest(times) \in times /\ x <= Latest(times)
  <1> DEFINE Left == {n - y : y \in times}
  <1>1. Left \in SUBSET Nat /\ n - x \in Left
    OBVIOUS
  <1>2. PICK m \in Left : \A y \in Left : m <= y
    <2> HIDE DEF Left
    <2> QED BY <1>1, LeastExists
  <1>3. PICK z \in times : m = n - z
    BY <1>2
  <1>4. ASSUME NEW y \in times
        PROVE  y <= z
    <2>1. n - z <= n - y
      BY <1>2, <1>3
    <2> QED BY <2>1
  <1>5. \E w \in times : \A y \in times : y <= w
    BY <1>4
  <1> QED BY <1>5 DEF Latest

\* What the assumption says of one run's arguments.
LEMMA ArgumentsFit ==
    ASSUME NEW a \in Arguments
    PROVE  /\ a.start \in Nat /\ a.end \in Nat /\ a.trainEnd \in Nat /\ a.batch \in Nat
           /\ a.resume \in BOOLEAN /\ a.skip \in BOOLEAN
  BY PipelineAssumption DEF PipelineAssumption

LEMMA TickersFit ==
    /\ Len(Tickers) \in Nat /\ DOMAIN Tickers = 1..Len(Tickers)
    /\ \A k \in 1..Len(Tickers) : Tickers[k] \in Traded
  <1>1. Tickers \in Seq(ToSet(Tickers))
    BY PipelineAssumption DEF PipelineAssumption
  <1>2. Len(Tickers) \in Nat /\ DOMAIN Tickers = 1..Len(Tickers)
    BY <1>1
  <1> QED BY <1>2 DEF Traded, ToSet

LEMMA TradedIsFinite == IsFiniteSet(Traded)
  <1>1. Tickers \in [1..Len(Tickers) -> Traded]
    BY PipelineAssumption DEF PipelineAssumption, Traded
  <1>2. \A s \in Traded : \E k \in 1..Len(Tickers) : Tickers[k] = s
    BY TickersFit DEF Traded, ToSet
  <1>3. Tickers \in Surjection(1..Len(Tickers), Traded)
    BY <1>1, <1>2 DEF Surjection
  <1>4. IsFiniteSet(1..Len(Tickers))
    BY TickersFit, FS_Interval
  <1> QED BY <1>3, <1>4, FS_Surjection

\* There is a batch, and there are no more of them than symbols.
LEMMA BatchesInRange ==
    ASSUME NEW a \in Arguments
    PROVE  /\ Batches(a) \in Nat \ {0}
           /\ Batches(a) # 1 => Batches(a) <= Len(Tickers) /\ a.batch # 0 /\ a.batch \in Nat
                                /\ Batches(a) = (Len(Tickers) + a.batch - 1) \div a.batch
  <1>1. a.batch \in Nat /\ Len(Tickers) \in Nat
    BY ArgumentsFit, TickersFit
  <1>2. CASE a.batch = 0 \/ Len(Tickers) <= a.batch
    BY <1>2 DEF Batches
  <1>3. CASE a.batch # 0 /\ Len(Tickers) > a.batch
    <2>1. Batches(a) = (Len(Tickers) + a.batch - 1) \div a.batch
      BY <1>3, <1>1 DEF Batches
    <2>2. ASSUME NEW n \in Nat, NEW b \in Nat, b # 0, n > b
          PROVE  (n + b - 1) \div b \in 1..n
      BY <2>2
    <2>3. (Len(Tickers) + a.batch - 1) \div a.batch \in 1..Len(Tickers)
      BY <2>2, <1>1, <1>3
    <2> QED BY <2>1, <2>3, <1>1, <1>3
  <1> QED BY <1>1, <1>2, <1>3

LEMMA BatchIsTraded ==
    ASSUME NEW a, NEW i
    PROVE  InBatch(a, i) \subseteq Traded
  BY TickersFit DEF InBatch

\* The universe file lists a symbol once.  Nothing in the code sees to it, and
\* with a symbol in two batches the second may be served what the first was not.
TickersAreDistinct ==
    \A j, k \in DOMAIN Tickers : Tickers[j] = Tickers[k] => j = k

\* Then no symbol is in two batches.
LEMMA BatchesAreApart ==
    ASSUME NEW a \in Arguments, TickersAreDistinct,
           NEW i \in 1..Batches(a), NEW j \in 1..Batches(a),
           NEW s \in InBatch(a, i), s \in InBatch(a, j)
    PROVE  i = j
  <1>1. CASE Batches(a) = 1
    BY <1>1
  <1>2. CASE Batches(a) # 1
    <2>1. PICK k \in DOMAIN Tickers : s = Tickers[k] /\ (k - 1) \div a.batch = i - 1
      BY <1>2 DEF InBatch
    <2>2. PICK l \in DOMAIN Tickers : s = Tickers[l] /\ (l - 1) \div a.batch = j - 1
      BY <1>2 DEF InBatch
    <2>3. k = l
      BY <2>1, <2>2 DEF TickersAreDistinct
    <2>4. Batches(a) \in Nat
      BY BatchesInRange
    <2> QED BY <2>1, <2>2, <2>3, <2>4
  <1> QED BY <1>1, <1>2

\* A number that no batch has, as older files may, has no symbols.
LEMMA NothingBeyond ==
    ASSUME NEW a \in Arguments, Batches(a) # 1, NEW i \in Nat, i > Batches(a)
    PROVE  InBatch(a, i) = {}
  <1>1. /\ a.batch \in Nat \ {0} /\ Len(Tickers) \in Nat /\ DOMAIN Tickers = 1..Len(Tickers)
        /\ Batches(a) = (Len(Tickers) + a.batch - 1) \div a.batch
    BY BatchesInRange, TickersFit
  <1>2. ASSUME NEW n \in Nat, NEW b \in Nat \ {0}, NEW k \in 1..n, NEW m \in Nat,
               m > (n + b - 1) \div b
        PROVE  (k - 1) \div b # m - 1
    BY <1>2
  <1>3. \A k \in DOMAIN Tickers : (k - 1) \div a.batch # i - 1
    BY <1>1, <1>2
  <1> QED BY <1>3 DEF InBatch

-----------------------------------------------------------------------------
(* Types.                                                                  *)

\* Where the running backtest exports to is one of the files, and the part of
\* its batch.
LEMMA TargetIsAFile ==
    ASSUME args \in Arguments, batch \in 1..Batches(args)
    PROVE  /\ Target \in 0..Len(Tickers) /\ Target = PartOf(batch)
           /\ \A i \in 1..Batches(args) : PartOf(i) \in 0..Len(Tickers)
           /\ \A i \in 1..Batches(args) : PartOf(i) = Target => i = batch
           /\ Target > 0 => Target = batch
  <1>1. Batches(args) \in Nat \ {0} /\ (Batches(args) # 1 => Batches(args) <= Len(Tickers))
    BY BatchesInRange
  <1>2. Len(Tickers) \in Nat
    BY TickersFit
  <1>3. CASE Batches(args) = 1
    BY <1>2, <1>3 DEF Target, PartOf
  <1>4. CASE Batches(args) # 1
    BY <1>1, <1>2, <1>4 DEF Target, PartOf
  <1> QED BY <1>3, <1>4

\* The labels of a backtest are labels of this run, made for this part.
LEMMA LabelsAreLabels ==
    ASSUME PipelineTypeOK, step # "idle", NEW inSample \in BOOLEAN
    PROVE  /\ LabelsOf(inSample) \subseteq Label
           /\ \A r \in LabelsOf(inSample) : r.run = pipelines /\ r.part = Target
  <1>1. args \in Arguments /\ batch \in 1..Batches(args)
    BY DEF PipelineTypeOK
  <1>2. Target \in 0..Len(Tickers) /\ pipelines \in 1..MaxPipelines
    BY <1>1, TargetIsAFile, PipelineAssumption DEF PipelineTypeOK, PipelineAssumption
  <1>3. ASSUME NEW r \in LabelsOf(inSample)
        PROVE  r \in Label /\ r.run = pipelines /\ r.part = Target
    <2>1. PICK t \in Trades[args.rvol] :
              r = [trade |-> t, rvol |-> args.rvol, run |-> pipelines, part |-> Target,
                   whole |-> ~(served[t.symbol].forming
                       /\ \A d \in served[t.symbol].days : d <= DayOf(t.in))]
      BY <1>3 DEF LabelsOf
    <2>2. t \in UNION {Trades[a.rvol] : a \in Arguments} /\ args.rvol \in {a.rvol : a \in Arguments}
      BY <1>1
    <2> DEFINE w == ~(served[t.symbol].forming
                      /\ \A d \in served[t.symbol].days : d <= DayOf(t.in))
    <2>3. w \in BOOLEAN
      OBVIOUS
    <2>4. r = [trade |-> t, rvol |-> args.rvol, run |-> pipelines, part |-> Target, whole |-> w]
      BY <2>1
    <2> HIDE DEF w
    <2> QED BY <2>2, <2>3, <2>4, <1>2 DEF Label
  <1> QED BY <1>3

LEMMA TypeInit == PipelineInit => PipelineTypeOK
  <1> SUFFICES ASSUME PipelineInit
               PROVE  PipelineTypeOK
    OBVIOUS
  <1>1. FirstDay \in Nat /\ MaxPipelines \in Nat
    BY PipelineAssumption DEF PipelineAssumption
  <1>2. parts = [i \in 0..Len(Tickers) |-> Missing] /\ cache = [s \in Traded |-> Missing]
        /\ served = [s \in Traded |-> NoBars]
    BY DEF PipelineInit
  <1>3. parts = [i \in 0..Len(Tickers) |-> parts[i]] /\ cache = [s \in Traded |-> cache[s]]
        /\ served = [s \in Traded |-> served[s]]
    BY <1>2
  <1>4. \A s \in Traded : served[s].forming = FALSE
    BY <1>2 DEF NoBars
  <1>5. \A s \in Traded : cache[s] = Missing
    BY <1>2
  <1>6. \A i \in 0..Len(Tickers) : parts[i] = Missing
    BY <1>2
  <1>7. step = "idle" /\ pipelines = 0 /\ outages = 0 /\ today = FirstDay
    BY DEF PipelineInit
  <1>8. pipelines \in 0..MaxPipelines /\ outages \in Nat /\ today \in Nat
    BY <1>1, <1>7
  <1>9. /\ \A s \in Traded : served[s].forming \in BOOLEAN
        /\ \A s \in Traded : ~Readable(cache[s])
        /\ \A i \in 0..Len(Tickers) : ~Readable(parts[i])
    BY <1>4, <1>5, <1>6 DEF Readable
  <1> QED BY <1>3, <1>7, <1>8, <1>9 DEF PipelineTypeOK

\* Moving on to the next batch keeps to the batches there are.
LEMMA NextBatchFits ==
    ASSUME args \in Arguments, batch \in 1..Batches(args), NextBatch
    PROVE  /\ batch' \in 1..Batches(args)
           /\ \/ step' = "train" /\ batch' = batch /\ Batches(args) = 1
              \/ step' = "batch" /\ batch' = batch + 1
              \/ step' = "merge" /\ batch' = batch /\ batch = Batches(args) /\ Batches(args) # 1
  <1>1. Batches(args) \in Nat \ {0}
    BY BatchesInRange
  <1> QED BY <1>1 DEF NextBatch

LEMMA TypeNext ==
    ASSUME PipelineTypeOK, [PipelineNext]_pipelineVars
    PROVE  PipelineTypeOK'
  <1> USE DEF Readable, Unreadable
  <1>1. ASSUME NEW a \in Arguments, StartRun(a)
        PROVE  PipelineTypeOK'
    <2>1. 1 \in 1..Batches(a)
      BY BatchesInRange
    <2>2. served' = [s \in Traded |-> served'[s]] /\ \A s \in Traded : served'[s].forming = FALSE
      BY <1>1 DEF StartRun, NoBars
    <2>3. pipelines + 1 \in 0..MaxPipelines /\ pipelines + 1 > 0
      BY <1>1, PipelineAssumption DEF PipelineAssumption, PipelineTypeOK, StartRun
    <2>4. step' \in {"train", "batch"}
      BY <1>1 DEF StartRun
    <2> QED BY <1>1, <2>1, <2>2, <2>3, <2>4 DEF PipelineTypeOK, StartRun, files
  <1>2. CASE SkipBatch
    <2>1. args \in Arguments /\ batch \in 1..Batches(args)
      BY <1>2 DEF SkipBatch, PipelineTypeOK
    <2>2. batch' \in 1..Batches(args) /\ step' \in {"train", "batch", "merge"}
      BY <1>2, <2>1, NextBatchFits DEF SkipBatch
    <2> QED BY <1>2, <2>1, <2>2 DEF PipelineTypeOK, SkipBatch, files, counts
  <1>3. ASSUME NEW lost \in SUBSET Traded, NEW running \in BOOLEAN, Load(lost, running)
        PROVE  PipelineTypeOK'
    <2> DEFINE got == {s \in InBatch(args, batch) : ~Cached(s) /\ s \notin lost}
               kept == {s \in InBatch(args, batch) : Cached(s)}
    <2>1. /\ \E saved, torn \in SUBSET got :
                cache' = [s \in Traded |-> IF s \in saved THEN Fetched(running)
                                          ELSE IF s \in torn THEN Torn ELSE cache[s]]
          /\ served' = [s \in Traded |->
                            IF s \in got \cup kept
                            THEN Requested(IF s \in got THEN Fetched(running) ELSE cache[s])
                            ELSE served[s]]
          /\ step' \in {"idle", "exportIn"} /\ UNCHANGED <<args, batch, parts, today, pipelines>>
      BY <1>3 DEF Load
    <2> HIDE DEF got, kept
    <2>2. args \in Arguments /\ args.start \in Nat /\ args.end \in Nat
      BY <1>3, ArgumentsFit DEF Load, PipelineTypeOK
    <2>3. Fetched(running).lo \in Nat /\ Fetched(running).hi \in 0..today
      BY <2>2 DEF Fetched, PipelineTypeOK
    <2>4. /\ \A s \in Traded : Readable(cache'[s]) => cache'[s].lo \in Nat /\ cache'[s].hi \in 0..today
          /\ cache' = [s \in Traded |-> cache'[s]]
      <3>1. PICK saved \in SUBSET got, torn \in SUBSET got :
               cache' = [s \in Traded |-> IF s \in saved THEN Fetched(running)
                                         ELSE IF s \in torn THEN Torn ELSE cache[s]]
        BY <2>1
      <3>2. ~Readable(Torn)
        BY DEF Readable, Unreadable
      <3> QED BY <2>3, <3>1, <3>2 DEF PipelineTypeOK
    <2>5. /\ Requested(Fetched(running)).forming \in BOOLEAN
          /\ \A s \in Traded : Requested(cache[s]).forming \in BOOLEAN
      BY DEF Requested
    <2>6. \A s \in Traded : served'[s].forming \in BOOLEAN
      BY <2>1, <2>5 DEF PipelineTypeOK
    <2>7. outages' \in Nat
      <3>1. outages' = outages + Cardinality(lost) /\ lost \subseteq InBatch(args, batch)
        BY <1>3 DEF Load
      <3>2. Cardinality(lost) \in Nat
        BY TradedIsFinite, FS_Subset, FS_CardinalityType
      <3> QED BY <3>1, <3>2 DEF PipelineTypeOK
    <2>8. cache' = [s \in Traded |-> cache'[s]] /\ served' = [s \in Traded |-> served'[s]]
      BY <2>1, <2>4
    <2>9. step = "batch"
      BY <1>3 DEF Load
    <2>10. args' \in Arguments /\ batch' \in 1..Batches(args') /\ pipelines' > 0
      BY <2>1, <2>9 DEF PipelineTypeOK
    <2> QED BY <2>1, <2>4, <2>6, <2>7, <2>8, <2>10 DEF PipelineTypeOK
  <1>4. CASE ExportIn
    <2>1. args \in Arguments /\ batch \in 1..Batches(args)
      BY <1>4 DEF ExportIn, PipelineTypeOK
    <2>2. LabelsOf(TRUE) \subseteq Label
      BY <1>4, LabelsAreLabels DEF ExportIn
    <2>3. parts' = [parts EXCEPT ![Target] = Export(LabelsOf(TRUE), parts[Target])]
      BY <1>4 DEF ExportIn
    <2>4. \A i \in 0..Len(Tickers) :
              parts'[i] = IF i = Target THEN Export(LabelsOf(TRUE), parts[i]) ELSE parts[i]
      BY <2>3 DEF PipelineTypeOK
    <2>5. \A i \in 0..Len(Tickers) : Readable(parts'[i]) => parts'[i] \subseteq Label
      BY <2>2, <2>4 DEF PipelineTypeOK, Export
    <2>6. parts' = [i \in 0..Len(Tickers) |-> parts'[i]]
      BY <2>3 DEF PipelineTypeOK
    <2> QED BY <1>4, <2>1, <2>5, <2>6 DEF PipelineTypeOK, ExportIn, counts
  <1>5. CASE ExportOos
    <2>1. args \in Arguments /\ batch \in 1..Batches(args)
      BY <1>5 DEF ExportOos, PipelineTypeOK
    <2>2. batch' \in 1..Batches(args) /\ step' \in {"train", "batch", "merge"}
      BY <1>5, <2>1, NextBatchFits DEF ExportOos
    <2> QED BY <1>5, <2>1, <2>2 DEF PipelineTypeOK, ExportOos, counts
  <1>6. CASE Merge
    <2>1. parts' = [parts EXCEPT ![0] = Merged(parts)]
      BY <1>6 DEF Merge
    <2>2. DOMAIN parts = 0..Len(Tickers) /\ 0 \in 0..Len(Tickers)
      BY TickersFit DEF PipelineTypeOK
    <2>3. \A i \in 0..Len(Tickers) : i > 0 => parts[i] # Torn
      BY <1>6, <2>2 DEF Merge
    <2>4. Readable(Merged(parts)) => Merged(parts) \subseteq Label
      <3> DEFINE present == {i \in DOMAIN parts : i > 0 /\ parts[i] \notin {Missing, Empty}}
      <3>1. \A i \in present : parts[i] \subseteq Label
        BY <2>2, <2>3 DEF PipelineTypeOK
      <3>2. present = {} => Merged(parts) = Missing
        BY DEF Merged
      <3>3. present # {} => Merged(parts) = UNION {parts[i] : i \in present}
        BY DEF Merged
      <3> HIDE DEF present
      <3> QED BY <3>1, <3>2, <3>3
    <2>5. \A i \in 0..Len(Tickers) : parts'[i] = IF i = 0 THEN Merged(parts) ELSE parts[i]
      BY <2>1, <2>2 DEF PipelineTypeOK
    <2>6. parts' = [i \in 0..Len(Tickers) |-> parts'[i]]
      BY <2>1 DEF PipelineTypeOK
    <2>7. \A i \in 0..Len(Tickers) : Readable(parts'[i]) => parts'[i] \subseteq Label
      BY <2>4, <2>5 DEF PipelineTypeOK
    <2> QED BY <1>6, <2>6, <2>7 DEF PipelineTypeOK, Merge, counts
  <1>7. CASE MergeOos
    BY <1>7 DEF PipelineTypeOK, MergeOos, counts
  <1>8. CASE MergeFails
    BY <1>8 DEF PipelineTypeOK, MergeFails, Ends, files, counts
  <1>9. CASE TrainFails
    BY <1>9 DEF PipelineTypeOK, TrainFails, Ends, files, counts
  <1>10. CASE Train
    BY <1>10 DEF PipelineTypeOK, Train, counts
  <1>11. CASE Finish
    BY <1>11 DEF PipelineTypeOK, Finish, Ends, files, counts
  <1>12. CASE Crash
    <2>1. /\ cache' = cache \/ \E s \in Traded : cache' = [cache EXCEPT ![s] = Torn]
          /\ parts' = parts \/ \E i \in 0..Len(Tickers), broken \in {Missing, Torn, Empty} :
                                   parts' = [parts EXCEPT ![i] = broken]
      <3>1. args \in Arguments /\ batch \in 1..Batches(args)
        BY <1>12 DEF Crash, PipelineTypeOK
      <3>2. Target \in 0..Len(Tickers) /\ 0 \in 0..Len(Tickers)
        BY <3>1, TargetIsAFile, TickersFit
      <3> QED BY <1>12, <3>2, BatchIsTraded DEF Crash
    <2>2. \A s \in Traded : cache'[s] = cache[s] \/ cache'[s] = Torn
      BY <2>1 DEF PipelineTypeOK
    <2>3. \A i \in 0..Len(Tickers) : parts'[i] = parts[i] \/ parts'[i] \in {Missing, Torn, Empty}
      BY <2>1 DEF PipelineTypeOK
    <2>4. cache' = [s \in Traded |-> cache'[s]] /\ parts' = [i \in 0..Len(Tickers) |-> parts'[i]]
      BY <2>1 DEF PipelineTypeOK
    <2> QED BY <1>12, <2>2, <2>3, <2>4 DEF PipelineTypeOK, Crash
  <1>13. CASE DayPasses
    BY <1>13 DEF PipelineTypeOK, DayPasses, files
  <1>14. CASE UNCHANGED pipelineVars
    BY <1>14 DEF PipelineTypeOK, pipelineVars
  <1> QED BY <1>1, <1>2, <1>3, <1>4, <1>5, <1>6, <1>7, <1>8, <1>9, <1>10, <1>11, <1>12, <1>13,
             <1>14 DEF PipelineNext

-----------------------------------------------------------------------------
(* Leakage.                                                                *)

\* The steps that leave a run where it was are the stuttering ones.
LEMMA TrainedByTrain ==
    ASSUME PipelineTypeOK, [PipelineNext]_pipelineVars, step' = "trained"
    PROVE  Train \/ UNCHANGED pipelineVars
  <1>1. ASSUME NEW a \in Arguments, StartRun(a)
        PROVE  FALSE
    BY <1>1 DEF StartRun
  <1>2. ASSUME NEW lost \in SUBSET Traded, NEW running \in BOOLEAN, Load(lost, running)
        PROVE  FALSE
    BY <1>2 DEF Load
  <1>3. ~(SkipBatch \/ ExportIn \/ ExportOos)
    BY DEF SkipBatch, ExportIn, ExportOos, NextBatch
  <1>4. ~(Merge \/ MergeOos \/ MergeFails \/ TrainFails \/ Finish \/ Crash)
    BY DEF Merge, MergeOos, MergeFails, TrainFails, Finish, Crash, Ends
  <1>5. ~DayPasses
    BY DEF DayPasses
  <1> QED BY <1>1, <1>2, <1>3, <1>4, <1>5 DEF PipelineNext

LEMMA ModelNext ==
    ASSUME PipelineTypeOK, ModelFits, [PipelineNext]_pipelineVars
    PROVE  ModelFits'
  <1> SUFFICES ASSUME step' = "trained"
               PROVE  ModelFits'
    BY DEF ModelFits
  <1>1. CASE Train
    <2> DEFINE rows == FitRows(parts[0])
    <2>1. /\ HasLabels /\ model' = [run |-> pipelines, rows |-> rows, folds |-> PurgedFolds(rows)]
          /\ UNCHANGED <<parts, args>>
      BY <1>1 DEF Train
    <2>2. FitRows(parts[0])' = rows /\ HasLabels'
      BY <2>1 DEF FitRows, HasLabels
    <2> HIDE DEF rows
    <2>3. model'.rows = rows /\ model'.folds = PurgedFolds(rows)
      BY <2>1
    <2> QED BY <2>2, <2>3 DEF ModelFits
  <1>2. CASE UNCHANGED pipelineVars
    BY <1>2 DEF pipelineVars, ModelFits, FitRows, HasLabels
  <1> QED BY <1>1, <1>2, TrainedByTrain

\* What the purge leaves is apart from the block it is tested on.
LEMMA PurgedIsApart ==
    ASSUME NEW rows \in SUBSET Label, NEW test \in SUBSET rows,
           NEW r \in Purged(rows, test), NEW x \in test
    PROVE  \/ r.trade.out < x.trade.in
           \/ r.trade.in > x.trade.out + Embargo
  <1> DEFINE n == (LastDay + 1) * DayLength
             ins == {y.trade.in : y \in test}
             outs == {y.trade.out : y \in test}
  <1>1. n \in Nat /\ Embargo \in Nat
    BY PipelineAssumption DEF PipelineAssumption
  <1>2. \A y \in rows : y.trade.in \in 0..n /\ y.trade.out \in 0..n
    <2>1. \A a \in Arguments : \A t \in Trades[a.rvol] : t.in \in 0..n /\ t.out \in 0..n
      BY PipelineAssumption DEF PipelineAssumption
    <2> HIDE DEF n
    <2> QED BY <2>1 DEF Label
  <1> HIDE DEF n
  <1>3. r \in rows /\ (r.trade.out < Earliest(ins) \/ r.trade.in > Latest(outs) + Embargo)
    BY DEF Purged, TestEnd
  <1>4. ins \subseteq 0..n /\ outs \subseteq 0..n /\ x.trade.in \in ins /\ x.trade.out \in outs
    BY <1>2
  <1>5. ins \in SUBSET Nat
    BY <1>4, <1>1
  <1> HIDE DEF ins, outs
  <1>6. Earliest(ins) \in ins /\ Earliest(ins) <= x.trade.in
    BY <1>4, <1>5, EarliestIsFirst
  <1>7. Latest(outs) \in outs /\ x.trade.out <= Latest(outs)
    BY <1>1, <1>4, LatestIsLast
  <1>8. /\ r.trade.in \in Nat /\ r.trade.out \in Nat /\ x.trade.in \in Nat /\ x.trade.out \in Nat
        /\ Earliest(ins) \in Nat /\ Latest(outs) \in Nat
    <2>1. x \in rows
      OBVIOUS
    <2>2. r.trade.in \in 0..n /\ r.trade.out \in 0..n /\ x.trade.in \in 0..n /\ x.trade.out \in 0..n
      BY <1>2, <1>3, <2>1
    <2>3. Earliest(ins) \in 0..n /\ Latest(outs) \in 0..n
      BY <1>4, <1>6, <1>7
    <2> QED BY <1>1, <2>2, <2>3
  <1> QED BY <1>1, <1>3, <1>6, <1>7, <1>8

LEMMA FitsDoNotLeak == PipelineTypeOK /\ ModelFits => NoLeakage
  <1> SUFFICES ASSUME PipelineTypeOK, ModelFits, step = "trained"
               PROVE  NoLeakage
    BY DEF NoLeakage
  <1>1. parts[0] \subseteq Label
    <2>1. 0 \in 0..Len(Tickers)
      BY TickersFit
    <2> QED BY <2>1 DEF ModelFits, HasLabels, PipelineTypeOK, Readable, Unreadable
  <1>2. model.rows \subseteq Label /\ \A r \in model.rows :
            r.trade.symbol \notin Holdout /\ DayOf(r.trade.in) <= args.trainEnd
    BY <1>1 DEF ModelFits, FitRows
  <1>3. ASSUME NEW fold \in model.folds, NEW r \in fold.train, NEW x \in fold.test
        PROVE  \/ r.trade.out < x.trade.in
               \/ r.trade.in > x.trade.out + Embargo
    <2>1. PICK k \in 1..Folds : fold = [test |-> Block(model.rows, k),
                                        train |-> Purged(model.rows, Block(model.rows, k))]
      BY <1>3 DEF ModelFits, PurgedFolds
    <2>2. Block(model.rows, k) \subseteq model.rows
      BY DEF Block
    <2>3. r \in Purged(model.rows, Block(model.rows, k)) /\ x \in Block(model.rows, k)
      BY <1>3, <2>1
    <2> HIDE DEF Block
    <2> QED BY <1>2, <2>2, <2>3, PurgedIsApart
  <1> QED BY <1>2, <1>3 DEF NoLeakage

\* The model in use is judged by trades it does not know, and knows nothing it
\* must not, whatever files of earlier runs it was given
\* (train_meta_model.py:41-85, 116-128).
THEOREM NothingLeaks == PipelineSpec => [](PipelineTypeOK /\ NoLeakage)
  <1>1. PipelineInit => PipelineTypeOK /\ ModelFits
    BY TypeInit DEF PipelineInit, ModelFits
  <1>2. PipelineTypeOK /\ ModelFits /\ [PipelineNext]_pipelineVars => (PipelineTypeOK /\ ModelFits)'
    BY TypeNext, ModelNext
  <1>3. PipelineTypeOK /\ ModelFits => NoLeakage
    BY FitsDoNotLeak
  <1> QED BY <1>1, <1>2, <1>3, PTL DEF PipelineSpec

-----------------------------------------------------------------------------
(* The labels of a run.                                                    *)

\* What goes on in the middle of a run.
LEMMA RunGoesOn ==
    ASSUME PipelineTypeOK, [PipelineNext]_pipelineVars, step' # "idle"
    PROVE  \/ \E a \in Arguments : StartRun(a)
           \/ /\ step # "idle" /\ UNCHANGED <<args, today, pipelines>>
              /\ \/ SkipBatch
                 \/ \E lost \in SUBSET Traded, running \in BOOLEAN : Load(lost, running)
                 \/ ExportIn
                 \/ ExportOos
                 \/ Merge
                 \/ MergeOos /\ UNCHANGED <<parts, batch, served, outages>>
                 \/ Train /\ UNCHANGED <<parts, batch, served, outages>>
                 \/ UNCHANGED pipelineVars
  <1>1. CASE SkipBatch
    BY <1>1 DEF SkipBatch, counts
  <1>2. ASSUME NEW lost \in SUBSET Traded, NEW running \in BOOLEAN, Load(lost, running)
        PROVE  step # "idle" /\ UNCHANGED <<args, today, pipelines>>
    BY <1>2 DEF Load
  <1>3. CASE ExportIn \/ ExportOos
    BY <1>3 DEF ExportIn, ExportOos, counts
  <1>4. CASE Merge \/ MergeOos
    BY <1>4 DEF Merge, MergeOos, counts
  <1>5. CASE Train
    BY <1>5 DEF Train, counts
  <1>6. ~(MergeFails \/ TrainFails \/ Finish \/ Crash)
    BY DEF MergeFails, TrainFails, Finish, Crash, Ends
  <1>7. ~DayPasses
    BY DEF DayPasses
  <1>8. CASE UNCHANGED pipelineVars
    BY <1>8 DEF pipelineVars
  <1> QED BY <1>1, <1>2, <1>3, <1>4, <1>5, <1>6, <1>7, <1>8 DEF PipelineNext

\* What is asked of a run does not change in its middle.
LEMMA AskedFrame ==
    ASSUME UNCHANGED <<args, today>>, NEW i, NEW r, NEW d
    PROVE  /\ Asked(i)' = Asked(i) /\ PartOf(i)' = PartOf(i) /\ Belongs(r)' = Belongs(r)
           /\ NearAnEnd(d)' = NearAnEnd(d) /\ InBatch(args, i)' = InBatch(args, i)
           /\ Batches(args)' = Batches(args)
  <1>1. Batches(args)' = Batches(args)
    OBVIOUS
  <1>2. \A j : InBatch(args, j)' = InBatch(args, j)
    BY <1>1 DEF InBatch
  <1>3. \A j : Asked(j)' = Asked(j) /\ PartOf(j)' = PartOf(j)
    BY <1>1, <1>2 DEF Asked, PartOf
  <1> QED BY <1>1, <1>2, <1>3 DEF Belongs, NearAnEnd

LEMMA SureFrame ==
    ASSUME UNCHANGED <<args, today, served, outages>>, NEW i
    PROVE  Sure(i)' = Sure(i)
  BY AskedFrame DEF Sure, NearAnEnd

\* How a file of in-sample labels comes by what it holds.
LEMMA PartsStep ==
    ASSUME PipelineTypeOK, [PipelineNext]_pipelineVars, NEW i \in 0..Len(Tickers),
           Readable(parts'[i])
    PROVE  \/ parts'[i] = parts[i]
           \/ ExportIn /\ i = Target /\ parts'[i] = LabelsOf(TRUE) /\ LabelsOf(TRUE) # {}
           \/ Merge /\ i = 0 /\ parts'[i] = Merged(parts)
  <1>1. CASE ExportIn
    <2>1. parts' = [parts EXCEPT ![Target] = Export(LabelsOf(TRUE), parts[Target])]
      BY <1>1 DEF ExportIn
    <2>2. parts'[i] = IF i = Target THEN Export(LabelsOf(TRUE), parts[i]) ELSE parts[i]
      BY <2>1 DEF PipelineTypeOK
    <2> QED BY <1>1, <2>2 DEF Export
  <1>2. CASE Merge
    <2>1. parts' = [parts EXCEPT ![0] = Merged(parts)]
      BY <1>2 DEF Merge
    <2> QED BY <1>2, <2>1 DEF PipelineTypeOK
  <1>3. CASE Crash
    <2>1. \/ parts' = parts
          \/ \E j \in 0..Len(Tickers), broken \in Unreadable : parts' = [parts EXCEPT ![j] = broken]
      <3>1. args \in Arguments /\ batch \in 1..Batches(args)
        BY <1>3 DEF Crash, PipelineTypeOK
      <3>2. Target \in 0..Len(Tickers) /\ 0 \in 0..Len(Tickers) /\ Torn \in Unreadable
        BY <3>1, TargetIsAFile, TickersFit DEF Unreadable
      <3> QED BY <1>3, <3>2 DEF Crash
    <2> QED BY <2>1 DEF PipelineTypeOK, Readable, Unreadable
  <1>4. ASSUME NEW a \in Arguments, StartRun(a)
        PROVE  parts' = parts
    BY <1>4 DEF StartRun, files
  <1>5. ASSUME NEW lost \in SUBSET Traded, NEW running \in BOOLEAN, Load(lost, running)
        PROVE  parts' = parts
    BY <1>5 DEF Load
  <1>6. CASE SkipBatch \/ ExportOos \/ MergeOos
    BY <1>6 DEF SkipBatch, ExportOos, MergeOos, files
  <1>7. CASE MergeFails \/ TrainFails \/ Finish
    BY <1>7 DEF MergeFails, TrainFails, Finish, Ends, files
  <1>8. CASE Train \/ DayPasses
    BY <1>8 DEF Train, DayPasses, files
  <1>9. CASE UNCHANGED pipelineVars
    BY <1>9 DEF pipelineVars
  <1> QED BY <1>1, <1>2, <1>3, <1>4, <1>5, <1>6, <1>7, <1>8, <1>9 DEF PipelineNext

\* A merged row is a row of a part.
LEMMA MergedFromParts ==
    ASSUME PipelineTypeOK, \A i \in 1..Len(Tickers) : parts[i] # Torn,
           Readable(Merged(parts)), NEW r \in Merged(parts)
    PROVE  \E i \in 1..Len(Tickers) : Readable(parts[i]) /\ r \in parts[i]
  <1> DEFINE present == {i \in DOMAIN parts : i > 0 /\ parts[i] \notin {Missing, Empty}}
  <1>1. present \subseteq 1..Len(Tickers)
    BY TickersFit DEF PipelineTypeOK
  <1>2. \A i \in present : Readable(parts[i])
    BY <1>1 DEF Readable, Unreadable
  <1>3. Merged(parts) = IF present = {} THEN Missing ELSE UNION {parts[i] : i \in present}
    BY DEF Merged
  <1> HIDE DEF present
  <1>4. present # {}
    BY <1>3 DEF Readable
  <1> QED BY <1>1, <1>2, <1>3, <1>4

\* And no part is torn when they are merged.
LEMMA MergeOfWholeParts ==
    ASSUME PipelineTypeOK, Merge
    PROVE  \A i \in 1..Len(Tickers) : parts[i] # Torn
  <1>1. DOMAIN parts = 0..Len(Tickers)
    BY DEF PipelineTypeOK
  <1> QED BY <1>1, TickersFit DEF Merge

LEMMA LabelsOfRunsNext ==
    ASSUME PipelineTypeOK, LabelsOfRuns, [PipelineNext]_pipelineVars
    PROVE  LabelsOfRuns'
  <1>1. pipelines \in Nat /\ pipelines' \in Nat /\ pipelines <= pipelines'
    <2>1. pipelines \in Nat
      BY DEF PipelineTypeOK
    <2>2. pipelines' = pipelines \/ pipelines' = pipelines + 1
      BY DEF PipelineNext, StartRun, SkipBatch, Load, ExportIn, ExportOos, Merge, MergeOos,
             MergeFails, TrainFails, Train, Finish, Crash, DayPasses, Ends, counts, pipelineVars
    <2> QED BY <2>1, <2>2
  <1>2. \A i \in 0..Len(Tickers) : Readable(parts[i]) => \A r \in parts[i] : r.run \in Nat
    BY DEF PipelineTypeOK, Label
  <1> SUFFICES ASSUME NEW i \in 0..Len(Tickers), Readable(parts'[i]), NEW r \in parts'[i]
               PROVE  r.run <= pipelines' /\ (i > 0 => r.part = i)
    BY DEF LabelsOfRuns, Readable
  <1>3. CASE parts'[i] = parts[i]
    BY <1>1, <1>2, <1>3 DEF LabelsOfRuns
  <1>4. CASE ExportIn /\ i = Target /\ parts'[i] = LabelsOf(TRUE)
    <2>1. r.run = pipelines /\ r.part = Target
      BY <1>4, LabelsAreLabels DEF ExportIn
    <2> QED BY <2>1, <1>1, <1>4
  <1>5. CASE Merge /\ i = 0 /\ parts'[i] = Merged(parts)
    <2>1. PICK j \in 1..Len(Tickers) : Readable(parts[j]) /\ r \in parts[j]
      BY <1>5, MergedFromParts, MergeOfWholeParts
    <2>2. j \in 0..Len(Tickers)
      BY TickersFit
    <2>3. r.run <= pipelines /\ r.run \in Nat
      BY <2>1, <2>2, <1>2 DEF LabelsOfRuns
    <2> QED BY <2>3, <1>1, <1>5
  <1> QED BY <1>3, <1>4, <1>5, PartsStep

-----------------------------------------------------------------------------
(* What a backtest is served.                                              *)

\* A file that the provider sent or that passes for complete has the days of
\* the window but the slack, and is unfinished only where that is expected.
LEMMA LoadedBars ==
    ASSUME PipelineTypeOK, NEW lost \in SUBSET Traded, NEW running \in BOOLEAN,
           Load(lost, running), NEW s \in InBatch(args, batch), s \notin lost
    PROVE  /\ served'[s].days \subseteq args.start..args.end
           /\ \A d \in served'[s].days : d <= today
           /\ served'[s].forming =>
                 \E d \in served'[s].days : d >= args.end - Tolerance \/ d = today
           /\ \A d \in args.start..args.end : d <= today /\ ~NearAnEnd(d) => d \in served'[s].days
  <1> DEFINE got == {x \in InBatch(args, batch) : ~Cached(x) /\ x \notin lost}
             kept == {x \in InBatch(args, batch) : Cached(x)}
  <1>1. served' = [x \in Traded |->
                       IF x \in got \cup kept
                       THEN Requested(IF x \in got THEN Fetched(running) ELSE cache[x])
                       ELSE served[x]]
    BY DEF Load
  <1>2. step = "batch"
    BY DEF Load
  <1>3. /\ args.start \in Nat /\ args.end \in Nat /\ today \in Nat /\ Tolerance \in Nat
        /\ s \in Traded
    BY <1>2, ArgumentsFit, PipelineAssumption, BatchIsTraded DEF PipelineAssumption, PipelineTypeOK
  <1>4. s \in got \cup kept
    OBVIOUS
  <1>5. s \in got => ~(s \in kept)
    OBVIOUS
  <1>6. s \in kept => Cached(s)
    OBVIOUS
  <1> HIDE DEF got, kept
  <1> DEFINE file == IF s \in got THEN Fetched(running) ELSE cache[s]
  <1>7. served'[s] = Requested(file)
    BY <1>1, <1>3, <1>4
  <1>8. /\ served'[s].days = (file.lo..file.hi) \cap (args.start..args.end)
        /\ served'[s].forming = (file.forming /\ file.hi \in (file.lo..file.hi) \cap (args.start..args.end))
    BY <1>7 DEF Requested
  <1>9. CASE s \in got
    <2>1. file = Fetched(running)
      BY <1>1, <1>3, <1>9
    <2>2. /\ file.lo = args.start /\ file.hi = (IF args.end < today THEN args.end ELSE today)
          /\ file.forming = (running /\ file.hi = today)
      BY <2>1 DEF Fetched
    <2> HIDE DEF file
    <2>3. file.forming => file.hi = today
      BY <2>2
    <2>4. file.hi \in Nat /\ file.hi <= today /\ file.hi <= args.end
          /\ (file.hi = args.end \/ file.hi = today)
      BY <2>2, <1>3
    <2>5. \A d \in served'[s].days : d <= today
      BY <1>8, <2>2, <2>4, <1>3
    <2>6. \A d \in args.start..args.end : d <= today => d \in served'[s].days
      BY <1>8, <2>2, <2>4, <1>3
    <2>7. served'[s].forming => today \in served'[s].days
      BY <1>8, <2>3
    <2>8. served'[s].days \subseteq args.start..args.end
      BY <1>8
    <2> QED BY <2>5, <2>6, <2>7, <2>8
  <1>10. CASE s \in kept
    <2>1. file = cache[s]
      BY <1>1, <1>3, <1>5, <1>10
    <2>2. Readable(cache[s]) /\ Covers(cache[s])
      BY <1>6, <1>10 DEF Cached, Readable
    <2>3. /\ file.lo \in Nat /\ file.hi \in 0..today
          /\ file.lo <= args.start + Tolerance /\ file.hi >= args.end - Tolerance
      BY <2>1, <2>2, <1>3 DEF Covers, PipelineTypeOK
    <2> HIDE DEF file
    <2>4. \A d \in served'[s].days : d <= today
      BY <1>8, <2>3, <1>3
    <2>5. \A d \in args.start..args.end : ~NearAnEnd(d) => d \in served'[s].days
      BY <1>8, <2>3, <1>3 DEF NearAnEnd
    <2>6. served'[s].forming => file.hi \in served'[s].days
      BY <1>8
    <2>7. served'[s].days \subseteq args.start..args.end
      BY <1>8
    <2> QED BY <2>3, <2>4, <2>5, <2>6, <2>7
  <1> QED BY <1>4, <1>9, <1>10

\* Only the symbols of the batch are served anew.
LEMMA LoadsItsBatch ==
    ASSUME PipelineTypeOK, NEW lost \in SUBSET Traded, NEW running \in BOOLEAN,
           Load(lost, running), NEW s \in Traded, s \notin InBatch(args, batch) \/ s \in lost
    PROVE  served'[s] = served[s]
  <1> DEFINE got == {x \in InBatch(args, batch) : ~Cached(x) /\ x \notin lost}
             kept == {x \in InBatch(args, batch) : Cached(x)}
  <1>1. served' = [x \in Traded |->
                       IF x \in got \cup kept
                       THEN Requested(IF x \in got THEN Fetched(running) ELSE cache[x])
                       ELSE served[x]]
    BY DEF Load
  <1>2. s \notin got \cup kept
    BY DEF Load
  <1> HIDE DEF got, kept
  <1> QED BY <1>1, <1>2

\* The provider's silences are counted.
LEMMA LossesCount ==
    ASSUME PipelineTypeOK, NEW lost \in SUBSET Traded, NEW running \in BOOLEAN,
           Load(lost, running)
    PROVE  /\ outages' \in Nat /\ outages \in Nat /\ outages <= outages'
           /\ lost # {} => outages' > 0
  <1>1. outages' = outages + Cardinality(lost) /\ outages \in Nat
    BY DEF Load, PipelineTypeOK
  <1>2. IsFiniteSet(lost)
    BY TradedIsFinite, FS_Subset
  <1>3. Cardinality(lost) \in Nat /\ (lost # {} => Cardinality(lost) # 0)
    BY <1>2, FS_CardinalityType, FS_EmptySet
  <1> QED BY <1>1, <1>3

LEMMA ServedInWindowNext ==
    ASSUME LabelsInv, [PipelineNext]_pipelineVars
    PROVE  ServedInWindow'
  <1> SUFFICES ASSUME step' # "idle", NEW s \in Traded
               PROVE  /\ served'[s].days \subseteq args'.start..args'.end
                      /\ \A d \in served'[s].days : d <= today'
                      /\ served'[s].forming =>
                            \E d \in served'[s].days : d >= args'.end - Tolerance \/ d = today'
    BY DEF ServedInWindow
  <1> USE DEF LabelsInv
  <1>1. ASSUME NEW a \in Arguments, StartRun(a)
        PROVE  served'[s].days = {} /\ served'[s].forming = FALSE
    BY <1>1 DEF StartRun, NoBars
  <1>2. CASE step # "idle" /\ UNCHANGED <<args, today, served>>
    BY <1>2 DEF ServedInWindow
  <1>3. ASSUME NEW lost \in SUBSET Traded, NEW running \in BOOLEAN, Load(lost, running),
               step # "idle", UNCHANGED <<args, today>>
        PROVE  /\ served'[s].days \subseteq args.start..args.end
               /\ \A d \in served'[s].days : d <= today
               /\ served'[s].forming =>
                     \E d \in served'[s].days : d >= args.end - Tolerance \/ d = today
    <2>1. CASE s \in InBatch(args, batch) /\ s \notin lost
      BY <1>3, <2>1, LoadedBars
    <2>2. CASE s \notin InBatch(args, batch) \/ s \in lost
      <3>1. served'[s] = served[s]
        BY <1>3, <2>2, LoadsItsBatch
      <3> QED BY <1>3, <3>1 DEF ServedInWindow
    <2> QED BY <2>1, <2>2
  <1>4. SkipBatch \/ ExportIn \/ ExportOos \/ Merge => UNCHANGED served
    BY DEF SkipBatch, ExportIn, ExportOos, Merge
  <1>5. UNCHANGED pipelineVars => UNCHANGED served
    BY DEF pipelineVars
  <1> QED BY <1>1, <1>2, <1>3, <1>4, <1>5, RunGoesOn

\* Which batch a run is at.
LEMMA StagesNext ==
    ASSUME LabelsInv, [PipelineNext]_pipelineVars
    PROVE  Stages'
  <1> SUFFICES ASSUME step' # "idle"
               PROVE  Stages'
    BY DEF Stages
  <1> USE DEF LabelsInv
  <1>1. ASSUME NEW a \in Arguments, StartRun(a)
        PROVE  Stages'
    BY <1>1 DEF StartRun, Stages
  <1>2. CASE step # "idle" /\ UNCHANGED args /\ (SkipBatch \/ ExportOos)
    <2>1. args \in Arguments /\ batch \in 1..Batches(args) /\ NextBatch
      BY <1>2 DEF PipelineTypeOK, SkipBatch, ExportOos
    <2>2. step \in {"batch", "exportOos"}
      BY <1>2 DEF SkipBatch, ExportOos
    <2>3. Batches(args) = 1 => batch = 1
      BY <2>1
    <2> QED BY <1>2, <2>1, <2>2, <2>3, NextBatchFits DEF Stages
  <1>3. ASSUME NEW lost \in SUBSET Traded, NEW running \in BOOLEAN, Load(lost, running)
        PROVE  Stages'
    BY <1>3 DEF Load, Stages
  <1>4. CASE ExportIn \/ Merge
    BY <1>4 DEF ExportIn, Merge, Stages
  <1>5. CASE MergeOos
    BY <1>5 DEF MergeOos, Stages
  <1>6. CASE Train
    BY <1>6 DEF Train, Stages
  <1>7. CASE UNCHANGED pipelineVars
    BY <1>7 DEF pipelineVars, Stages
  <1> QED BY <1>1, <1>2, <1>3, <1>4, <1>5, <1>6, <1>7, RunGoesOn

\* Moving on leaves the later batches later.
LEMMA NotYetServedNext ==
    ASSUME TickersAreDistinct, LabelsInv, [PipelineNext]_pipelineVars
    PROVE  NotYetServed'
  <1> USE DEF LabelsInv
  <1> SUFFICES ASSUME step' # "idle", ~args'.skip, NEW i \in 1..Batches(args'),
                      i > batch' \/ (i = batch' /\ step' = "batch"),
                      NEW s \in InBatch(args', i)
               PROVE  served'[s].days = {}
    <2>1. \A i : InBatch(args, i)' = InBatch(args', i) /\ Batches(args)' = Batches(args')
      BY DEF InBatch
    <2> QED BY <2>1 DEF NotYetServed
  <1>0. s \in Traded
    BY BatchIsTraded
  <1>1. ASSUME NEW a \in Arguments, StartRun(a)
        PROVE  served'[s].days = {}
    BY <1>0, <1>1 DEF StartRun, NoBars
  <1>2. ASSUME step # "idle", UNCHANGED args
        PROVE  /\ args \in Arguments /\ batch \in 1..Batches(args) /\ Batches(args) \in Nat
               /\ ~args.skip /\ i \in 1..Batches(args) /\ s \in InBatch(args, i)
               /\ i > batch \/ (i = batch /\ step = "batch") => served[s].days = {}
    BY <1>2, BatchesInRange DEF PipelineTypeOK, NotYetServed
  <1>3. CASE step # "idle" /\ UNCHANGED args /\ (SkipBatch \/ ExportOos)
    <2>1. batch \in 1..Batches(args) /\ args \in Arguments /\ NextBatch
      BY <1>2, <1>3 DEF SkipBatch, ExportOos
    <2>2. i > batch
      BY <1>2, <1>3, <2>1, NextBatchFits
    <2>3. served' = served
      BY <1>3 DEF SkipBatch, ExportOos
    <2> QED BY <1>2, <1>3, <2>2, <2>3
  <1>4. ASSUME NEW lost \in SUBSET Traded, NEW running \in BOOLEAN, Load(lost, running),
               step # "idle", UNCHANGED args
        PROVE  served'[s].days = {}
    <2>1. batch' = batch /\ step' # "batch"
      BY <1>4 DEF Load
    <2>2. i > batch /\ i # batch
      BY <1>2, <1>4, <2>1
    <2>3. s \notin InBatch(args, batch)
      BY <1>2, <1>4, <2>2, BatchesAreApart
    <2> QED BY <1>0, <1>2, <1>4, <2>2, <2>3, LoadsItsBatch
  <1>5. CASE step # "idle" /\ UNCHANGED args
             /\ (ExportIn \/ Merge \/ UNCHANGED <<batch, step, served>>
                 \/ (MergeOos /\ UNCHANGED <<batch, served>>) \/ (Train /\ UNCHANGED <<batch, served>>))
    <2>1. batch' = batch /\ served' = served /\ (step' = "batch" => step = "batch")
      BY <1>5 DEF ExportIn, Merge, MergeOos, Train
    <2> QED BY <1>2, <1>5, <2>1
  <1>6. UNCHANGED pipelineVars => UNCHANGED <<batch, step, served>>
    BY DEF pipelineVars
  <1> QED BY <1>1, <1>3, <1>4, <1>5, <1>6, RunGoesOn

LEMMA AllServedNext ==
    ASSUME LabelsInv, [PipelineNext]_pipelineVars
    PROVE  AllServed'
  <1> USE DEF LabelsInv
  <1> SUFFICES ASSUME step' = "exportIn"
               PROVE  AllServed'
    BY DEF AllServed
  <1>1. CASE UNCHANGED pipelineVars
    <2>1. UNCHANGED <<args, today, batch, served, outages, step>>
      BY <1>1 DEF pipelineVars
    <2> QED BY <2>1 DEF AllServed, InBatch, NearAnEnd
  <1>2. ASSUME NEW lost \in SUBSET Traded, NEW running \in BOOLEAN, Load(lost, running)
        PROVE  AllServed'
    <2>1. step = "batch" /\ UNCHANGED <<args, batch, today>> /\ lost \subseteq InBatch(args, batch)
      BY <1>2 DEF Load
    <2>2. ASSUME NEW s \in InBatch(args, batch)
          PROVE  \/ served'[s].days = {} /\ outages' > 0
                 \/ \A d \in args.start..args.end :
                       d <= today /\ ~NearAnEnd(d) => d \in served'[s].days
      <3>1. CASE s \notin lost
        BY <1>2, <3>1, LoadedBars
      <3>2. CASE s \in lost
        <4>1. served'[s] = served[s]
          BY <1>2, <3>2, LoadsItsBatch
        <4>2. batch \in 1..Batches(args) /\ ~args.skip
          BY <2>1 DEF PipelineTypeOK, Stages
        <4>3. served[s].days = {}
          BY <2>1, <4>2 DEF NotYetServed
        <4>4. outages' > 0
          BY <1>2, <3>2, LossesCount
        <4> QED BY <4>1, <4>3, <4>4
      <3> QED BY <3>1, <3>2
    <2>3. InBatch(args, batch)' = InBatch(args, batch) /\ \A d : NearAnEnd(d)' = NearAnEnd(d)
      BY <2>1 DEF InBatch, NearAnEnd
    <2> QED BY <2>1, <2>2, <2>3 DEF AllServed
  <1>3. ASSUME NEW a \in Arguments, StartRun(a)
        PROVE  FALSE
    BY <1>3 DEF StartRun
  <1>4. ~(SkipBatch \/ ExportOos)
    BY DEF SkipBatch, ExportOos, NextBatch
  <1>5. ~(ExportIn \/ Merge \/ MergeOos \/ Train)
    BY DEF ExportIn, Merge, MergeOos, Train
  <1> QED BY <1>1, <1>2, <1>3, <1>4, <1>5, RunGoesOn

-----------------------------------------------------------------------------
(* What a run exports and merges.                                          *)

\* The labels of a backtest belong to its run.
LEMMA LabelsBelong ==
    ASSUME LabelsInv, step # "idle", NEW r \in LabelsOf(TRUE)
    PROVE  Belongs(r)
  <1> USE DEF LabelsInv
  <1>1. args \in Arguments /\ batch \in 1..Batches(args)
    BY DEF PipelineTypeOK
  <1>2. PICK t \in Trades[args.rvol] :
            /\ t.symbol \in InBatch(args, batch)
            /\ DayOf(t.in) \in served[t.symbol].days
            /\ (DayOf(t.in) <= args.trainEnd) = TRUE
            /\ r = [trade |-> t, rvol |-> args.rvol, run |-> pipelines, part |-> Target,
                    whole |-> ~(served[t.symbol].forming
                         /\ \A d \in served[t.symbol].days : d <= DayOf(t.in))]
    BY DEF LabelsOf
  <1>3. /\ r.trade = t /\ r.part = Target
        /\ ~r.whole => served[t.symbol].forming /\ \A d \in served[t.symbol].days : d <= DayOf(t.in)
    BY <1>2
  <1>4. t.symbol \in Traded
    BY <1>2, BatchIsTraded
  <1> DEFINE day == DayOf(t.in)
  <1>5. /\ day \in args.start..args.end /\ day <= today
        /\ served[t.symbol].days \subseteq args.start..args.end
        /\ \A d \in served[t.symbol].days : d <= today
        /\ served[t.symbol].forming =>
              \E d \in served[t.symbol].days : d >= args.end - Tolerance \/ d = today
    BY <1>2, <1>4 DEF ServedInWindow
  <1>6. t \in Asked(batch)
    BY <1>2, <1>5 DEF Asked
  <1>7. ~r.whole => day >= args.end - Tolerance \/ day = today
    <2> SUFFICES ASSUME ~r.whole
                 PROVE  day >= args.end - Tolerance \/ day = today
      OBVIOUS
    <2>1. PICK d \in served[t.symbol].days : d >= args.end - Tolerance \/ d = today
      BY <1>3, <1>5
    <2>2. d <= day /\ d \in args.start..args.end
      BY <1>3, <1>5
    <2>3. args.start \in Nat /\ args.end \in Nat /\ Tolerance \in Nat /\ today \in Nat
      BY <1>1, ArgumentsFit, PipelineAssumption DEF PipelineAssumption, PipelineTypeOK
    <2> HIDE DEF day
    <2> QED BY <1>5, <2>1, <2>2, <2>3
  <1>8. PartOf(batch) = r.part
    BY <1>1, <1>3, TargetIsAFile
  <1> QED BY <1>1, <1>3, <1>6, <1>7, <1>8 DEF Belongs

LEMMA RowsBelongNext ==
    ASSUME LabelsInv, LabelsOfRuns', [PipelineNext]_pipelineVars
    PROVE  RowsBelong'
  <1> USE DEF LabelsInv
  <1> SUFFICES ASSUME step' # "idle", NEW i \in 0..Len(Tickers), Readable(parts'[i]),
                      NEW r \in parts'[i], r.run = pipelines'
               PROVE  Belongs(r)'
    BY DEF RowsBelong, Readable
  <1>1. ASSUME NEW a \in Arguments, StartRun(a)
        PROVE  FALSE
    <2>1. parts' = parts /\ pipelines' = pipelines + 1 /\ pipelines \in Nat
      BY <1>1 DEF StartRun, files, PipelineTypeOK
    <2>2. r.run <= pipelines
      BY <2>1 DEF LabelsOfRuns
    <2> QED BY <2>1, <2>2
  <1>2. CASE step # "idle" /\ UNCHANGED <<args, today, pipelines>>
    <2>1. Belongs(r)' = Belongs(r)
      BY <1>2, AskedFrame
    <2>2. CASE parts'[i] = parts[i]
      BY <1>2, <2>1, <2>2 DEF RowsBelong
    <2>3. CASE parts'[i] = LabelsOf(TRUE)
      BY <1>2, <2>1, <2>3, LabelsBelong
    <2>4. CASE Merge /\ parts'[i] = Merged(parts)
      <3>1. PICK j \in 1..Len(Tickers) : Readable(parts[j]) /\ r \in parts[j]
        BY <2>4, MergedFromParts, MergeOfWholeParts
      <3>2. j \in 0..Len(Tickers)
        BY TickersFit
      <3> QED BY <1>2, <2>1, <3>1, <3>2 DEF RowsBelong
    <2> QED BY <2>2, <2>3, <2>4, PartsStep
  <1> QED BY <1>1, <1>2, RunGoesOn

LEMMA MergedPartsNext ==
    ASSUME LabelsInv, [PipelineNext]_pipelineVars
    PROVE  MergedParts'
  <1> USE DEF LabelsInv
  <1> SUFFICES ASSUME step' \in {"mergeOos", "train", "trained"}, ~args'.skip, Batches(args') # 1
               PROVE  (\A i \in 1..Len(Tickers) : parts'[i] # Torn) /\ parts'[0] = Merged(parts')
    BY DEF MergedParts, Merged
  <1>1. ASSUME NEW a \in Arguments, StartRun(a)
        PROVE  FALSE
    BY <1>1 DEF StartRun
  <1>2. ASSUME NEW lost \in SUBSET Traded, NEW running \in BOOLEAN, Load(lost, running)
        PROVE  FALSE
    BY <1>2 DEF Load
  <1>3. ~(SkipBatch \/ ExportOos)
    BY DEF SkipBatch, ExportOos, NextBatch
  <1>4. ~ExportIn
    BY DEF ExportIn
  <1>5. CASE Merge
    <2>1. parts' = [parts EXCEPT ![0] = Merged(parts)]
      BY <1>5 DEF Merge
    <2>2. DOMAIN parts = 0..Len(Tickers) /\ DOMAIN parts' = 0..Len(Tickers)
      BY <2>1 DEF PipelineTypeOK
    <2>3. parts'[0] = Merged(parts) /\ \A i \in 0..Len(Tickers) : i > 0 => parts'[i] = parts[i]
      BY <2>1, <2>2, TickersFit
    <2>4. {i \in DOMAIN parts' : i > 0 /\ parts'[i] \notin {Missing, Empty}}
          = {i \in DOMAIN parts : i > 0 /\ parts[i] \notin {Missing, Empty}}
      BY <2>2, <2>3
    <2> DEFINE present == {i \in DOMAIN parts : i > 0 /\ parts[i] \notin {Missing, Empty}}
    <2>5. {parts'[i] : i \in present} = {parts[i] : i \in present}
      BY <2>2, <2>3
    <2>6. Merged(parts') = Merged(parts)
      BY <2>4, <2>5 DEF Merged
    <2>7. \A i \in 1..Len(Tickers) : parts'[i] = parts[i] /\ parts[i] # Torn
      BY <1>5, <2>3, TickersFit, MergeOfWholeParts
    <2> QED BY <2>3, <2>6, <2>7
  <1>6. CASE step \in {"mergeOos", "train", "trained"} /\ UNCHANGED <<args, parts>>
    BY <1>6 DEF MergedParts
  <1>7. MergeOos \/ Train \/ UNCHANGED pipelineVars =>
            step \in {"mergeOos", "train", "trained"} /\ UNCHANGED <<args, parts>>
    BY DEF MergeOos, Train, pipelineVars
  <1> QED BY <1>1, <1>2, <1>3, <1>4, <1>5, <1>6, <1>7, RunGoesOn

\* A file with labels in it is a file that can be read.
FilesAreNotLabels == \A rows \in SUBSET Label : Readable(rows)

\* What can be expected of a batch does not grow once it was exported.
LEMMA SureShrinks ==
    ASSUME TickersAreDistinct, LabelsInv,
           NEW lost \in SUBSET Traded, NEW running \in BOOLEAN, Load(lost, running),
           NEW i \in 1..Batches(args), i # batch
    PROVE  Sure(i)' \subseteq Sure(i)
  <1> USE DEF LabelsInv
  <1>1. UNCHANGED <<args, today, batch>> /\ step = "batch"
    BY DEF Load
  <1>2. args \in Arguments /\ batch \in 1..Batches(args)
    BY <1>1 DEF PipelineTypeOK
  <1>3. /\ Asked(i)' = Asked(i) /\ \A d : NearAnEnd(d)' = NearAnEnd(d)
    BY <1>1, AskedFrame
  <1>4. outages' = 0 => outages = 0
    BY LossesCount
  <1>5. ASSUME NEW t \in Asked(i)
        PROVE  served'[t.symbol] = served[t.symbol]
    <2>1. t.symbol \in InBatch(args, i)
      BY DEF Asked
    <2>2. t.symbol \notin InBatch(args, batch) /\ t.symbol \in Traded
      BY <1>2, <2>1, BatchesAreApart, BatchIsTraded
    <2> QED BY <2>2, LoadsItsBatch
  <1> QED BY <1>1, <1>3, <1>4, <1>5 DEF Sure

\* Every trade that can be expected of the batch is among its labels.
LEMMA SureIsLabelled ==
    ASSUME LabelsInv, step = "exportIn", NEW t \in Sure(batch)
    PROVE  \E r \in LabelsOf(TRUE) : r.trade = t
  <1> USE DEF LabelsInv
  <1>1. /\ t \in Trades[args.rvol] /\ t.symbol \in InBatch(args, batch)
        /\ DayOf(t.in) \in args.start..args.end /\ DayOf(t.in) <= today
        /\ DayOf(t.in) <= args.trainEnd
        /\ ~NearAnEnd(DayOf(t.in))
        /\ served[t.symbol].days # {} \/ outages = 0
    BY DEF Sure, Asked
  <1>2. ~(outages = 0 /\ outages > 0)
    BY DEF PipelineTypeOK
  <1>3. DayOf(t.in) \in served[t.symbol].days
    BY <1>1, <1>2 DEF AllServed
  <1>4. (DayOf(t.in) <= args.trainEnd) = TRUE
    BY <1>1
  <1> DEFINE row == [trade |-> t, rvol |-> args.rvol, run |-> pipelines, part |-> Target,
                     whole |-> ~(served[t.symbol].forming
                         /\ \A d \in served[t.symbol].days : d <= DayOf(t.in))]
  <1>5. row \in LabelsOf(TRUE)
    BY <1>1, <1>3, <1>4 DEF LabelsOf
  <1>6. row.trade = t
    OBVIOUS
  <1> HIDE DEF row
  <1> QED BY <1>5, <1>6

LEMMA PartsForCauseNext ==
    ASSUME TickersAreDistinct, FilesAreNotLabels, LabelsInv, [PipelineNext]_pipelineVars
    PROVE  PartsForCause'
  <1> USE DEF LabelsInv
  <1> DEFINE Fine(i) == /\ Readable(parts[PartOf(i)])
                        /\ \A r \in parts[PartOf(i)] : r.run = pipelines
                        /\ \A t \in Sure(i) : \E r \in parts[PartOf(i)] : r.trade = t
  <1> SUFFICES ASSUME step' # "idle", ~args'.skip, NEW i \in 1..Batches(args'),
                      Exported(i)', Sure(i)' # {}
               PROVE  Fine(i)'
    <2>1. Batches(args)' = Batches(args')
      OBVIOUS
    <2> QED BY <2>1 DEF PartsForCause
  <1>1. ASSUME NEW a \in Arguments, StartRun(a)
        PROVE  FALSE
    <2>1. batch' = 1 /\ step' = "batch"
      BY <1>1 DEF StartRun
    <2>2. i < 1 \/ (i = 1 /\ "batch" \notin {"batch", "exportIn"})
      BY <2>1 DEF Exported
    <2>3. i \in Nat \ {0}
      BY <1>1, BatchesInRange DEF StartRun
    <2> QED BY <2>2, <2>3
  <1>2. CASE step # "idle" /\ UNCHANGED <<args, today, pipelines>>
    <2>1. /\ args \in Arguments /\ batch \in 1..Batches(args) /\ Batches(args) \in Nat
          /\ ~args.skip /\ i \in 1..Batches(args)
      BY <1>2, BatchesInRange DEF PipelineTypeOK
    <2>2. PartOf(i)' = PartOf(i) /\ PartOf(i) \in 0..Len(Tickers) /\ PartOf(batch) = Target
          /\ (PartOf(i) = Target => i = batch)
      BY <1>2, <2>1, AskedFrame, TargetIsAFile
    \* A batch that was there before, with its part as it was.
    <2>3. ASSUME Exported(i), Sure(i)' \subseteq Sure(i), parts'[PartOf(i)] = parts[PartOf(i)]
          PROVE  Fine(i)'
      <3>1. Fine(i)
        BY <1>2, <2>1, <2>3 DEF PartsForCause
      <3>2. Readable(parts[PartOf(i)])' = Readable(parts[PartOf(i)])
        BY <2>2, <2>3 DEF Readable
      <3> QED BY <1>2, <2>2, <2>3, <3>1, <3>2
    <2>4. CASE SkipBatch
      <3>1. step = "batch" /\ Resumes /\ NextBatch /\ UNCHANGED <<served, parts, outages>>
        BY <2>4 DEF SkipBatch, files, counts
      <3>2. Sure(i)' = Sure(i)
        BY <1>2, <3>1, SureFrame
      <3>3. i < batch \/ i = batch
        BY <2>1, <3>1, NextBatchFits DEF Exported
      <3>4. CASE i < batch
        BY <2>3, <3>1, <3>2, <3>4 DEF Exported
      <3>5. CASE i = batch
        <4>1. \A s \in InBatch(args, i) : served[s].days = {}
          BY <1>2, <2>1, <3>1, <3>5 DEF NotYetServed
        <4>2. args.resume
          BY <3>1 DEF Resumes
        <4>3. Sure(i) = {}
          BY <4>1, <4>2 DEF Sure, Asked
        <4> QED BY <3>2, <4>3
      <3> QED BY <3>3, <3>4, <3>5
    <2>5. ASSUME NEW lost \in SUBSET Traded, NEW running \in BOOLEAN, Load(lost, running)
          PROVE  Fine(i)'
      <3>1. step = "batch" /\ step' = "exportIn" /\ UNCHANGED <<batch, parts>>
        BY <2>5 DEF Load
      <3>2. i < batch
        BY <3>1 DEF Exported
      <3>3. i # batch /\ Exported(i)
        BY <2>1, <3>2 DEF Exported
      <3>4. Sure(i)' \subseteq Sure(i)
        BY <2>1, <2>5, <3>3, SureShrinks
      <3> QED BY <2>3, <3>1, <3>3, <3>4
    <2>6. CASE ExportIn
      <3>1. /\ step = "exportIn" /\ step' = "exportOos"
            /\ parts' = [parts EXCEPT ![Target] = Export(LabelsOf(TRUE), parts[Target])]
            /\ UNCHANGED <<batch, served, outages>>
        BY <2>6 DEF ExportIn, counts
      <3>2. Sure(i)' = Sure(i)
        BY <1>2, <3>1, SureFrame
      <3>3. i < batch \/ i = batch
        BY <3>1 DEF Exported
      <3>4. CASE i < batch
        <4>1. PartOf(i) # Target
          BY <2>1, <2>2, <3>4
        <4>2. parts'[PartOf(i)] = parts[PartOf(i)]
          BY <2>2, <3>1, <4>1 DEF PipelineTypeOK
        <4> QED BY <2>3, <3>2, <3>4, <4>2 DEF Exported
      <3>5. CASE i = batch
        <4>1. \A t \in Sure(i) : \E r \in LabelsOf(TRUE) : r.trade = t
          BY <3>1, <3>5, SureIsLabelled
        <4>2. LabelsOf(TRUE) # {}
          BY <3>2, <4>1
        <4>3. parts'[PartOf(i)] = LabelsOf(TRUE)
          BY <2>2, <3>1, <3>5, <4>2 DEF Export, PipelineTypeOK
        <4>4. /\ LabelsOf(TRUE) \in SUBSET Label
              /\ \A r \in LabelsOf(TRUE) : r.run = pipelines
          BY <1>2, LabelsAreLabels
        <4>5. Readable(LabelsOf(TRUE))
          BY <4>4 DEF FilesAreNotLabels
        <4>6. Readable(parts[PartOf(i)])'
          BY <2>2, <4>3, <4>5 DEF Readable
        <4> QED BY <1>2, <2>2, <3>2, <4>1, <4>3, <4>4, <4>6
      <3> QED BY <3>3, <3>4, <3>5
    <2>7. CASE ExportOos
      <3>1. step = "exportOos" /\ NextBatch /\ UNCHANGED <<served, parts, outages>>
        BY <2>7 DEF ExportOos, counts
      <3>2. i < batch \/ i = batch
        BY <2>1, <3>1, NextBatchFits DEF Exported
      <3>3. Exported(i)
        BY <3>1, <3>2 DEF Exported
      <3> QED BY <1>2, <2>3, <3>1, <3>3, SureFrame
    <2>8. CASE Merge
      <3>1. /\ step = "merge" /\ parts' = [parts EXCEPT ![0] = Merged(parts)]
            /\ UNCHANGED <<batch, served, outages>> /\ step' = "mergeOos"
        BY <2>8 DEF Merge, counts
      <3>2. Exported(i)
        BY <3>1 DEF Exported
      <3>3. PartOf(i) = i /\ i # 0
        BY <2>1, <3>1 DEF Stages, PartOf
      <3>4. parts'[PartOf(i)] = parts[PartOf(i)]
        BY <2>2, <3>1, <3>3 DEF PipelineTypeOK
      <3> QED BY <1>2, <2>3, <3>1, <3>2, <3>4, SureFrame
    <2>9. CASE (MergeOos \/ Train) /\ UNCHANGED <<parts, batch, served, outages>>
      <3>1. step \in {"mergeOos", "train"}
        BY <2>9 DEF MergeOos, Train
      <3>2. Exported(i)
        BY <2>9, <3>1 DEF Exported
      <3> QED BY <1>2, <2>3, <2>9, <3>2, SureFrame
    <2>10. CASE UNCHANGED pipelineVars
      <3>1. UNCHANGED <<parts, batch, served, outages, step>>
        BY <2>10 DEF pipelineVars
      <3>2. Exported(i)
        BY <3>1 DEF Exported
      <3> QED BY <1>2, <2>3, <3>1, <3>2, SureFrame
    <2> QED BY <1>2, <2>4, <2>5, <2>6, <2>7, <2>8, <2>9, <2>10, RunGoesOn, <1>1
  <1> QED BY <1>1, <1>2, RunGoesOn

\* A model just fitted then has what its run asked for.
LEMMA FitsForCause == LabelsInv => ModelForCause
  <1> SUFFICES ASSUME LabelsInv, step = "trained", ~args.skip
               PROVE  /\ \A r \in model.rows :
                            IF r.run = pipelines THEN Belongs(r)
                            ELSE Sure(IF Batches(args) = 1 THEN 1 ELSE r.part) = {}
                      /\ \A i \in 1..Batches(args) : \A t \in Sure(i) :
                            \/ t.symbol \in Holdout
                            \/ \E r \in model.rows : r.trade = t /\ r.run = pipelines
    BY DEF ModelForCause
  <1> USE DEF LabelsInv
  <1>1. /\ args \in Arguments /\ batch = Batches(args) /\ Batches(args) \in Nat \ {0}
        /\ Len(Tickers) \in Nat
    BY BatchesInRange, TickersFit DEF PipelineTypeOK, Stages
  <1>2. \A i \in 1..Batches(args) : Exported(i)
    BY <1>1 DEF Exported
  <1>3. Readable(parts[0]) /\ model.rows = FitRows(parts[0])
    BY DEF ModelFits, HasLabels, Readable
  <1>4. \A i \in 1..Batches(args) : Sure(i) # {} =>
            /\ Readable(parts[PartOf(i)])
            /\ \A r \in parts[PartOf(i)] : r.run = pipelines
            /\ \A t \in Sure(i) : \E r \in parts[PartOf(i)] : r.trade = t
    BY <1>2 DEF PartsForCause
  <1>5. ASSUME NEW r \in model.rows
        PROVE  IF r.run = pipelines THEN Belongs(r)
               ELSE Sure(IF Batches(args) = 1 THEN 1 ELSE r.part) = {}
    <2>1. r \in parts[0]
      BY <1>3 DEF FitRows
    <2>2. CASE r.run = pipelines
      BY <1>1, <1>3, <2>1, <2>2 DEF RowsBelong
    <2>3. CASE r.run # pipelines /\ Batches(args) = 1
      BY <1>1, <1>4, <2>1, <2>3 DEF PartOf
    <2>4. CASE r.run # pipelines /\ Batches(args) # 1
      <3>1. PICK i \in 1..Len(Tickers) : Readable(parts[i]) /\ r \in parts[i]
        <4>1. parts[0] = Merged(parts) /\ \A i \in 1..Len(Tickers) : parts[i] # Torn
          BY <2>4 DEF MergedParts
        <4> QED BY <1>3, <2>1, <4>1, MergedFromParts
      <3>2. i \in Nat /\ i > 0 /\ i \in 0..Len(Tickers)
        BY <1>1
      <3>3. r.part = i
        BY <3>1, <3>2 DEF LabelsOfRuns
      <3>4. CASE i \in 1..Batches(args)
        BY <1>4, <2>4, <3>1, <3>3, <3>4 DEF PartOf
      <3>5. CASE i > Batches(args)
        <4>1. InBatch(args, i) = {}
          BY <1>1, <2>4, <3>2, <3>5, NothingBeyond
        <4>2. Sure(i) = {}
          BY <4>1 DEF Sure, Asked
        <4> QED BY <2>4, <3>3, <4>2
      <3> QED BY <1>1, <3>2, <3>4, <3>5
    <2> QED BY <2>2, <2>3, <2>4
  <1>6. ASSUME NEW i \in 1..Batches(args), NEW t \in Sure(i), t.symbol \notin Holdout
        PROVE  \E r \in model.rows : r.trade = t /\ r.run = pipelines
    <2>1. /\ Readable(parts[PartOf(i)])
          /\ \A x \in parts[PartOf(i)] : x.run = pipelines
          /\ \E x \in parts[PartOf(i)] : x.trade = t
      BY <1>4
    <2>2. PICK r \in parts[PartOf(i)] : r.trade = t /\ r.run = pipelines
      BY <2>1
    <2>3. r \in parts[0]
      <3>1. CASE Batches(args) = 1
        BY <2>2, <3>1 DEF PartOf
      <3>2. CASE Batches(args) # 1
        <4>1. PartOf(i) = i
          BY <3>2 DEF PartOf
        <4>2. parts[0] = Merged(parts)
          BY <3>2 DEF MergedParts
        <4>3. i \in DOMAIN parts /\ i > 0
          <5>1. Batches(args) <= Len(Tickers)
            BY <1>1, <3>2, BatchesInRange
          <5> QED BY <1>1, <5>1 DEF PipelineTypeOK
        <4>4. parts[i] \notin {Missing, Empty}
          BY <2>1, <4>1 DEF Readable, Unreadable
        <4> DEFINE present == {j \in DOMAIN parts : j > 0 /\ parts[j] \notin {Missing, Empty}}
        <4>5. i \in present
          BY <4>3, <4>4
        <4>6. Merged(parts) = UNION {parts[j] : j \in present}
          BY <4>5 DEF Merged
        <4> HIDE DEF present
        <4> QED BY <2>2, <4>1, <4>2, <4>5, <4>6
      <3> QED BY <3>1, <3>2
    <2>4. DayOf(t.in) <= args.trainEnd
      BY DEF Sure, Asked
    <2>5. r \in model.rows
      BY <1>3, <1>6, <2>2, <2>3, <2>4 DEF FitRows
    <2> QED BY <2>2, <2>5
  <1> QED BY <1>5, <1>6

LEMMA LabelsInvInit == PipelineInit => LabelsInv
  <1> SUFFICES ASSUME PipelineInit
               PROVE  LabelsInv
    OBVIOUS
  <1>1. step = "idle"
    BY DEF PipelineInit
  <1>2. \A i \in 0..Len(Tickers) : ~Readable(parts[i])
    BY DEF PipelineInit, Readable
  <1>3. PipelineTypeOK
    BY TypeInit
  <1>4. LabelsOfRuns
    BY <1>2 DEF LabelsOfRuns
  <1>5. ServedInWindow /\ NotYetServed /\ AllServed /\ RowsBelong
    BY <1>1 DEF ServedInWindow, NotYetServed, AllServed, RowsBelong
  <1>6. PartsForCause /\ Stages /\ MergedParts /\ ModelFits
    BY <1>1 DEF PartsForCause, Stages, MergedParts, ModelFits
  <1> QED BY <1>3, <1>4, <1>5, <1>6 DEF LabelsInv

LEMMA LabelsInvNext ==
    ASSUME TickersAreDistinct, FilesAreNotLabels, LabelsInv, [PipelineNext]_pipelineVars
    PROVE  LabelsInv'
  <1>1. PipelineTypeOK'
    BY TypeNext DEF LabelsInv
  <1>2. LabelsOfRuns'
    BY LabelsOfRunsNext DEF LabelsInv
  <1>3. ServedInWindow' /\ Stages' /\ NotYetServed' /\ AllServed'
    BY ServedInWindowNext, StagesNext, NotYetServedNext, AllServedNext
  <1>4. RowsBelong' /\ PartsForCause' /\ MergedParts'
    BY <1>2, RowsBelongNext, PartsForCauseNext, MergedPartsNext
  <1>5. ModelFits'
    BY ModelNext DEF LabelsInv
  <1> QED BY <1>1, <1>2, <1>3, <1>4, <1>5 DEF LabelsInv

\* A model that a run has just fitted is fitted on what the run asked for, but
\* for what older parts, silent providers, resumed batches and the cache's slack
\* account for, after any history of runs and crashes
\* (run_meta_research_pipeline.py:170-205, labels.py:46-59, data_store.py:47-82).
THEOREM ModelsAreForCause ==
    ASSUME TickersAreDistinct, FilesAreNotLabels
    PROVE  PipelineSpec => [](LabelsInv /\ ModelForCause)
  <1>1. PipelineInit => LabelsInv
    BY LabelsInvInit
  <1>2. LabelsInv /\ [PipelineNext]_pipelineVars => LabelsInv'
    BY LabelsInvNext
  <1>3. LabelsInv => ModelForCause
    BY FitsForCause
  <1> QED BY <1>1, <1>2, <1>3, PTL DEF PipelineSpec
=============================================================================
