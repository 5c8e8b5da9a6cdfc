----------------------------- MODULE Screening -----------------------------
(***************************************************************************)
(* What is traded on a day: the service's morning screen and its watchlist *)
(* (daytrader/research), and the days that a backtest takes to have passed  *)
(* that screen (gap_eligible_days, premarket_rvol_eligible_days, the        *)
(* volatility gate).  A bar is a symbol's daily row with its premarket      *)
(* volume up to the cutoff; a ratio is a pair of a numerator and a positive *)
(* denominator.                                                             *)
(***************************************************************************)
EXTENDS Integers, Sequences, FiniteSets, SequencesExt

CONSTANTS
    None,
    Universe,       \* research.universe, a sequence of entries
    Members,        \* the sequence of symbols an entry stands for
    Pasts,          \* the histories to start from, symbol -> sequence of bars
    Sessions,       \* what a session can turn out to be, symbol -> bar
    Views,          \* what a provider may show of it in the morning: bars or None
    Premarkets,     \* today's premarket volumes, symbol -> volume
    Served,         \* the sets of symbols a provider has bars for
    Sentiments,     \* scores, or None without enough articles
    Configs,        \* [minRvol, rvolMode, gate]
    MinPrice, MaxPrice, MinAvgVolume, MinGapPct, MaxGapPct,
    Lookback,       \* sessions in an average
    LiveDays,       \* sessions of history the service asks for
    MaxWatchlist,
    MaxRuns,        \* research runs of a morning
    VixSymbol, SpySymbol, MaxVix, MaxVixPct, MaxSpyPct,
    VixWindow, VixHistory   \* sessions a percentile is taken over, at least

\* The entries of the universe, one symbol after the other.
Expanded == FlattenSeq([i \in DOMAIN Universe |-> Members[Universe[i]]])

Row == [open : Nat \ {0}, close : Nat \ {0}, volume : Nat, pm : Nat, atr : Nat \cup {None}]

\* Everything is known of the same symbols, their histories are of the same
\* sessions, and prices are positive.
ASSUME ScreeningAssumption ==
    /\ {MinPrice, MaxPrice, MinAvgVolume, MinGapPct, MaxGapPct} \subseteq Nat
    /\ {Lookback, LiveDays, MaxWatchlist, MaxRuns} \subseteq Nat \ {0}
    /\ Configs \subseteq [minRvol : Nat, rvolMode : {"tod", "screener"},
                          gate : {"off", "shadow", "enforce"}]
    /\ Sentiments \subseteq Int \cup {None} /\ None \notin Row
    /\ \A p \in Premarkets :
          /\ p \in [DOMAIN p -> Nat] /\ {VixSymbol, SpySymbol} \subseteq DOMAIN p
          /\ Expanded \in Seq(DOMAIN p)
          /\ \A h \in Pasts : /\ h \in [DOMAIN p -> Seq(Row)]
                              /\ \A s \in DOMAIN p : Len(h[s]) = Len(h[VixSymbol])
          /\ Sessions \subseteq [DOMAIN p -> Row]
          /\ Views \subseteq [DOMAIN p -> Row \cup {None}]

VARIABLES
    config,
    history,        \* completed sessions, and today's once it is open
    pm,             \* today's premarket volumes
    phase,          \* morning, screened, open, closed
    runs,           \* research runs of this morning
    scans,          \* the scans table, audit of every screen
    candidates,     \* what the latest screen let pass, in its order
    watchlist       \* the day's list in the database

screenVars == <<config, history, pm, phase, runs, scans, candidates, watchlist>>

Known == DOMAIN pm

-----------------------------------------------------------------------------
(* Volumes, gaps and their thresholds.                                      *)

SumSeq(seq) == SumFunction(seq)
LastOf(seq, n) == SubSeq(seq, IF Len(seq) > n THEN Len(seq) - n + 1 ELSE 1, Len(seq))

\* What a sequence has at the places in `kept', in the order of the places.
Keep(seq, kept) ==
    [k \in 1..Cardinality(kept) |->
        seq[CHOOSE i \in kept : Cardinality({j \in kept : j < i}) = k - 1]]

Ratio(num, den) == [num |-> num, den |-> den]
AtLeastPct(ratio, pct) == ratio.num * 100 >= pct * ratio.den
Magnitude(ratio) == [ratio EXCEPT !.num = IF @ < 0 THEN -@ ELSE @]

\* Row n's open against the close before it.
Gap(frame, n) == Ratio(frame[n].open - frame[n - 1].close, frame[n - 1].close)

\* Sessions without premarket trades do not count as sessions.
PriorPm(frame, n) ==
    LET volumes == [i \in 1..n - 1 |-> frame[i].pm]
    IN  LastOf(Keep(volumes, {i \in 1..n - 1 : volumes[i] > 0}), Lookback)

\* Premarket volume against its average at the same time of day.
TodRvol(frame, n) ==
    LET prior == PriorPm(frame, n)
    IN  IF frame[n].pm <= 0 \/ prior = <<>> THEN None
        ELSE Ratio(frame[n].pm * Len(prior), SumSeq(prior))

\* A volume against the average whole session before row n.
DailyRvol(frame, n, volume) ==
    LET prior == LastOf([i \in 1..n - 1 |-> frame[i].volume], Lookback)
    IN  IF SumSeq(prior) > 0 THEN Ratio(volume * Len(prior), SumSeq(prior))
        ELSE Ratio(0, 1)

-----------------------------------------------------------------------------
(* The screener of the service.                                             *)

\* resolve_universe: entries in their order, every symbol once.
Resolved ==
    Keep(Expanded, {i \in DOMAIN Expanded : \A j \in 1..i - 1 : Expanded[j] # Expanded[i]})

\* What the provider returns: some sessions back, and today's row if it has one.
\* Nothing in the screener looks at the date of the last row.
LiveFrame(past, view) ==
    LET recent == LastOf(past, LiveDays - 1)
    IN  IF view = None THEN recent ELSE Append(recent, view)

ComputeMetrics(frame) ==
    LET n     == Len(frame)
        prior == LastOf([i \in 1..n - 1 |-> frame[i].volume], Lookback)
    IN  [price     |-> frame[n].close,
         open      |-> frame[n].open,
         gap       |-> Gap(frame, n),
         avgVolume |-> Ratio(SumSeq(prior), Len(prior)),
         rvol      |-> DailyRvol(frame, n, frame[n].volume)]

\* apply_tod_premarket_rvol: the daily ratio stays where there is no other.
Measured(frame) ==
    LET tod == TodRvol(frame, Len(frame))
    IN  [ComputeMetrics(frame) EXCEPT !.rvol = IF tod # None THEN tod ELSE @]

\* min_price and min_avg_daily_volume are for the service alone.
Liquid(m) ==
    /\ m.price \in MinPrice..MaxPrice
    /\ m.avgVolume.num >= MinAvgVolume * m.avgVolume.den

PassesFilters(m) ==
    /\ Liquid(m)
    /\ AtLeastPct(Magnitude(m.gap), MinGapPct)
    /\ AtLeastPct(m.rvol, config.minRvol)

\* RVOL + |gap %| / 10 + sentiment / 2.
Score(m, sentiment) ==
    LET mood == IF sentiment = None THEN 0 ELSE sentiment
        gap  == Magnitude(m.gap)
    IN  Ratio(2 * m.rvol.num * gap.den + 20 * gap.num * m.rvol.den
                + mood * m.rvol.den * gap.den,
              2 * m.rvol.den * gap.den)

Outscores(a, b) == a.num * b.den > b.num * a.den

\* The stable sort by falling score.
Ranked(scores) ==
    LET Ahead(i) == {j \in DOMAIN scores :
                        \/ Outscores(scores[j], scores[i])
                        \/ j < i /\ ~Outscores(scores[i], scores[j])}
    IN  [k \in DOMAIN scores |->
            CHOOSE i \in DOMAIN scores : Cardinality(Ahead(i)) = k - 1]

-----------------------------------------------------------------------------
(* The days of a backtest.                                                  *)

Exhausted(gap) == MaxGapPct > 0 /\ gap.num * 100 > MaxGapPct * gap.den

\* The caller's frames have no ATR column, so that max_gap_norm, the other
\* limit on exhausted gaps, never applies.
GapEligibleDays(frame) ==
    {d \in 2..Len(frame) :
        LET gap == Magnitude(Gap(frame, d))
        IN  /\ AtLeastPct(gap, MinGapPct)
            /\ ~Exhausted(gap)}

\* Today's volume in its own average.
FaultPremarketRvolEligibleDays(frame) ==
    {d \in 2..Len(frame) :
        config.minRvol > 0 /\ frame[d].pm > 0
        /\ LET prior == LastOf([i \in 1..d |-> frame[i].pm], Lookback)
           IN  AtLeastPct(Ratio(frame[d].pm * Len(prior), SumSeq(prior)), config.minRvol)}

\* A threshold of zero selects no day at all.
PremarketRvolEligibleDays(frame) ==
    {d \in 2..Len(frame) :
        LET rvol == IF config.rvolMode = "tod" THEN TodRvol(frame, d)
                    ELSE DailyRvol(frame, d, frame[d].pm)
        IN  /\ config.minRvol > 0
            /\ frame[d].pm > 0
            /\ rvol # None /\ AtLeastPct(rvol, config.minRvol)}

EligibleDays(s) ==
    GapEligibleDays(history[s]) \cap PremarketRvolEligibleDays(history[s])

\* The share of the window at or below the level exceeds the limit.
HighPercentile(window, level, maxPct) ==
    Cardinality({i \in DOMAIN window : window[i] <= level}) * 100
        > maxPct * Len(window)

FaultPriorRows(s, d) == SubSeq(history[s], 1, d)        \* <= for <
PriorRows(s, d) == SubSeq(history[s], 1, d - 1)

\* Above the level, or high for its recent past; half-way for want of one.
VixBlocks(rows) ==
    LET closes == [i \in DOMAIN rows |-> rows[i].close]
        window == LastOf(closes, VixWindow)
    IN  /\ closes # <<>>
        /\ \/ MaxVix > 0 /\ Last(closes) > MaxVix
           \/ IF Len(window) >= VixHistory
              THEN HighPercentile(window, Last(closes), MaxVixPct)
              ELSE 50 > MaxVixPct

SpyBlocks(rows) ==
    LET atrs   == [i \in DOMAIN rows |-> rows[i].atr]
        recent == LastOf(atrs, VixWindow)
        window == Keep(recent, {i \in DOMAIN recent : recent[i] # None})
    IN  /\ atrs # <<>>
        /\ Last(atrs) # None
        /\ Len(window) >= VixHistory
        /\ HighPercentile(window, Last(atrs), MaxSpyPct)

DayBlocked(d) ==
    /\ config.gate = "enforce"
    /\ VixBlocks(PriorRows(VixSymbol, d)) \/ SpyBlocks(PriorRows(SpySymbol, d))

BlockedTradingDays == {d \in 1..Len(history[VixSymbol]) : DayBlocked(d)}

TradedDays(s) == EligibleDays(s) \ BlockedTradingDays
-----------------------------------------------------------------------------
(* A morning, its research runs, and the session.                           *)

ScreeningInit ==
    /\ config \in Configs
    /\ history \in Pasts
    /\ pm \in Premarkets
    /\ phase = "morning"
    /\ runs = 0
    /\ scans = {}
    /\ candidates = <<>>
    /\ watchlist = <<>>

\* The row a provider shows of a symbol today, if any, with the premarket volume.
Shown(s, view) == IF view = None THEN None ELSE [view EXCEPT !.pm = pm[s]]

\* Screener.screen and _record_scans.  A provider that is not available, or
\* raises, leaves everything as it was.
Screen(views, served) ==
    LET Frame(s)   == LiveFrame(history[s], Shown(s, views[s]))
        measurable == Keep(Resolved, {i \in DOMAIN Resolved : /\ Resolved[i] \in served
                                                             /\ Len(Frame(Resolved[i])) >= 2})
        scan(s)    == [run |-> runs + 1, symbol |-> s, metrics |-> Measured(Frame(s)),
                       today |-> views[s] # None]
        scanned    == [i \in DOMAIN measurable |-> scan(measurable[i])]
    IN  /\ phase = "morning"
        /\ runs < MaxRuns
        /\ runs' = runs + 1
        /\ scans' = scans \cup ToSet(scanned)
        /\ candidates' = Keep(scanned, {i \in DOMAIN scanned : PassesFilters(scanned[i].metrics)})
        /\ phase' = "screened"
        /\ UNCHANGED <<config, history, pm, watchlist>>

FaultReplaceForDay(items) == watchlist \o items     \* the delete forgotten
ReplaceForDay(items) == items

\* _enrich_sentiment, _score_and_rank, and the best replace the day's list.
WriteWatchlist(moods) ==
    LET order == Ranked([i \in DOMAIN candidates |->
                            Score(candidates[i].metrics, moods[i])])
        top   == SubSeq(order, 1, Min({Len(order), MaxWatchlist}))
    IN  /\ phase = "screened"
        /\ watchlist' = ReplaceForDay([k \in DOMAIN top |->
                            [symbol  |-> candidates[top[k]].symbol,
                             metrics |-> candidates[top[k]].metrics,
                             mood    |-> moods[top[k]]]])
        /\ phase' = "morning"
        /\ UNCHANGED <<config, history, pm, runs, scans, candidates>>

\* The process dies after the audit and before the list.
CrashInResearch ==
    /\ phase = "screened"
    /\ phase' = "morning"
    /\ UNCHANGED <<config, history, pm, runs, scans, candidates, watchlist>>

\* The session opens; of its bar, the open and the premarket volume are known.
OpenMarket(opens) ==
    /\ phase = "morning"
    /\ history' = [s \in Known |->
                      Append(history[s],
                             [opens[s] EXCEPT !.pm = pm[s], !.close = opens[s].open,
                                              !.volume = 0, !.atr = None])]
    /\ phase' = "open"
    /\ UNCHANGED <<config, pm, runs, scans, candidates, watchlist>>

\* It closes as any bar with that open.
CloseMarket(bars) ==
    /\ phase = "open"
    /\ \A s \in Known : bars[s].open = Last(history[s]).open
    /\ history' = [s \in Known |->
                      Front(history[s]) \o <<[bars[s] EXCEPT !.pm = pm[s]]>>]
    /\ phase' = "closed"
    /\ UNCHANGED <<config, pm, runs, scans, candidates, watchlist>>

ScreeningNext ==
    \/ \E views \in Views, served \in Served : Screen(views, served)
    \/ \E moods \in [DOMAIN candidates -> Sentiments] : WriteWatchlist(moods)
    \/ CrashInResearch
    \/ \E opens \in Sessions : OpenMarket(opens)
    \/ \E bars \in Sessions : CloseMarket(bars)

ScreeningSpec == ScreeningInit /\ [][ScreeningNext]_screenVars
-----------------------------------------------------------------------------
(* Properties.                                                              *)

Today == Len(history[VixSymbol])
LatestScans == {c \in scans : c.run = runs}

\* When the session is over, a backtest selects it for a symbol if and only if
\* the service's latest screen let the symbol pass that morning, but for the
\* ways in which the two differ: the service was shown yesterday's row, or an
\* open that was not the open; it fell back to the daily ratio, or averaged a
\* shorter premarket history; it alone asks for liquidity, and the backtest
\* alone rejects exhausted gaps.  With no threshold the backtest selects
\* nothing (screener.py and screener_parity.py, whose docs claim parity).
LivePicksForCause ==
    phase = "closed" /\ config.rvolMode = "tod" =>
        \A c \in LatestScans :
            LET frame    == history[c.symbol]
                live     == LastOf(frame, LiveDays)
                picked   == \E i \in DOMAIN candidates : candidates[i].symbol = c.symbol
                selected == Today \in EligibleDays(c.symbol)
            IN  \/ picked = selected
                \/ ~c.today
                \/ c.metrics.open # frame[Today].open
                \/ PriorPm(live, Len(live)) # PriorPm(frame, Today)
                \/ picked /\ \/ TodRvol(frame, Today) = None
                             \/ config.minRvol = 0
                             \/ Exhausted(Magnitude(c.metrics.gap))
                \/ selected /\ ~Liquid(c.metrics)

\* The day's list is the outcome of one screen, whatever died between the audit
\* and the list and however often the research was run again: every line was
\* scanned and passed in the same run, no symbol comes twice, the list is as
\* long as that run allows, and its scores fall.
WatchlistIsOneRanking ==
    watchlist # <<>> =>
        \E r \in 1..runs :
            LET passed == {c \in scans : c.run = r /\ PassesFilters(c.metrics)}
            IN  /\ \A i \in DOMAIN watchlist :
                      \E c \in passed : /\ c.symbol = watchlist[i].symbol
                                        /\ c.metrics = watchlist[i].metrics
                /\ IsInjective([i \in DOMAIN watchlist |-> watchlist[i].symbol])
                /\ Len(watchlist) = Min({Cardinality(passed), MaxWatchlist})
                /\ \A i \in 2..Len(watchlist) :
                      ~Outscores(Score(watchlist[i].metrics, watchlist[i].mood),
                                 Score(watchlist[i - 1].metrics, watchlist[i - 1].mood))

\* Whether a backtest trades a day is settled when the session opens: neither
\* its close, volume or range nor any later session changes the choice
\* ("introduces no look-ahead", gap_eligible_days; "prior close", vol_gate.py).
SettledAtTheOpen ==
    [][\A s \in Known : TradedDays(s) = TradedDays(s)' \cap 1..Today]_screenVars

-----------------------------------------------------------------------------
(* What the proofs of these rest on.                                        *)

ScreeningTypeOK ==
    /\ config \in Configs
    /\ phase \in {"morning", "screened", "open", "closed"} /\ runs \in Nat
    /\ pm \in Premarkets
    /\ history \in [Known -> Seq(Row)]
    /\ \A s \in Known : Len(history[s]) = Today
    /\ \A c \in scans : c.run \in 1..runs /\ c.symbol \in Known

\* Once it is open, the last row is today's, with the premarket volume known.
LastIsToday ==
    phase \in {"open", "closed"} =>
        \A s \in Known : /\ Len(history[s]) > 0
                         /\ Last(history[s]).pm = pm[s]

\* The sessions that were complete in the morning.
Past(s) == IF phase \in {"open", "closed"} THEN Front(history[s]) ELSE history[s]

\* A line of the audit is of what some provider showed this morning, and a run
\* writes no symbol twice.
AuditIsOfTheMorning ==
    /\ \A c \in scans : \E views \in Views :
          LET frame == LiveFrame(Past(c.symbol), Shown(c.symbol, views[c.symbol]))
          IN  /\ Len(frame) >= 2
              /\ c.metrics = Measured(frame)
              /\ c.today = (views[c.symbol] # None)
    /\ \A c, d \in scans : c.run = d.run /\ c.symbol = d.symbol => c = d

\* The candidates are the latest scans that passed, each of them once.
CandidatesPassed ==
    /\ candidates \in Seq(scans)
    /\ IsInjective(candidates)
    /\ ToSet(candidates) = {c \in LatestScans : PassesFilters(c.metrics)}
=============================================================================
