------------------------------ MODULE MCReplay ------------------------------
(* Small instances of what is done offline and of the screens it mirrors:   *)
(* the replay, the screens of a morning, and runs of the label pipeline.    *)
EXTENDS Replay, Screening, LabelPipeline

CONSTANTS A, B, C, V, H     \* V the volatility index, H held out of the model

\* A long and a short with stops and targets around their entries.
TwoRequests ==
    { [symbol |-> A, side |-> "BUY", atr |-> 5, stopHint |-> 90, targetHint |-> 115],
      [symbol |-> B, side |-> "SELL", atr |-> 0, stopHint |-> 110, targetHint |-> NoLevel] }

\* A quiet bar, one that touches stops and targets of both sides, one that
\* gaps through the long's stop and one that gaps through the short's.
FourBars ==
    { [open |-> 100, high |-> 104, low |-> 97, close |-> 102],
      [open |-> 101, high |-> 118, low |-> 78, close |-> 100],
      [open |-> 85, high |-> 96, low |-> 84, close |-> 95],
      [open |-> 112, high |-> 121, low |-> 108, close |-> 120] }

-----------------------------------------------------------------------------
DayBar(open, close, volume, pmVolume, atr) ==
    [open |-> open, close |-> close, volume |-> volume, pm |-> pmVolume, atr |-> atr]

\* A close of 10 makes an open of 11 the smallest gap that qualifies and one of
\* 14 exhausted; a close of 4 is below the smallest price.
Flat    == DayBar(10, 10, 4, 2, 1)
GapsUp  == DayBar(11, 10, 4, 4, 1)
Exhaust == DayBar(14, 10, 4, 4, 1)
Falls   == DayBar(9, 4, 8, 2, 2)
Thin    == DayBar(9, 10, 1, 0, 2)

Calm  == DayBar(10, 10, 4, 0, 1)
Wild  == DayBar(10, 30, 4, 0, 3)
Young == DayBar(10, 20, 4, 0, None)

TheUniverse == <<"core", "own">>
TheMembers == [e \in {"core", "own"} |-> IF e = "core" THEN <<A, B>> ELSE <<B>>]

ThePasts ==
    {[s \in {A, B, V} |-> CASE s = A -> a [] s = B -> <<Flat, Flat, Flat>> [] s = V -> v] :
        a \in { <<Flat, Flat, Flat>>, <<Flat, Flat, GapsUp>>, <<Flat, Thin, Thin>>, <<GapsUp, Thin, Flat>>,
                <<Thin, Thin, Flat>>, <<Falls, Flat, GapsUp>> },
        v \in { <<Calm, Young, Wild>>, <<Wild, Young, Calm>> }}

TheSessions ==
    {[s \in {A, B, V} |-> CASE s = A -> a [] s = B -> GapsUp [] s = V -> v] :
        a \in {Flat, GapsUp, Exhaust, Falls, Thin}, v \in {Calm, Wild}}

Seen(a, b) == [s \in {A, B, V} |-> CASE s = A -> a [] s = B -> b [] s = V -> None]
TheViews == {Seen(GapsUp, GapsUp), Seen(Exhaust, None), Seen(Falls, GapsUp), Seen(None, GapsUp)}
TheServed == {{A}, {A, B}}
ThePremarkets == {[s \in {A, B, V} |-> IF s = A THEN v ELSE 4] : v \in {0, 4}}

Configured(minRvol, mode, gate) ==
    [minRvol |-> minRvol, rvolMode |-> mode, gate |-> gate]

TheConfigs ==
    { Configured(150, "tod", "enforce"), Configured(0, "tod", "off"),
      Configured(50, "screener", "shadow") }

-----------------------------------------------------------------------------
TheTickers == <<A, B, C, H>>

Trade(symbol, in, out) == [symbol |-> symbol, in |-> in, out |-> out]

\* Four times to a day.
TheTrades ==
    [rvol \in {"loose", "strict"} |->
        IF rvol = "strict" THEN {Trade(A, 8, 9), Trade(A, 12, 13), Trade(A, 16, 17)}
        ELSE {Trade(A, 4, 7), Trade(A, 9, 10), Trade(A, 13, 14), Trade(B, 5, 5),
              Trade(B, 8, 11), Trade(C, 9, 9), Trade(H, 9, 9), Trade(A, 16, 17)}]

Pipeline(start, end, trainEnd, rvol, size, resume, skip) ==
    [start |-> start, end |-> end, trainEnd |-> trainEnd, rvol |-> rvol, batch |-> size,
     resume |-> resume, skip |-> skip]

TheArguments ==
    { Pipeline(2, 2, 2, "loose", 0, FALSE, FALSE),
      Pipeline(1, 4, 3, "loose", 1, FALSE, FALSE),
      Pipeline(1, 4, 3, "loose", 1, TRUE, FALSE),
      Pipeline(1, 5, 4, "loose", 2, FALSE, FALSE),
      Pipeline(2, 4, 4, "strict", 0, FALSE, FALSE),
      Pipeline(1, 4, 2, "strict", 0, FALSE, TRUE) }

-----------------------------------------------------------------------------
VARIABLE focus      \* what the run looks at

OfflineInit ==
    /\ ReplayInit /\ ScreeningInit /\ PipelineInit
    /\ \/ focus = "mornings"
       \/ /\ focus \in {"replay", "pipeline"}
          /\ <<config, history, pm>> = CHOOSE x \in
                {<<c, h, p>> : c \in Configs, h \in Pasts, p \in Premarkets} : TRUE

Replays == focus = "replay" /\ ReplayNext /\ UNCHANGED <<screenVars, pipelineVars, focus>>

\* Only the latest screen meets the session, so a morning with a second run
\* need not go on.
Screens ==
    /\ focus = "mornings"
    /\ ScreeningNext
    /\ phase' = "open" => runs <= 1
    /\ UNCHANGED <<replayVars, pipelineVars, focus>>

Labelling == focus = "pipeline" /\ PipelineNext /\ UNCHANGED <<replayVars, screenVars, focus>>

OfflineNext == Replays \/ Screens \/ Labelling
OfflineSpec ==
    OfflineInit /\ [][OfflineNext]_<<replayVars, screenVars, pipelineVars, focus>>
=============================================================================
