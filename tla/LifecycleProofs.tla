--------------------------- MODULE LifecycleProofs ---------------------------
(***************************************************************************)
(* Theorems about the days of the service, for any calendar, any instants  *)
(* at which things happen, and any number of trades, failures, crashes and *)
(* stages run by hand.                                                     *)
(***************************************************************************)
EXTENDS Lifecycle, FunctionTheorems, FiniteSetTheorems, WellFoundedInduction, TLAPS

-----------------------------------------------------------------------------
(* Finite sets of numbers.                                                 *)

\* A finite set of numbers that is not empty has a greatest one.
LEMMA GreatestExists ==
    ASSUME NEW S, IsFiniteSet(S), \A x \in S : x \in Int, S # {}
    PROVE  \E m \in S : \A x \in S : x <= m
  <1> DEFINE From(x) == {y \in S : x <= y}
             Tails   == {From(x) : x \in S}
  <1>1. IsWellFoundedOn(StrictSubsetOrdering(S), FiniteSubsetsOf(S))
    BY FS_StrictSubsetOrderingWellFounded
  <1>2. Tails \subseteq FiniteSubsetsOf(S)
    <2> SUFFICES ASSUME NEW x \in S
                 PROVE  From(x) \in FiniteSubsetsOf(S)
      OBVIOUS
    <2>1. From(x) \in SUBSET S
      OBVIOUS
    <2> QED BY <2>1, FS_Subset DEF FiniteSubsetsOf
  <1>3. Tails # {}
    OBVIOUS
  <1>4. PICK U \in Tails : \A V \in Tails : <<V, U>> \notin StrictSubsetOrdering(S)
    <2> HIDE DEF Tails
    <2> QED BY <1>1, <1>2, <1>3, WFMin
  <1>5. PICK m \in S : U = From(m)
    OBVIOUS
  <1>6. ASSUME NEW x \in S, ~(x <= m)
        PROVE  FALSE
    <2>1. m < x /\ x \in Int /\ m \in Int
      BY <1>6
    <2>2. m \in From(m) /\ m \notin From(x)
      BY <2>1
    <2>3. From(x) \subseteq From(m)
      <3> SUFFICES ASSUME NEW y \in S, x <= y
                   PROVE  m <= y
        OBVIOUS
      <3>1. y \in Int
        OBVIOUS
      <3> QED BY <2>1, <3>1
    <2>4. <<From(x), From(m)>> \in StrictSubsetOrdering(S)
      <3>1. From(x) \in SUBSET S /\ From(m) \in SUBSET S
        OBVIOUS
      <3>2. From(x) # From(m)
        BY <2>2
      <3> HIDE DEF From
      <3> QED BY <3>1, <3>2, <2>3 DEF StrictSubsetOrdering
    <2> QED BY <2>4, <1>4, <1>5
  <1> QED BY <1>6

\* A set of numbers below a bound has a greatest one too.
LEMMA GreatestBelow ==
    ASSUME NEW S \in SUBSET Nat, NEW n \in Nat, \A x \in S : x <= n, S # {}
    PROVE  \E m \in S : \A x \in S : x <= m
  <1>1. IsFiniteSet(S)
    BY FS_BoundedSetOfNaturals
  <1>2. \A x \in S : x \in Int
    OBVIOUS
  <1> QED BY <1>1, <1>2, GreatestExists

\* The same the other way round.
LEMMA LeastBelow ==
    ASSUME NEW S \in SUBSET Nat, NEW n \in Nat, \A x \in S : x <= n, S # {}
    PROVE  \E m \in S : \A x \in S : m <= x
  <1> DEFINE T == {k \in 0..n : n - k \in S}
  <1>1. T \in SUBSET Nat /\ \A k \in T : k <= n
    OBVIOUS
  <1>2. \A x \in S : n - x \in T
    <2> SUFFICES ASSUME NEW x \in S
                 PROVE  n - x \in 0..n /\ n - (n - x) \in S
      OBVIOUS
    <2> QED OBVIOUS
  <1>3. T # {}
    BY <1>2
  <1>4. PICK k \in T : \A x \in T : x <= k
    <2> HIDE DEF T
    <2> QED BY <1>1, <1>3, GreatestBelow
  <1>5. n - k \in S /\ k \in Nat
    OBVIOUS
  <1>6. \A x \in S : n - k <= x
    BY <1>2, <1>4, <1>5
  <1> QED BY <1>5, <1>6

\* The next instant of the day.
LEMMA NextInstant ==
    ASSUME now \in Instants, Later # {}
    PROVE  LET next == CHOOSE t \in Later : \A u \in Later : t <= u
           IN  next \in Instants /\ now < next /\ \A t \in Instants : now < t => next <= t
  <1>1. Instants \subseteq 0..1439
    BY LifecycleAssumption DEF LifecycleAssumption
  <1>2. \A t \in Later : t \in Nat /\ t <= 1439
    BY <1>1 DEF Later
  <1>3. PICK n \in Nat : \A t \in Later : t <= n
    <2>1. 1439 \in Nat
      OBVIOUS
    <2> QED BY <1>2, <2>1
  <1>4. Later \in SUBSET Nat
    BY <1>2
  <1>5. \E t \in Later : \A u \in Later : t <= u
    BY <1>3, <1>4, LeastBelow, Zenon
  <1> QED BY <1>5 DEF Later

-----------------------------------------------------------------------------
(* The shape of tables, book and clock.                                    *)

\* The constants' bounds, as numbers.
LEMMA Bounds ==
    /\ MaxDay \in Nat \ {0} /\ MaxTrades \in Nat
    /\ Instants \subseteq Nat /\ 0 \in Instants
    /\ Premarket \in Nat /\ FlattenTime \in Nat /\ ReportTime \in Nat
  <1>1. {MaxDay, MaxTrades} \subseteq Nat /\ MaxDay # 0
    BY LifecycleAssumption DEF LifecycleAssumption
  <1>2. Instants \subseteq 0..1439 /\ 0 \in Instants
    BY LifecycleAssumption DEF LifecycleAssumption
  <1>3. {Premarket, FlattenTime, ReportTime} \subseteq 1..1439
    BY LifecycleAssumption DEF LifecycleAssumption
  <1>4. Instants \subseteq Nat
    <2> SUFFICES ASSUME NEW t \in Instants
                 PROVE  t \in Nat
      OBVIOUS
    <2>1. t \in 0..1439
      BY <1>2
    <2> QED BY <2>1
  <1>5. Premarket \in 1..1439 /\ FlattenTime \in 1..1439 /\ ReportTime \in 1..1439
    BY <1>3
  <1> QED BY <1>1, <1>2, <1>4, <1>5

\* The rows that have been opened are counted by a number.
LEMMA OpenedIsNat ==
    ASSUME Numbered
    PROVE  Opened \in Nat
  <1>1. Cardinality(rows) \in Nat /\ Cardinality(closed) \in Nat
    BY FS_CardinalityType DEF Numbered
  <1> QED BY <1>1 DEF Opened

\* Closing rows moves them from one table to the other: as many are opened as
\* before.
LEMMA CloseKeepsOpened ==
    ASSUME Numbered, NEW R, R \subseteq rows, Close(R)
    PROVE  /\ IsFiniteSet(rows') /\ IsFiniteSet(closed')
           /\ Opened' = Opened
  <1> DEFINE Entry(r) == [trade |-> r, on |-> day]
             New      == {Entry(r) : r \in R}
             f        == [r \in R |-> Entry(r)]
  <1>1. IsFiniteSet(rows) /\ IsFiniteSet(closed)
    BY DEF Numbered
  <1>2. IsFiniteSet(R) /\ IsFiniteSet(rows \ R)
    BY <1>1, FS_Subset
  <1>3. f \in Bijection(R, New)
    <2>1. f \in [R -> New]
      OBVIOUS
    <2>2. \A a, b \in R : f[a] = f[b] => a = b
      <3> SUFFICES ASSUME NEW a \in R, NEW b \in R, Entry(a) = Entry(b)
                   PROVE  a = b
        OBVIOUS
      <3>1. Entry(a).trade = a /\ Entry(b).trade = b
        OBVIOUS
      <3> QED BY <3>1
    <2>3. \A e \in New : \E r \in R : f[r] = e
      OBVIOUS
    <2> HIDE DEF f, New
    <2> QED BY <2>1, <2>2, <2>3, Fun_IsBij
  <1>4. IsFiniteSet(New) /\ Cardinality(New) = Cardinality(R)
    <2> HIDE DEF f, New
    <2> QED BY <1>2, <1>3, FS_Bijection DEF ExistsBijection
  <1>5. closed \cap New = {}
    <2> SUFFICES ASSUME NEW c \in closed, NEW r \in R, c = Entry(r)
                 PROVE  FALSE
      OBVIOUS
    <2>1. c.trade = r
      OBVIOUS
    <2> QED BY <2>1 DEF Numbered
  <1>6. IsFiniteSet(closed \cup New) /\ Cardinality(closed \cup New) = Cardinality(closed) + Cardinality(R)
    <2>1. Cardinality({}) = 0
      BY FS_EmptySet
    <2>2. /\ IsFiniteSet(closed \cup New)
          /\ Cardinality(closed \cup New) =
                 Cardinality(closed) + Cardinality(New) - Cardinality(closed \cap New)
      <3> HIDE DEF New
      <3> QED BY <1>1, <1>4, FS_Union
    <2>3. Cardinality(closed) \in Nat /\ Cardinality(R) \in Nat
      BY <1>1, <1>2, FS_CardinalityType
    <2> HIDE DEF New
    <2> QED BY <1>4, <1>5, <2>1, <2>2, <2>3
  <1>7. Cardinality(rows) = Cardinality(rows \ R) + Cardinality(R)
    <2>1. (rows \ R) \cup R = rows /\ (rows \ R) \cap R = {}
      OBVIOUS
    <2>2. Cardinality((rows \ R) \cup R)
              = Cardinality(rows \ R) + Cardinality(R) - Cardinality((rows \ R) \cap R)
      BY <1>2, FS_Union
    <2>3. Cardinality(rows \ R) \in Nat /\ Cardinality(R) \in Nat /\ Cardinality({}) = 0
      BY <1>2, FS_CardinalityType, FS_EmptySet
    <2>4. Cardinality(rows) = Cardinality(rows \ R) + Cardinality(R) - Cardinality({})
      BY <2>1, <2>2, Zenon
    <2> QED BY <2>3, <2>4
  <1>8. rows' = rows \ R /\ closed' = closed \cup New
    BY DEF Close
  <1>9. Cardinality(rows \ R) \in Nat /\ Cardinality(R) \in Nat /\ Cardinality(closed) \in Nat
    BY <1>1, <1>2, FS_CardinalityType
  <1> HIDE DEF New
  <1> QED BY <1>2, <1>6, <1>7, <1>8, <1>9 DEF Opened

\* What rehydrate loads: of every symbol with rows, the newest.
LEMMA RehydratedHolds ==
    ASSUME LifecycleTypeOK, Numbered
    PROVE  /\ Rehydrated \subseteq rows
           /\ \A q \in Rehydrated, r \in rows : r.symbol = q.symbol => r.id <= q.id
           /\ \A r \in rows : \E q \in Rehydrated : q.symbol = r.symbol
  <1>1. \A r \in rows : r.id \in Nat
    BY Bounds DEF LifecycleTypeOK, Row
  <1>2. PICK n \in Nat : \A r \in rows : r.id <= n
    BY OpenedIsNat DEF Numbered
  <1>3. ASSUME NEW r \in rows
        PROVE  \E q \in Rehydrated : q.symbol = r.symbol
    <2> DEFINE Ids == {q.id : q \in {p \in rows : p.symbol = r.symbol}}
    <2>1. Ids \in SUBSET Nat /\ Ids # {} /\ \A i \in Ids : i <= n
      BY <1>1, <1>2
    <2>2. PICK m \in Ids : \A i \in Ids : i <= m
      <3> HIDE DEF Ids
      <3> QED BY <2>1, GreatestBelow
    <2>3. PICK q \in rows : q.symbol = r.symbol /\ q.id = m
      OBVIOUS
    <2>4. q \in Rehydrated
      BY <2>2, <2>3 DEF Rehydrated
    <2> QED BY <2>3, <2>4
  <1> QED BY <1>3 DEF Rehydrated

\* The gate's newest trade was closed on some day up to today.
LEMMA LastClosedDay ==
    ASSUME LifecycleTypeOK, DayShape
    PROVE  /\ LastClosed \in 0..day
           /\ LastClosed # 0 => \E c \in closed : c.on = LastClosed
  <1>1. day \in Nat /\ \A c \in closed : c.on \in Nat /\ c.on <= day
    BY Bounds DEF LifecycleTypeOK, DayShape, Days
  <1>2. CASE closed = {}
    BY <1>1, <1>2 DEF LastClosed
  <1>3. CASE closed # {}
    <2> DEFINE S == {c.on : c \in closed}
    <2>1. S \in SUBSET Nat /\ S # {} /\ \A i \in S : i <= day
      BY <1>1, <1>3
    <2>2. PICK n \in Nat : n = day
      BY <1>1
    <2>3. PICK T : T = S
      OBVIOUS
    <2>4. \E m \in S : \A i \in S : i <= m
      <3> HIDE DEF S
      <3>1. \E m \in T : \A i \in T : i <= m
        BY <2>1, <2>2, <2>3, GreatestBelow
      <3> QED BY <3>1, <2>3
    <2>5. \E d \in S : \A c \in closed : c.on <= d
      BY <2>4
    <2>6. LastClosed = CHOOSE d \in S : \A c \in closed : c.on <= d
      BY <1>3 DEF LastClosed
    <2>7. LastClosed \in S
      <3> HIDE DEF S
      <3> QED BY <2>5, <2>6
    <2> QED BY <2>7, <1>1
  <1> QED BY <1>2, <1>3

\* A step that leaves the tables alone and loads the book as rehydrate does, or
\* keeps or empties it, keeps the shape.
LEMMA QuietShape ==
    ASSUME LifecycleShape, UNCHANGED <<day, rows, closed, report, flattened>>,
           badMornings' \subseteq 1..day,
           now' \in Instants, up' \in BOOLEAN, due' \subseteq Jobs,
           tradeDate' \in 0..day, gateSaw' \in 0..day,
           cycle' \in [on : BOOLEAN, symbols : SUBSET Symbols],
           screening' \in BOOLEAN, watchlist' \subseteq Symbols,
           up' => tradeDate' # 0, "premarket" \in due' => Premarket <= now',
           memory' \in {memory, {}, Rehydrated},
           ~up' => due' = {} /\ memory' = {} /\ ~cycle'.on /\ ~screening'
    PROVE  LifecycleShape'
  <1> USE DEF LifecycleShape
  <1>1. /\ memory' \subseteq rows
        /\ \A q \in memory', r \in rows : r.symbol = q.symbol => r.id <= q.id
    BY RehydratedHolds DEF LifecycleTypeOK, HoldsNewest
  <1>2. LifecycleTypeOK'
    BY <1>1 DEF LifecycleTypeOK
  <1>3. Numbered'
    BY DEF Numbered, Opened
  <1>4. DayShape'
    BY DEF DayShape
  <1>5. HoldsNewest'
    BY <1>1 DEF HoldsNewest
  <1> QED BY <1>2, <1>3, <1>4, <1>5

\* A step that closes rows of the book keeps the shape.
LEMMA CloseShape ==
    ASSUME LifecycleShape, NEW R, R \subseteq memory, Close(R),
           UNCHANGED <<day, now, up, tradeDate, gateSaw, screening, cycle, watchlist, report>>,
           due' \subseteq due, flattened' \subseteq 1..day, badMornings' = badMornings
    PROVE  LifecycleShape'
  <1> DEFINE New == {[trade |-> r, on |-> day] : r \in R}
  <1> USE DEF LifecycleShape
  <1>1. R \subseteq rows /\ memory \subseteq rows /\ rows \subseteq Row /\ day \in Days
    BY DEF LifecycleTypeOK
  <1>2. rows' = rows \ R /\ memory' = memory \ R /\ closed' = closed \cup New
    BY DEF Close
  <1>3. \A c \in New : c \in [trade : Row, on : Days] /\ c.trade \in R /\ c.on = day
    BY <1>1
  <1>4. Opened' = Opened /\ IsFiniteSet(rows') /\ IsFiniteSet(closed')
    BY <1>1, CloseKeepsOpened
  <1> HIDE DEF New
  <1>5. LifecycleTypeOK'
    BY <1>1, <1>2, <1>3 DEF LifecycleTypeOK
  <1>6. Numbered'
    <2>1. \A c \in closed' : c.trade.id <= Opened' /\ c.trade \notin rows'
      BY <1>1, <1>2, <1>3, <1>4 DEF Numbered
    <2> QED BY <1>2, <1>4, <2>1 DEF Numbered
  <1>7. DayShape'
    <2>1. day <= day
      BY <1>1, Bounds DEF Days
    <2> QED BY <1>2, <1>3, <2>1 DEF DayShape
  <1>8. HoldsNewest'
    BY <1>2 DEF HoldsNewest
  <1> QED BY <1>5, <1>6, <1>7, <1>8

\* A position opened is the newest row, of a symbol that the engine did not hold.
LEMMA OpenShape ==
    ASSUME LifecycleShape, NEW s \in Symbols, OpenFromSignal(s)
    PROVE  /\ LifecycleShape'
           /\ \E row \in Row :
                  /\ row.symbol = s /\ row.date = tradeDate /\ row.day = day
                  /\ row.id = Opened + 1
                  /\ row.afterFlatten = (day \in flattened)
                  /\ row.afterReport = (tradeDate \in DOMAIN report)
                  /\ rows' = rows \cup {row} /\ memory' = memory \cup {row}
                  /\ \A r \in rows : r.id < row.id
  <1> USE DEF LifecycleShape
  <1> DEFINE row == [id |-> Opened + 1, symbol |-> s, date |-> tradeDate, day |-> day,
                     afterFlatten |-> day \in flattened,
                     afterReport |-> tradeDate \in DOMAIN report]
  <1>1. /\ cycle.on /\ up /\ s \notin Held /\ Opened < MaxTrades
        /\ rows' = rows \cup {row} /\ memory' = memory \cup {row} /\ closed' = closed
        /\ UNCHANGED <<day, now, up, due, tradeDate, gateSaw, screening, cycle, watchlist,
                       report, flattened, badMornings>>
    BY DEF OpenFromSignal, clock, engine, history, counts, LifecycleTypeOK
  <1>2. Opened \in Nat /\ MaxTrades \in Nat /\ MaxDay \in Nat
    BY OpenedIsNat, Bounds
  <1>3. day \in Days /\ tradeDate \in Days /\ day \in Nat
    BY <1>1, <1>2 DEF LifecycleTypeOK, DayShape, Days
  <1>4. Opened + 1 \in 1..MaxTrades
    BY <1>1, <1>2
  <1>5. row \in Row
    BY <1>3, <1>4 DEF Row
  <1>6. /\ row.symbol = s /\ row.date = tradeDate /\ row.day = day /\ row.id = Opened + 1
        /\ row.afterFlatten = (day \in flattened)
        /\ row.afterReport = (tradeDate \in DOMAIN report)
    OBVIOUS
  <1> HIDE DEF row
  <1>7. /\ \A r \in rows : r.id \in Nat /\ r.id <= Opened
        /\ \A c \in closed : c.trade.id \in Nat /\ c.trade.id <= Opened
    BY Bounds DEF LifecycleTypeOK, Numbered, Row
  <1>8. row \notin rows /\ \A r \in rows : r.id < row.id
    BY <1>2, <1>6, <1>7
  <1>9. Opened' = Opened + 1 /\ IsFiniteSet(rows')
    <2>1. IsFiniteSet(rows) /\ IsFiniteSet(closed)
      BY DEF Numbered
    <2>2. Cardinality(rows') = Cardinality(rows) + 1 /\ IsFiniteSet(rows')
      BY <1>1, <1>8, <2>1, FS_AddElement
    <2>3. Cardinality(rows) \in Nat /\ Cardinality(closed) \in Nat
      BY <2>1, FS_CardinalityType
    <2> QED BY <1>1, <2>2, <2>3 DEF Opened
  <1>10. LifecycleTypeOK'
    BY <1>1, <1>5 DEF LifecycleTypeOK
  <1>11. Numbered'
    <2>1. \A r \in rows' : r.id <= Opened'
      BY <1>1, <1>2, <1>6, <1>7, <1>9
    <2>2. \A c \in closed' : c.trade.id <= Opened' /\ c.trade \notin rows'
      BY <1>1, <1>2, <1>6, <1>7, <1>9 DEF Numbered
    <2>3. \A r, q \in rows' : r.id = q.id => r = q
      BY <1>1, <1>2, <1>6, <1>7 DEF Numbered
    <2> QED BY <1>1, <1>9, <2>1, <2>2, <2>3 DEF Numbered
  <1>12. DayShape'
    BY <1>1, <1>3, <1>6 DEF DayShape
  <1>13. HoldsNewest'
    <2>1. memory \subseteq rows
      BY DEF LifecycleTypeOK
    <2>2. \A q \in memory : q.symbol # s
      BY <1>1 DEF Held
    <2> QED BY <1>1, <1>2, <1>6, <1>7, <2>1, <2>2 DEF HoldsNewest
  <1> QED BY <1>1, <1>5, <1>6, <1>8, <1>10, <1>11, <1>12, <1>13

\* Initially nothing is on record.
LEMMA InitShape == LifecycleInit => LifecycleShape
  <1> SUFFICES ASSUME LifecycleInit
               PROVE  LifecycleShape
    OBVIOUS
  <1> USE DEF LifecycleInit
  <1>1. LifecycleTypeOK
    <2>1. Idle \in [on : BOOLEAN, symbols : SUBSET Symbols] /\ ~Idle.on
      BY DEF Idle
    <2>2. day \in Days /\ now \in Instants /\ tradeDate \in 0..day /\ gateSaw \in 0..day
      BY LifecycleAssumption, Bounds DEF Days, LifecycleAssumption
    <2>3. DOMAIN report = {}
      OBVIOUS
    <2> QED BY <2>1, <2>2, <2>3 DEF LifecycleTypeOK
  <1>2. Numbered
    BY FS_EmptySet DEF Numbered
  <1>3. DayShape
    BY DEF DayShape
  <1>4. HoldsNewest
    BY DEF HoldsNewest
  <1> QED BY <1>1, <1>2, <1>3, <1>4 DEF LifecycleShape

\* The clock moves on, and triggers what falls into the step.
LEMMA TickShape ==
    ASSUME LifecycleShape, Tick
    PROVE  LifecycleShape'
  <1>1. now' \in Instants /\ now < now'
    BY NextInstant DEF Tick, LifecycleShape, LifecycleTypeOK
  <1>2. /\ due' = due \cup Triggered(day, now, now')
        /\ UNCHANGED <<day, up, tradeDate, gateSaw, screening, cycle, watchlist, rows, memory,
                       closed, report, flattened, badMornings>>
    BY DEF Tick, engine, tables, book, history
  <1>3. Triggered(day, now, now') \subseteq {j \in Jobs : At(j) <= now'}
    BY DEF Triggered
  <1>4. ~up => Triggered(day, now, now') = {}
    BY DEF Triggered
  <1>5. "premarket" \in due' => Premarket <= now'
    <2>1. now \in Nat /\ now' \in Nat /\ Premarket \in Nat
      BY <1>1, Bounds DEF LifecycleShape, LifecycleTypeOK
    <2>2. "premarket" \in due => Premarket <= now
      BY <2>1 DEF LifecycleShape, DayShape
    <2>3. At("premarket") = Premarket
      BY DEF At
    <2> QED BY <1>1, <1>2, <1>3, <2>1, <2>2, <2>3
  <1> QED BY <1>1, <1>2, <1>3, <1>4, <1>5, QuietShape
          DEF LifecycleShape, LifecycleTypeOK, DayShape

\* A new day has neither list nor jobs.
LEMMA MidnightShape ==
    ASSUME LifecycleShape, Midnight
    PROVE  LifecycleShape'
  <1> USE DEF LifecycleShape
  <1>1. /\ day' = day + 1 /\ day < MaxDay /\ now' = 0 /\ due' = {} /\ watchlist' = {}
        /\ UNCHANGED <<up, tradeDate, gateSaw, screening, cycle, rows, memory, closed, report,
                       flattened, badMornings>>
    BY DEF Midnight, engine, book, history
  <1>2. day \in Nat /\ MaxDay \in Nat /\ day \in 1..MaxDay
    BY Bounds DEF LifecycleTypeOK, Days
  <1>3. day' \in Days /\ 0 \in Instants /\ 1..day \subseteq 1..day' /\ 0..day \subseteq 0..day'
    BY <1>1, <1>2, Bounds DEF Days
  <1>4. LifecycleTypeOK'
    BY <1>1, <1>3 DEF LifecycleTypeOK
  <1>5. Numbered'
    BY <1>1 DEF Numbered, Opened
  <1>6. DayShape'
    <2>1. \A r \in rows : r.day \in Nat
      BY <1>2 DEF LifecycleTypeOK, Row, Days
    <2>2. \A c \in closed : c.on \in Nat
      BY <1>2 DEF LifecycleTypeOK, Days
    <2> QED BY <1>1, <1>2, <1>3, <2>1, <2>2 DEF DayShape
  <1>7. HoldsNewest'
    BY <1>1 DEF HoldsNewest
  <1> QED BY <1>4, <1>5, <1>6, <1>7

\* The process starts, stops, or starts a day.
LEMMA ProcessShape ==
    ASSUME LifecycleShape, Boot \/ Crash \/ PremarketResearch \/ PremarketError
    PROVE  LifecycleShape'
  <1> USE DEF LifecycleShape
  <1>1. day \in Nat /\ day \in 0..day /\ day # 0
    BY Bounds DEF LifecycleTypeOK, Days
  <1>2. LastClosed \in 0..day
    BY LastClosedDay
  <1>3. CASE Boot
    BY <1>1, <1>2, <1>3, QuietShape DEF Boot, clock, LifecycleTypeOK, DayShape
  <1>4. CASE Crash
    <2>1. Idle \in [on : BOOLEAN, symbols : SUBSET Symbols] /\ ~Idle.on
      BY DEF Idle
    <2>2. 0 \in 0..day
      BY <1>1
    <2>3. /\ UNCHANGED <<day, now, watchlist, rows, closed, report, flattened, badMornings>>
          /\ up' = FALSE /\ due' = {} /\ screening' = FALSE /\ cycle' = Idle
          /\ tradeDate' = 0 /\ memory' = {} /\ gateSaw' = 0
      BY <1>4 DEF Crash, clock, history
    <2> QED BY <2>1, <2>2, <2>3, QuietShape DEF LifecycleTypeOK, DayShape
  <1>5. CASE PremarketResearch
    BY <1>1, <1>2, <1>5, QuietShape
       DEF PremarketResearch, Starts, BeginDay, clock, history, LifecycleTypeOK, DayShape
  <1>6. CASE PremarketError
    BY <1>1, <1>6, QuietShape
       DEF PremarketError, Starts, BeginDay, clock, LifecycleTypeOK, DayShape
  <1> QED BY <1>3, <1>4, <1>5, <1>6

\* Lists are written and cycles come and go.
LEMMA ListShape ==
    ASSUME LifecycleShape, NEW S \in SUBSET Symbols, NEW j \in Jobs,
           \/ Skip(j) \/ WriteWatchlist(S) \/ ResearchAborted
           \/ BeginCycle \/ EndCycle \/ OnceResearch(S)
    PROVE  LifecycleShape'
  <1> USE DEF LifecycleShape
  <1>1. CASE Skip(j)
    BY <1>1, QuietShape
       DEF Skip, clock, engine, tables, book, history, LifecycleTypeOK, DayShape
  <1>2. CASE WriteWatchlist(S)
    BY <1>2, QuietShape
       DEF WriteWatchlist, clock, engine, book, history, LifecycleTypeOK, DayShape
  <1>3. CASE ResearchAborted
    BY <1>3, QuietShape
       DEF ResearchAborted, clock, engine, tables, book, history, LifecycleTypeOK, DayShape
  <1>4. CASE BeginCycle
    <2>1. [on |-> TRUE, symbols |-> Priced] \in [on : BOOLEAN, symbols : SUBSET Symbols]
      BY DEF Priced, LifecycleTypeOK
    <2> QED BY <1>4, <2>1, QuietShape
            DEF BeginCycle, clock, engine, tables, book, history, LifecycleTypeOK, DayShape
  <1>5. CASE EndCycle
    <2>1. Idle \in [on : BOOLEAN, symbols : SUBSET Symbols] /\ ~Idle.on
      BY DEF Idle
    <2> QED BY <1>5, <2>1, QuietShape
            DEF EndCycle, clock, engine, tables, book, history, LifecycleTypeOK, DayShape
  <1>6. CASE OnceResearch(S)
    BY <1>6, QuietShape
       DEF OnceResearch, clock, engine, book, LifecycleTypeOK, DayShape
  <1> QED BY <1>1, <1>2, <1>3, <1>4, <1>5, <1>6

\* Rows are closed by a cycle or a flatten.
LEMMA ClosingShape ==
    ASSUME LifecycleShape, MarketFlatten \/ FlattenError \/ \E r \in memory : Manage(r)
    PROVE  LifecycleShape'
  <1> USE DEF LifecycleShape
  <1>1. CASE MarketFlatten
    <2>1. day \in 1..day
      BY Bounds DEF LifecycleTypeOK, Days
    <2> QED BY <1>1, <2>1, CloseShape
            DEF MarketFlatten, Starts, ToFlatten, clock, engine, DayShape
  <1>2. CASE FlattenError
    <2>1. CASE OrdersFill
      <3>1. PICK R \in SUBSET ToFlatten : Close(R)
        BY <1>2, <2>1 DEF FlattenError
      <3> QED BY <1>2, <3>1, CloseShape
              DEF FlattenError, Starts, ToFlatten, clock, engine, history, DayShape
    <2>2. CASE ~OrdersFill
      BY <1>2, <2>2, QuietShape
         DEF FlattenError, Starts, clock, engine, book, history, LifecycleTypeOK, DayShape
    <2> QED BY <2>1, <2>2
  <1>3. ASSUME NEW r \in memory, Manage(r)
        PROVE  LifecycleShape'
    BY <1>3, CloseShape DEF Manage, clock, engine, history, DayShape
  <1> QED BY <1>1, <1>2, <1>3

\* A report lists closed trades.
LEMMA ReportShape ==
    ASSUME LifecycleShape, MarketClose \/ OnceReport
    PROVE  LifecycleShape'
  <1> USE DEF LifecycleShape
  <1>1. /\ due' \subseteq due
        /\ report' \in {report, With(report, day, ClosedForDay(day))}
        /\ UNCHANGED <<day, now, up, tradeDate, gateSaw, screening, cycle, watchlist, rows, memory,
                       closed, flattened, badMornings>>
    BY DEF MarketClose, OnceReport, Starts, clock, engine, book
  <1>2. /\ DOMAIN report' \subseteq 1..day
        /\ \A d \in DOMAIN report' : report'[d] \subseteq closed
    <2>1. DOMAIN report \subseteq 1..day /\ \A d \in DOMAIN report : report[d] \subseteq closed
      BY DEF LifecycleTypeOK
    <2>2. CASE report' = report
      BY <2>1, <2>2
    <2>3. CASE report' = With(report, day, ClosedForDay(day))
      <3>1. day \in 1..day
        BY Bounds DEF LifecycleTypeOK, Days
      <3>2. ClosedForDay(day) \subseteq closed
        BY DEF ClosedForDay
      <3> QED BY <2>1, <2>3, <3>1, <3>2 DEF With
    <2> QED BY <1>1, <2>2, <2>3
  <1>3. LifecycleTypeOK'
    BY <1>1, <1>2 DEF LifecycleTypeOK
  <1>4. Numbered'
    BY <1>1 DEF Numbered, Opened
  <1>5. DayShape'
    BY <1>1 DEF DayShape
  <1>6. HoldsNewest'
    BY <1>1 DEF HoldsNewest
  <1> QED BY <1>3, <1>4, <1>5, <1>6

\* Every step keeps the shape.
LEMMA NextShape ==
    ASSUME LifecycleShape, [LifecycleNext]_lifecycleVars
    PROVE  LifecycleShape'
  <1>1. CASE UNCHANGED lifecycleVars
    BY <1>1, QuietShape
       DEF lifecycleVars, clock, engine, tables, book, history, LifecycleShape, LifecycleTypeOK,
           DayShape
  <1>2. CASE LifecycleNext
    <2>1. CASE Tick \/ Midnight
      BY <2>1, TickShape, MidnightShape
    <2>2. CASE Boot \/ Crash \/ PremarketResearch \/ PremarketError
      BY <2>2, ProcessShape
    <2>3. CASE MarketFlatten \/ FlattenError \/ \E r \in memory : Manage(r)
      BY <2>3, ClosingShape
    <2>4. CASE MarketClose \/ OnceReport
      BY <2>4, ReportShape
    <2>5. CASE \E s \in Symbols : OpenFromSignal(s)
      BY <2>5, OpenShape
    <2>6. CASE \/ \E j \in Jobs : Skip(j)
               \/ \E S \in SUBSET Symbols : WriteWatchlist(S) \/ OnceResearch(S)
               \/ ResearchAborted \/ BeginCycle \/ EndCycle
      <3>1. {} \in SUBSET Symbols /\ "report" \in Jobs
        BY DEF Jobs
      <3> QED BY <2>6, <3>1, ListShape
    <2> QED BY <1>2, <2>1, <2>2, <2>3, <2>4, <2>5, <2>6 DEF LifecycleNext
  <1> QED BY <1>1, <1>2

\* Every variable of the service has its type, a process that is down holds
\* nothing, rows are numbered in the order in which they were opened, and the
\* engine's dict holds the newest of a symbol (engine.py rehydrate).
THEOREM LifecycleShapeInvariant == LifecycleSpec => []LifecycleShape
  <1>1. LifecycleInit => LifecycleShape
    BY InitShape
  <1>2. LifecycleShape /\ [LifecycleNext]_lifecycleVars => LifecycleShape'
    BY NextShape
  <1> QED BY <1>1, <1>2, PTL DEF LifecycleSpec

-----------------------------------------------------------------------------
(* The premarket job makes the day.                                        *)

MorningInv == LifecycleShape /\ MorningComesFirst /\ DayIsStarted

\* The days, as numbers.
LEMMA DayNumbers ==
    ASSUME LifecycleShape
    PROVE  /\ day \in Nat /\ day # 0 /\ now \in Nat
           /\ \A r \in rows : r.day \in Nat /\ r.date \in Nat /\ r.id \in Nat /\ r.day <= day
           /\ \A c \in closed : c.on \in Nat /\ c.on <= day
           /\ memory \subseteq rows
  BY Bounds DEF LifecycleShape, LifecycleTypeOK, DayShape, Row, Days

\* Days researched by hand stay so.
LEMMA ResearchedStays ==
    ASSUME [LifecycleNext]_lifecycleVars
    PROVE  byHand \subseteq byHand'
  BY DEF LifecycleNext, lifecycleVars, Tick, Midnight, Skip, Boot, Crash, PremarketResearch,
         PremarketError, WriteWatchlist, ResearchAborted, BeginCycle, OpenFromSignal, Manage,
         EndCycle, MarketFlatten, FlattenError, MarketClose, OnceResearch, OnceReport, history

\* No step but a signal's adds a row.
LEMMA OnlySignalsOpen ==
    ASSUME [LifecycleNext]_lifecycleVars, \A s \in Symbols : ~OpenFromSignal(s)
    PROVE  rows' \subseteq rows
  BY DEF LifecycleNext, lifecycleVars, Tick, Midnight, Skip, Boot, Crash, PremarketResearch,
         PremarketError, WriteWatchlist, ResearchAborted, BeginCycle, Manage, Close,
         EndCycle, MarketFlatten, FlattenError, MarketClose, OnceResearch, OnceReport,
         tables, book

\* Rows keep their dates, and a second one of a symbol needs research by hand.
LEMMA DayIsStartedNext ==
    ASSUME MorningInv, [LifecycleNext]_lifecycleVars
    PROVE  DayIsStarted'
  <1>1. \A d : Researched(d) => Researched(d)'
    BY ResearchedStays DEF Researched
  <1>2. CASE \A s \in Symbols : ~OpenFromSignal(s)
    <2>1. rows' \subseteq rows
      BY <1>2, OnlySignalsOpen
    <2> QED BY <1>1, <2>1 DEF DayIsStarted, MorningInv
  <1>3. ASSUME NEW s \in Symbols, OpenFromSignal(s)
        PROVE  DayIsStarted'
    <2>1. PICK row \in Row :
             /\ row.symbol = s /\ row.date = tradeDate /\ row.day = day
             /\ rows' = rows \cup {row} /\ \A r \in rows : r.id < row.id
      BY <1>3, OpenShape DEF MorningInv
    <2>2. cycle.on /\ up /\ s \notin Held
      BY <1>3 DEF OpenFromSignal, MorningInv, LifecycleShape, LifecycleTypeOK
    <2>3. row.date = row.day \/ Researched(day)
      BY <2>1, <2>2 DEF MorningInv, MorningComesFirst, Underway
    <2>4. ASSUME NEW q \in rows, q.symbol = s
          PROVE  \E d \in q.day..day : Researched(d)
      <3>1. CASE Researched(day)
        BY <3>1, DayNumbers DEF MorningInv
      <3>2. CASE ~Researched(day)
        BY <2>2, <2>4, <3>2 DEF MorningInv, MorningComesFirst, Underway
      <3> QED BY <3>1, <3>2
    <2>5. \A r \in rows : r.id \in Nat
      BY DayNumbers DEF MorningInv
    <2>6. row.id \in Nat
      BY Bounds DEF Row
    <2>7. \A q \in rows' : q.symbol = row.symbol /\ q.id < row.id =>
              \E d \in q.day..row.day : Researched(d)'
      BY <1>1, <2>1, <2>4, <2>6
    <2>8. \A r \in rows : \A q \in rows' : q.symbol = r.symbol /\ q.id < r.id =>
              \E d \in q.day..r.day : Researched(d)'
      BY <1>1, <2>1, <2>5, <2>6 DEF MorningInv, DayIsStarted
    <2>9. \A r \in rows' : r.date = r.day \/ Researched(r.day)'
      BY <1>1, <2>1, <2>3 DEF MorningInv, DayIsStarted
    <2> QED BY <2>1, <2>7, <2>8, <2>9 DEF DayIsStarted
  <1> QED BY <1>2, <1>3

\* A step that opens nothing and starts nothing keeps the morning's order.
LEMMA QuietMorning ==
    ASSUME MorningInv, UNCHANGED <<day, rows, watchlist>>, byHand \subseteq byHand',
           now' >= now, now' \in Nat, "premarket" \in due' => "premarket" \in due \/ now < Premarket,
           screening' => screening, cycle' \in {cycle, Idle},
           ~up' \/ UNCHANGED <<up, tradeDate, memory>>
    PROVE  MorningComesFirst'
  <1> SUFFICES ASSUME ~Researched(day)
               PROVE  MorningComesFirst'
    BY DEF MorningComesFirst, Researched
  <1>1. now \in Nat /\ Premarket \in Nat
    BY DayNumbers, Bounds DEF MorningInv
  <1>2. ~Idle.on
    BY DEF Idle
  <1>3. Underway' => Underway
    BY <1>2 DEF Underway
  <1>4. /\ "premarket" \in due' \/ now' < Premarket => ~Underway'
        /\ screening' => watchlist' = {} /\ ~cycle'.on
        /\ \A r \in rows' : r.day = day' => r.symbol \in watchlist'
        /\ cycle'.on => cycle'.symbols = watchlist'
    BY <1>1, <1>2, <1>3 DEF MorningInv, MorningComesFirst
  <1>5. up' /\ Underway' =>
            /\ tradeDate' = day'
            /\ \A r \in rows' : r.symbol \in Held' \/ \E d \in r.day..day' : Researched(d)'
    <2> SUFFICES ASSUME up', Underway'
                 PROVE  /\ tradeDate = day
                        /\ \A r \in rows : r.symbol \in Held' \/ \E d \in r.day..day : Researched(d)'
      OBVIOUS
    <2>1. Held' = Held
      BY DEF Held
    <2>2. \A d : Researched(d) => Researched(d)'
      BY DEF Researched
    <2> QED BY <1>3, <2>1, <2>2 DEF MorningInv, MorningComesFirst
  <1> QED BY <1>4, <1>5 DEF MorningComesFirst

\* Closing rows of the book leaves older ones of a symbol only where research by
\* hand had let a second one be opened.
LEMMA CloseMorning ==
    ASSUME MorningInv, NEW R, R \subseteq memory, Close(R), due' \subseteq due,
           UNCHANGED <<day, now, up, tradeDate, screening, cycle, watchlist, byHand>>
    PROVE  MorningComesFirst'
  <1> SUFFICES ASSUME ~Researched(day)
               PROVE  MorningComesFirst'
    BY DEF MorningComesFirst, Researched
  <1>1. rows' = rows \ R /\ memory' = memory \ R
    BY DEF Close
  <1>2. Underway' = Underway
    BY DEF Underway
  <1>3. ASSUME NEW r \in rows', up, Underway
        PROVE  r.symbol \in Held' \/ \E d \in r.day..day : Researched(d)
    <2>1. CASE \E d \in r.day..day : Researched(d)
      BY <2>1
    <2>2. CASE r.symbol \in Held
      <3>1. PICK q \in memory : q.symbol = r.symbol
        BY <2>2 DEF Held
      <3>2. CASE q \notin R
        BY <1>1, <3>1, <3>2 DEF Held
      <3>3. CASE q \in R
        <4>1. q \in rows /\ r \in rows /\ r # q
          BY <1>1, <3>3, DayNumbers DEF MorningInv
        <4>2. r.id <= q.id /\ r.id # q.id
          BY <3>1, <4>1 DEF MorningInv, LifecycleShape, HoldsNewest, Numbered
        <4>3. r.id < q.id
          BY <4>1, <4>2, DayNumbers DEF MorningInv
        <4>4. PICK d \in r.day..q.day : Researched(d)
          BY <3>1, <4>1, <4>3 DEF MorningInv, DayIsStarted
        <4>5. d \in r.day..day
          BY <4>1, DayNumbers DEF MorningInv
        <4> QED BY <4>4, <4>5
      <3> QED BY <3>2, <3>3
    <2> QED BY <1>1, <1>3, <2>1, <2>2 DEF MorningInv, MorningComesFirst
  <1>4. \A d : Researched(d)' = Researched(d)
    BY DEF Researched
  <1> QED BY <1>1, <1>2, <1>3, <1>4 DEF MorningInv, MorningComesFirst

\* Every step keeps the morning's order.
LEMMA MorningNext ==
    ASSUME MorningInv, [LifecycleNext]_lifecycleVars
    PROVE  MorningComesFirst'
  <1>1. LifecycleShape /\ LifecycleTypeOK /\ DayShape /\ MorningComesFirst
    BY DEF MorningInv, LifecycleShape
  <1>2. /\ day \in Nat /\ now \in Nat /\ Premarket \in Nat /\ now >= now
        /\ \A r \in rows : r.day \in Nat /\ r.day <= day
    BY DayNumbers, Bounds DEF MorningInv
  <1>3. \A d : Researched(d) => Researched(d)'
    BY ResearchedStays DEF Researched
  <1>4. CASE Tick
    <2>1. now' \in Nat /\ now < now'
      BY <1>1, <1>4, Bounds, NextInstant DEF Tick, LifecycleTypeOK
    <2>2. "premarket" \in Triggered(day, now, now') => now < Premarket
      BY DEF Triggered, At
    <2> QED BY <1>2, <1>4, <2>1, <2>2, QuietMorning DEF Tick, engine, tables, book, history
  <1>5. CASE Midnight
    <2>1. /\ day' = day + 1 /\ watchlist' = {} /\ ~screening' /\ ~cycle'.on /\ rows' = rows
      BY <1>5 DEF Midnight, book
    <2> QED BY <1>2, <2>1 DEF MorningComesFirst, Underway
  <1>6. CASE Boot
    <2>1. /\ tradeDate' = day /\ memory' = Rehydrated /\ ~screening /\ ~cycle.on
          /\ UNCHANGED <<day, now, due, screening, cycle, watchlist, rows, byHand>>
      BY <1>1, <1>6 DEF Boot, clock, LifecycleTypeOK
    <2>2. \A r \in rows : r.symbol \in Held'
      BY <1>1, <2>1, RehydratedHolds DEF LifecycleShape, Held
    <2> QED BY <1>1, <2>1, <2>2 DEF MorningComesFirst, Underway, Researched
  <1>7. CASE PremarketResearch
    <2>1. /\ "premarket" \in due /\ "premarket" \notin due' /\ Premarket <= now
          /\ tradeDate' = day /\ memory' = Rehydrated /\ screening'
          /\ UNCHANGED <<day, now, cycle, watchlist, rows, byHand>>
      BY <1>1, <1>7 DEF PremarketResearch, Starts, BeginDay, clock, history, DayShape
    <2>2. \A r \in rows : r.symbol \in Held'
      BY <1>1, <2>1, RehydratedHolds DEF LifecycleShape, Held
    <2>3. ~(now < Premarket)
      BY <1>2, <2>1
    <2> QED BY <1>1, <2>1, <2>2, <2>3 DEF MorningComesFirst, Underway, Researched
  <1>8. CASE PremarketError
    <2>1. /\ "premarket" \in due /\ "premarket" \notin due' /\ Premarket <= now
          /\ UNCHANGED <<day, now, screening, cycle, watchlist, rows, byHand>>
      BY <1>1, <1>8 DEF PremarketError, Starts, clock, DayShape
    <2>2. ~(now < Premarket)
      BY <1>2, <2>1
    <2> QED BY <1>1, <2>1, <2>2 DEF MorningComesFirst, Underway, Researched
  <1>9. ASSUME NEW S \in SUBSET Symbols, WriteWatchlist(S)
        PROVE  MorningComesFirst'
    <2>1. /\ screening /\ ~screening'
          /\ UNCHANGED <<day, now, up, due, tradeDate, cycle, rows, memory, byHand>>
      BY <1>9 DEF WriteWatchlist, clock, engine, book, history
    <2>2. ~Researched(day) => \A r \in rows : r.day # day
      BY <1>1, <2>1 DEF MorningComesFirst
    <2> QED BY <1>1, <2>1, <2>2 DEF MorningComesFirst, Underway, Researched, Held
  <1>10. CASE BeginCycle
    <2>1. /\ watchlist # {} /\ cycle'.symbols = watchlist
          /\ UNCHANGED <<day, now, up, due, tradeDate, screening, watchlist, rows, memory, byHand>>
      BY <1>10 DEF BeginCycle, Priced, clock, engine, tables, book, history
    <2> QED BY <1>1, <2>1 DEF MorningComesFirst, Underway, Researched, Held
  <1>11. ASSUME NEW s \in Symbols, OpenFromSignal(s)
         PROVE  MorningComesFirst'
    <2>1. PICK row \in Row :
             /\ row.symbol = s /\ row.day = day
             /\ rows' = rows \cup {row} /\ memory' = memory \cup {row}
      BY <1>1, <1>11, OpenShape
    <2>2. /\ cycle.on /\ s \in cycle.symbols
          /\ UNCHANGED <<day, now, up, due, tradeDate, screening, cycle, watchlist, byHand>>
      BY <1>11 DEF OpenFromSignal, clock, engine, history
    <2>3. Held' = Held \cup {s}
      BY <2>1 DEF Held
    <2> QED BY <1>1, <2>1, <2>2, <2>3 DEF MorningComesFirst, Underway, Researched
  <1>12. ASSUME NEW r \in memory, Manage(r)
         PROVE  MorningComesFirst'
    BY <1>12, CloseMorning DEF Manage, clock, engine, history
  <1>13. CASE MarketFlatten
    BY <1>13, CloseMorning DEF MarketFlatten, Starts, ToFlatten, clock, engine
  <1>14. CASE FlattenError
    <2>1. /\ due' \subseteq due
          /\ UNCHANGED <<day, now, up, tradeDate, screening, cycle, watchlist, byHand>>
      BY <1>14 DEF FlattenError, Starts, clock, engine, history
    <2>2. CASE OrdersFill
      <3>1. PICK R \in SUBSET ToFlatten : Close(R)
        BY <1>14, <2>2 DEF FlattenError
      <3> QED BY <2>1, <3>1, CloseMorning DEF ToFlatten
    <2>3. CASE ~OrdersFill
      <3>1. UNCHANGED <<rows, memory>>
        BY <1>14, <2>3 DEF FlattenError, book
      <3> QED BY <1>2, <2>1, <3>1, QuietMorning
    <2> QED BY <2>2, <2>3
  <1>15. CASE MarketClose
    BY <1>2, <1>15, QuietMorning DEF MarketClose, Starts, clock, engine, book
  <1>16. ASSUME NEW S \in SUBSET Symbols, OnceResearch(S)
         PROVE  MorningComesFirst'
    <2>1. Researched(day)' /\ day' = day
      BY <1>16 DEF OnceResearch, Researched, clock
    <2> QED BY <2>1 DEF MorningComesFirst, Researched
  <1>17. CASE OnceReport
    BY <1>2, <1>17, QuietMorning DEF OnceReport, clock, engine, book
  <1>18. ASSUME \/ UNCHANGED lifecycleVars \/ Crash
                \/ ResearchAborted \/ EndCycle \/ \E j \in Jobs : Skip(j)
         PROVE  MorningComesFirst'
    BY <1>2, <1>18, QuietMorning
       DEF lifecycleVars, Crash, ResearchAborted, EndCycle, Skip, clock, engine, tables, book, history
  <1> QED BY <1>4, <1>5, <1>6, <1>7, <1>8, <1>9, <1>10, <1>11, <1>12, <1>13, <1>14, <1>15,
             <1>16, <1>17, <1>18 DEF LifecycleNext

\* What the day's job starts stays in order: the invariant behind the two
\* theorems that follow.
LEMMA MorningInvariant == LifecycleSpec => []MorningInv
  <1>1. LifecycleInit => MorningInv
    <2>1. LifecycleInit => DayIsStarted
      BY DEF LifecycleInit, DayIsStarted
    <2>2. LifecycleInit => MorningComesFirst
      BY DEF LifecycleInit, Idle, MorningComesFirst, Underway
    <2> QED BY <2>1, <2>2, InitShape DEF MorningInv
  <1>2. MorningInv /\ [LifecycleNext]_lifecycleVars => MorningInv'
    BY NextShape, DayIsStartedNext, MorningNext DEF MorningInv
  <1> QED BY <1>1, <1>2, PTL DEF LifecycleSpec

\* Positions are booked under the day they are opened on, and none is opened in
\* a symbol that has an open row, unless research is run by hand on the way
\* (app.py premarket_research, engine.py start_day).
THEOREM DayStarts == LifecycleSpec => []DayIsStarted
  <1>1. MorningInv => DayIsStarted
    BY DEF MorningInv
  <1> QED BY <1>1, MorningInvariant, PTL

\* A running cycle prices every open position of its day, unless research by
\* hand has rewritten the list (app.py trading_cycle).
THEOREM CyclesWatch == LifecycleSpec => []UnwatchedForCause
  <1>1. MorningInv => UnwatchedForCause
    <2> SUFFICES ASSUME MorningInv, cycle.on, NEW r \in rows, ~(r.day < day), ~Researched(day)
                 PROVE  r.symbol \in cycle.symbols
      BY DEF UnwatchedForCause
    <2>1. r.day = day
      BY DayNumbers DEF MorningInv
    <2> QED BY <2>1 DEF MorningInv, MorningComesFirst
  <1> QED BY <1>1, MorningInvariant, PTL

-----------------------------------------------------------------------------
(* When the morning's job cannot run into the session.                     *)

EarlyInv == MorningInv /\ NothingBeforeMorning /\ ForgottenForCause

\* The morning's job starts when nothing has been opened or closed.
LEMMA MorningIsQuiet ==
    ASSUME MorningInv, NothingBeforeMorning, Starts("premarket")
    PROVE  /\ ~cycle.on
           /\ \A r \in rows : r.day < day
           /\ \A c \in closed : c.on < day
  <1>1. now <= Premarket + Grace("premarket")
    BY DEF Starts, At
  <1>2. now \in Nat /\ Premarket + Grace("premarket") \in Nat
    BY DayNumbers, Bounds DEF MorningInv, Grace
  <1>3. ~(now > Premarket + Grace("premarket"))
    BY <1>1, <1>2
  <1> QED BY <1>3, DayNumbers DEF MorningInv, NothingBeforeMorning

\* No step takes time back or closes a trade under another day.
LEMMA TimePasses ==
    ASSUME MorningInv, [LifecycleNext]_lifecycleVars, ~Midnight
    PROVE  day' = day /\ now' \in Nat /\ now <= now'
  <1>1. now \in Nat
    BY DayNumbers DEF MorningInv
  <1>2. CASE Tick
    <2>1. now' \in Nat /\ now < now'
      BY <1>2, Bounds, NextInstant DEF Tick, MorningInv, LifecycleShape, LifecycleTypeOK
    <2> QED BY <1>1, <1>2, <2>1 DEF Tick
  <1>3. CASE ~Tick
    <2>1. UNCHANGED <<day, now>>
      BY <1>3
         DEF LifecycleNext, lifecycleVars, Skip, Boot, Crash, PremarketResearch,
             PremarketError, WriteWatchlist, ResearchAborted, BeginCycle, OpenFromSignal,
             Manage, EndCycle, MarketFlatten, FlattenError, MarketClose, OnceResearch,
             OnceReport, clock
    <2> QED BY <1>1, <2>1
  <1> QED BY <1>2, <1>3

\* A flatten and a cycle are the only steps that close, and they come late.
LEMMA ClosersAreLate ==
    ASSUME MorningIsEarly, MorningInv, NothingBeforeMorning, [LifecycleNext]_lifecycleVars,
           ~(closed' \subseteq closed)
    PROVE  /\ now > Premarket + Grace("premarket")
           /\ \A c \in closed' \ closed : c.on = day /\ c.trade \in memory
  <1>1. now \in Nat /\ Premarket + Grace("premarket") \in Nat /\ FlattenTime \in Nat
    BY DayNumbers, Bounds DEF MorningInv, Grace
  <1>2. \/ MarketFlatten \/ FlattenError \/ \E r \in memory : Manage(r)
    BY DEF LifecycleNext, lifecycleVars, Tick, Midnight, Skip, Boot, Crash, PremarketResearch,
           PremarketError, WriteWatchlist, ResearchAborted, BeginCycle, OpenFromSignal,
           EndCycle, MarketClose, OnceResearch, OnceReport, tables, book
  <1>3. cycle.on \/ "flatten" \in due
    BY <1>2 DEF MarketFlatten, FlattenError, Manage, Starts
  <1>4. \E R \in SUBSET memory : Close(R)
    BY <1>2 DEF MarketFlatten, FlattenError, Manage, ToFlatten, book
  <1> QED BY <1>1, <1>3, <1>4 DEF NothingBeforeMorning, MorningIsEarly, Close

\* Nothing is opened or closed before the market is.
LEMMA NothingBeforeMorningNext ==
    ASSUME MorningIsEarly, MorningInv, NothingBeforeMorning, [LifecycleNext]_lifecycleVars
    PROVE  NothingBeforeMorning'
  <1> DEFINE late == Premarket + Grace("premarket")
  <1>1. day \in Nat /\ now \in Nat /\ late \in Nat /\ FlattenTime \in Nat
    BY DayNumbers, Bounds DEF MorningInv, Grace
  <1>2. CASE Midnight
    <2>1. /\ day' = day + 1 /\ due' = {} /\ ~cycle'.on /\ rows' = rows /\ closed' = closed
      BY <1>2 DEF Midnight, book
    <2>2. (\A r \in rows : r.day # day + 1) /\ (\A c \in closed : c.on # day + 1)
      BY <1>1, DayNumbers DEF MorningInv
    <2> QED BY <2>1, <2>2 DEF NothingBeforeMorning
  <1>3. CASE ~Midnight
    <2>1. day' = day /\ now' \in Nat /\ now <= now'
      BY <1>3, TimePasses
    <2>2. now > late => now' > late
      BY <1>1, <2>1
    <2>3. cycle'.on => now' > late
      <3>1. CASE BeginCycle
        <4>1. Sessions[day].open \in Nat /\ late < Sessions[day].open /\ Sessions[day].open <= now
          <5>1. day \in DOMAIN Sessions /\ Sessions[day].open <= now
            BY <3>1 DEF BeginCycle, IsMarketOpen, IsTradingDay
          <5>2. Sessions[day].open \in 0..1439
            BY <5>1, LifecycleAssumption DEF LifecycleAssumption
          <5> QED BY <5>1, <5>2 DEF MorningIsEarly
        <4> QED BY <1>1, <2>2, <4>1
      <3>2. CASE ~BeginCycle
        <4>1. cycle' \in {cycle, Idle}
          BY <3>2
             DEF LifecycleNext, lifecycleVars, Tick, Midnight, Skip, Boot, Crash,
                 PremarketResearch, PremarketError, WriteWatchlist, ResearchAborted,
                 OpenFromSignal, Manage, EndCycle, MarketFlatten, FlattenError, MarketClose,
                 OnceResearch, OnceReport
        <4> QED BY <2>2, <4>1 DEF NothingBeforeMorning, Idle
      <3> QED BY <3>1, <3>2
    <2>4. "flatten" \in due' => now' >= FlattenTime
      <3>1. CASE Tick
        <4>1. "flatten" \in Triggered(day, now, now') => FlattenTime <= now'
          BY DEF Triggered, At
        <4> QED BY <1>1, <2>1, <3>1, <4>1 DEF Tick, NothingBeforeMorning
      <3>2. CASE ~Tick
        <4>1. due' \subseteq due
          BY <1>3, <3>2
             DEF LifecycleNext, lifecycleVars, Skip, Boot, Crash, Starts,
                 PremarketResearch, PremarketError, WriteWatchlist, ResearchAborted, BeginCycle,
                 OpenFromSignal, Manage, EndCycle, MarketFlatten, FlattenError, MarketClose,
                 OnceResearch, OnceReport
        <4> QED BY <1>1, <2>1, <4>1 DEF NothingBeforeMorning
      <3> QED BY <3>1, <3>2
    <2>5. \A r \in rows' : r.day = day => now' > late
      <3>1. CASE \A s \in Symbols : ~OpenFromSignal(s)
        BY <2>2, <3>1, OnlySignalsOpen DEF NothingBeforeMorning
      <3>2. CASE \E s \in Symbols : OpenFromSignal(s)
        BY <2>2, <3>2 DEF OpenFromSignal, NothingBeforeMorning
      <3> QED BY <3>1, <3>2
    <2>6. \A c \in closed' : c.on = day => now' > late
      BY <2>2, ClosersAreLate DEF NothingBeforeMorning
    <2> QED BY <2>1, <2>3, <2>4, <2>5, <2>6 DEF NothingBeforeMorning
  <1> QED BY <1>2, <1>3

\* A morning that has failed has failed.
LEMMA BadMorningStays ==
    ASSUME MorningInv, [LifecycleNext]_lifecycleVars, NEW r, BadMorningBy(r)
    PROVE  BadMorningBy(r)'
  <1>1. badMornings \subseteq badMornings'
    BY DEF LifecycleNext, lifecycleVars, Tick, Midnight, Skip, Boot, Crash, PremarketResearch,
           PremarketError, WriteWatchlist, ResearchAborted, BeginCycle, OpenFromSignal, Manage,
           EndCycle, MarketFlatten, FlattenError, MarketClose, OnceResearch, OnceReport, history
  <1>2. PICK e \in badMornings : r.day < e /\ e <= day
    BY DEF BadMorningBy
  <1>3. day \in Nat /\ e \in Nat
    BY DayNumbers DEF MorningInv, LifecycleShape, DayShape
  <1>4. day' \in {day, day + 1}
    BY TimePasses DEF Midnight
  <1>5. e <= day'
    BY <1>2, <1>3, <1>4
  <1> QED BY <1>1, <1>2, <1>5 DEF BadMorningBy

\* Only a failed morning makes the engine forget a row.
LEMMA ForgottenForCauseNext ==
    ASSUME EarlyInv, [LifecycleNext]_lifecycleVars
    PROVE  ForgottenForCause'
  <1>1. MorningInv /\ LifecycleShape /\ NothingBeforeMorning /\ ForgottenForCause
    BY DEF EarlyInv, MorningInv
  <1>2. \A r : BadMorningBy(r) => BadMorningBy(r)'
    BY <1>1, BadMorningStays
  <1>3. \A r \in rows : r.id \in Nat
    BY <1>1, DayNumbers
  <1>4. CASE \E s \in Symbols : OpenFromSignal(s)
    <2>1. PICK s \in Symbols : OpenFromSignal(s)
      BY <1>4
    <2>2. PICK row \in Row :
             /\ row.symbol = s /\ rows' = rows \cup {row} /\ memory' = memory \cup {row}
             /\ \A r \in rows : r.id < row.id
      BY <1>1, <2>1, OpenShape
    <2>3. up /\ s \notin Held
      BY <1>1, <2>1 DEF OpenFromSignal, LifecycleShape, LifecycleTypeOK
    <2>4. \A r \in rows' \ memory' : BadMorningBy(r)'
      BY <1>1, <1>2, <2>2, <2>3 DEF ForgottenForCause
    <2>5. \A r \in rows : r.symbol = s => BadMorningBy(r)'
      BY <1>1, <1>2, <2>3 DEF ForgottenForCause, Held
    <2>6. row.id \in Nat
      BY Bounds DEF Row
    <2>7. \A r, q \in rows' : r.symbol = q.symbol /\ r.id < q.id => BadMorningBy(r)'
      BY <1>1, <1>2, <1>3, <2>2, <2>5, <2>6 DEF ForgottenForCause
    <2> QED BY <2>4, <2>7 DEF ForgottenForCause
  <1>5. CASE \A s \in Symbols : ~OpenFromSignal(s)
    <2>1. rows' \subseteq rows
      BY <1>5, OnlySignalsOpen
    <2>2. \A r, q \in rows' : r.symbol = q.symbol /\ r.id < q.id => BadMorningBy(r)'
      BY <1>1, <1>2, <2>1 DEF ForgottenForCause
    <2>3. up' => \A r \in rows' \ memory' : BadMorningBy(r)'
      <3>1. CASE Boot \/ PremarketResearch
        <4>1. memory' = Rehydrated
          BY <3>1 DEF Boot, PremarketResearch
        <4>2. \A r \in rows \ Rehydrated : \E q \in rows : q.symbol = r.symbol /\ r.id < q.id
          BY <1>3 DEF Rehydrated
        <4> QED BY <1>1, <1>2, <2>1, <4>1, <4>2 DEF ForgottenForCause
      <3>2. CASE PremarketError
        <4>1. Starts("premarket") /\ badMornings' = badMornings \cup {day} /\ day' = day
          BY <3>2 DEF PremarketError, clock
        <4>2. \A r \in rows : r.day < day
          BY <1>1, <4>1, MorningIsQuiet
        <4>3. day <= day
          BY <1>1, DayNumbers
        <4> QED BY <2>1, <4>1, <4>2, <4>3 DEF BadMorningBy
      <3>3. CASE ~(Boot \/ PremarketResearch \/ PremarketError)
        <4>1. up' => up /\ rows' \ memory' \subseteq rows \ memory
          BY <1>5, <3>3
             DEF LifecycleNext, lifecycleVars, Tick, Midnight, Skip, Crash, WriteWatchlist,
                 ResearchAborted, BeginCycle, Manage, Close, EndCycle, MarketFlatten,
                 FlattenError, MarketClose, OnceResearch, OnceReport, tables, book
        <4> QED BY <1>1, <1>2, <4>1 DEF ForgottenForCause
      <3> QED BY <3>1, <3>2, <3>3
    <2> QED BY <2>2, <2>3 DEF ForgottenForCause
  <1> QED BY <1>4, <1>5

\* The invariant behind the theorems that follow.
LEMMA EarlyInvariant ==
    ASSUME MorningIsEarly
    PROVE  LifecycleSpec => []EarlyInv
  <1>1. LifecycleInit => NothingBeforeMorning /\ ForgottenForCause
    BY DEF LifecycleInit, Idle, NothingBeforeMorning, ForgottenForCause
  <1>2. EarlyInv /\ [LifecycleNext]_lifecycleVars => NothingBeforeMorning' /\ ForgottenForCause'
    BY NothingBeforeMorningNext, ForgottenForCauseNext DEF EarlyInv
  <1> QED BY <1>1, <1>2, MorningInvariant, PTL DEF LifecycleSpec, EarlyInv

\* A row outlives a flatten that came to its end only for the causes named
\* (app.py market_flatten, engine.py flatten_all).
THEOREM CarriedForCauseAlways ==
    ASSUME MorningIsEarly
    PROVE  LifecycleSpec => []CarriedForCause
  <1>1. LifecycleInit => CarriedForCause
    BY DEF LifecycleInit, CarriedForCause
  <1>2. ASSUME EarlyInv, CarriedForCause, [LifecycleNext]_lifecycleVars
        PROVE  CarriedForCause'
    <2>1. MorningInv /\ LifecycleShape /\ DayShape /\ ForgottenForCause
      BY <1>2 DEF EarlyInv, MorningInv, LifecycleShape
    <2>2. badMornings \subseteq badMornings'
      BY <1>2
         DEF LifecycleNext, lifecycleVars, Tick, Midnight, Skip, Boot, Crash, PremarketResearch,
             PremarketError, WriteWatchlist, ResearchAborted, BeginCycle, OpenFromSignal, Manage,
             EndCycle, MarketFlatten, FlattenError, MarketClose, OnceResearch, OnceReport, history
    <2>3. CASE \E s \in Symbols : OpenFromSignal(s)
      <3>1. PICK row \in Row :
               /\ row.day = day /\ row.afterFlatten = (day \in flattened)
               /\ rows' = rows \cup {row}
        BY <2>1, <2>3, OpenShape
      <3>2. flattened' = flattened
        BY <2>3 DEF OpenFromSignal, history
      <3>3. \A d \in flattened : d \in Nat /\ d <= day
        BY <2>1, DayNumbers DEF DayShape
      <3>4. \A d \in flattened : row.day <= d => row.day = d /\ row.afterFlatten
        <4>1. day \in Nat
          BY <2>1, DayNumbers
        <4>2. \A d \in flattened : day <= d => day = d
          BY <3>3, <4>1
        <4> QED BY <3>1, <4>2
      <3> QED BY <1>2, <2>2, <3>1, <3>2, <3>4 DEF CarriedForCause
    <2>4. CASE MarketFlatten
      <3>1. up /\ rows' = rows \ memory /\ flattened' = flattened \cup {day}
        BY <2>4 DEF MarketFlatten, Starts, ToFlatten, Close
      <3>2. \A r \in rows' : \E e \in badMornings : r.day < e /\ e <= day
        BY <2>1, <3>1 DEF ForgottenForCause, BadMorningBy
      <3> QED BY <1>2, <2>2, <3>1, <3>2 DEF CarriedForCause
    <2>5. CASE ~MarketFlatten /\ \A s \in Symbols : ~OpenFromSignal(s)
      <3>1. flattened' = flattened
        BY <1>2, <2>5
           DEF LifecycleNext, lifecycleVars, Tick, Midnight, Skip, Boot, Crash,
               PremarketResearch, PremarketError, WriteWatchlist, ResearchAborted, BeginCycle,
               Manage, EndCycle, FlattenError, MarketClose, OnceResearch, OnceReport, history
      <3> QED BY <1>2, <2>2, <2>5, <3>1, OnlySignalsOpen DEF CarriedForCause
    <2> QED BY <2>3, <2>4, <2>5
  <1> QED BY <1>1, <1>2, EarlyInvariant, PTL DEF LifecycleSpec

\* The gate looks at a trade of its own day only after a restart on that day
\* (engine.py start_day, pf_gate.py).
THEOREM GatePeeksForCauseAlways ==
    ASSUME MorningIsEarly
    PROVE  LifecycleSpec => []GatePeeksForCause
  <1>1. LifecycleInit => GatePeeksForCause
    BY DEF LifecycleInit, GatePeeksForCause
  <1>2. ASSUME EarlyInv, GatePeeksForCause, [LifecycleNext]_lifecycleVars
        PROVE  GatePeeksForCause'
    <2>1. MorningInv /\ NothingBeforeMorning /\ LifecycleTypeOK /\ DayShape
      BY <1>2 DEF EarlyInv, MorningInv, LifecycleShape
    <2>2. day \in Nat /\ day # 0
      BY <2>1, DayNumbers DEF MorningInv
    <2>3. CASE Midnight
      <3>1. day' = day + 1 /\ gateSaw' = gateSaw /\ gateSaw \in 0..day
        BY <2>1, <2>3 DEF Midnight, engine, LifecycleTypeOK
      <3>2. gateSaw' # day'
        BY <2>2, <3>1
      <3> QED BY <3>2 DEF GatePeeksForCause
    <2>4. CASE Boot
      BY <2>4 DEF Boot, clock, GatePeeksForCause
    <2>5. CASE Crash
      <3>1. day' = day /\ gateSaw' = 0
        BY <2>5 DEF Crash, clock
      <3> QED BY <2>2, <3>1 DEF GatePeeksForCause
    <2>6. CASE PremarketResearch
      <3>1. Starts("premarket") /\ day' = day /\ gateSaw' = LastClosed
        BY <2>6 DEF PremarketResearch, clock
      <3>2. \A c \in closed : c.on < day /\ c.on \in Nat
        BY <2>1, <3>1, MorningIsQuiet, DayNumbers DEF MorningInv
      <3>3. LastClosed # day
        BY <2>1, <2>2, <3>2, LastClosedDay
      <3> QED BY <3>1, <3>3 DEF GatePeeksForCause
    <2>7. CASE ~(Midnight \/ Boot \/ Crash \/ PremarketResearch)
      <3>1. UNCHANGED <<day, gateSaw, booted>>
        BY <1>2, <2>7
           DEF LifecycleNext, lifecycleVars, Tick, Skip, PremarketError, WriteWatchlist,
               ResearchAborted, BeginCycle, OpenFromSignal, Manage, EndCycle, MarketFlatten,
               FlattenError, MarketClose, OnceResearch, OnceReport, clock, engine, history
      <3> QED BY <1>2, <3>1 DEF GatePeeksForCause
    <2> QED BY <2>3, <2>4, <2>5, <2>6, <2>7
  <1> QED BY <1>1, <1>2, EarlyInvariant, PTL DEF LifecycleSpec

\* What a report has, and what is known of, stays.
LEMMA RecordsStay ==
    ASSUME [LifecycleNext]_lifecycleVars
    PROVE  warned \subseteq warned' /\ byHand \subseteq byHand' /\ closed \subseteq closed'
  <1>1. warned \subseteq warned' /\ closed \subseteq closed'
    BY DEF LifecycleNext, lifecycleVars, Tick, Midnight, Skip, Boot, Crash, PremarketResearch,
           PremarketError, WriteWatchlist, ResearchAborted, BeginCycle, OpenFromSignal, Manage,
           Close, EndCycle, MarketFlatten, FlattenError, MarketClose, Warn, OnceResearch,
           OnceReport, tables, book, history
  <1> QED BY <1>1, ResearchedStays

\* A report is written by its job or by hand, and lists what is closed by then.
LEMMA ReportsAreWritten ==
    ASSUME [LifecycleNext]_lifecycleVars, report' # report
    PROVE  /\ report' = With(report, day, ClosedForDay(day))
           /\ rows' = rows /\ closed' = closed
           /\ \/ up /\ (memory = {} \/ day \in warned')
              \/ <<"report", day>> \in byHand'
  <1>1. MarketClose \/ OnceReport
    BY DEF LifecycleNext, lifecycleVars, Tick, Midnight, Skip, Boot, Crash, PremarketResearch,
           PremarketError, WriteWatchlist, ResearchAborted, BeginCycle, OpenFromSignal, Manage,
           EndCycle, MarketFlatten, FlattenError, OnceResearch, tables
  <1>2. CASE MarketClose
    BY <1>2 DEF MarketClose, Starts, Warn, book
  <1>3. CASE OnceReport
    BY <1>3 DEF OnceReport, book
  <1> QED BY <1>1, <1>2, <1>3

\* An open row whose date has been reported is known of, or was opened later.
LEMMA UnreportedForCauseNext ==
    ASSUME EarlyInv, UnreportedForCause, [LifecycleNext]_lifecycleVars
    PROVE  UnreportedForCause'
  <1>1. MorningInv /\ LifecycleShape /\ ForgottenForCause /\ DayIsStarted
    BY DEF EarlyInv, MorningInv
  <1>2. warned \subseteq warned' /\ \A d : Researched(d) => Researched(d)'
    BY RecordsStay DEF Researched
  <1>3. byHand \subseteq byHand'
    BY RecordsStay
  <1>4. CASE report' # report
    <2>1. /\ DOMAIN report' = DOMAIN report \cup {day} /\ rows' = rows
          /\ \/ up /\ (memory = {} \/ day \in warned')
             \/ <<"report", day>> \in byHand'
      BY <1>4, ReportsAreWritten DEF With
    <2>2. ASSUME NEW r \in rows, r.date = day, memory = {}, up
          PROVE  Researched(r.day)
      <3>1. BadMorningBy(r)
        BY <1>1, <2>2 DEF ForgottenForCause
      <3>2. PICK e \in badMornings : r.day < e /\ e <= day
        BY <3>1 DEF BadMorningBy
      <3>3. e \in Nat /\ r.day \in Nat /\ day \in Nat
        BY <1>1, DayNumbers DEF LifecycleShape, DayShape
      <3>4. r.date # r.day
        BY <2>2, <3>2, <3>3
      <3> QED BY <1>1, <3>4 DEF DayIsStarted
    <2> QED BY <1>2, <1>3, <2>1, <2>2 DEF UnreportedForCause
  <1>5. CASE report' = report /\ \A s \in Symbols : ~OpenFromSignal(s)
    BY <1>2, <1>3, <1>5, OnlySignalsOpen DEF UnreportedForCause
  <1>6. CASE report' = report /\ \E s \in Symbols : OpenFromSignal(s)
    <2>1. PICK row \in Row :
             /\ row.date = tradeDate /\ row.afterReport = (tradeDate \in DOMAIN report)
             /\ rows' = rows \cup {row}
      BY <1>1, <1>6, OpenShape
    <2> QED BY <1>2, <1>3, <1>6, <2>1 DEF UnreportedForCause
  <1> QED BY <1>4, <1>5, <1>6

\* A trade missing from the report of its date is known of (app.py market_close,
\* report_engine.py).
THEOREM IncompleteIsWarnedAlways ==
    ASSUME MorningIsEarly
    PROVE  LifecycleSpec => []IncompleteIsWarned
  <1>1. LifecycleInit => IncompleteIsWarned /\ UnreportedForCause
    BY DEF LifecycleInit, IncompleteIsWarned, UnreportedForCause
  <1>2. ASSUME EarlyInv, UnreportedForCause, IncompleteIsWarned, [LifecycleNext]_lifecycleVars
        PROVE  IncompleteIsWarned'
    <2>1. warned \subseteq warned' /\ \A d : Researched(d) => Researched(d)'
      BY <1>2, RecordsStay DEF Researched
    <2>2. byHand \subseteq byHand' /\ closed \subseteq closed'
      BY <1>2, RecordsStay
    <2>3. CASE report' # report
      <3>1. /\ report' = With(report, day, ClosedForDay(day)) /\ closed' = closed
        BY <1>2, <2>3, ReportsAreWritten
      <3>2. \A d \in DOMAIN report' \ {day} : d \in DOMAIN report /\ report'[d] = report[d]
        BY <3>1 DEF With
      <3>3. day \in DOMAIN report' /\ report'[day] = ClosedForDay(day)
        BY <3>1 DEF With
      <3>4. \A c \in closed : c.trade.date = day => c \in report'[day]
        BY <3>3 DEF ClosedForDay
      <3> QED BY <1>2, <2>1, <2>2, <3>1, <3>2, <3>4 DEF IncompleteIsWarned
    <2>4. CASE report' = report
      <3>1. \A c \in closed' \ closed : c.trade \in rows
        <4>1. CASE closed' \subseteq closed
          BY <4>1
        <4>2. CASE ~(closed' \subseteq closed)
          <5>1. MarketFlatten \/ FlattenError \/ \E r \in memory : Manage(r)
            BY <1>2, <4>2
               DEF LifecycleNext, lifecycleVars, Tick, Midnight, Skip, Boot, Crash,
                   PremarketResearch, PremarketError, WriteWatchlist, ResearchAborted, BeginCycle,
                   OpenFromSignal, EndCycle, MarketClose, OnceResearch, OnceReport, tables, book
          <5>2. \E R \in SUBSET memory : Close(R)
            BY <4>2, <5>1 DEF MarketFlatten, FlattenError, Manage, ToFlatten, book
          <5>3. memory \subseteq rows
            BY <1>2, DayNumbers DEF EarlyInv, MorningInv
          <5> QED BY <5>2, <5>3 DEF Close
        <4> QED BY <4>1, <4>2
      <3>2. \A c \in closed' \ closed : c.trade.date \in DOMAIN report =>
                \/ c.trade.date \in warned \/ c.trade.afterReport
                \/ <<"report", c.trade.date>> \in byHand \/ Researched(c.trade.day)
        BY <1>2, <3>1 DEF UnreportedForCause
      <3> QED BY <1>2, <2>1, <2>2, <2>4, <3>2 DEF IncompleteIsWarned
    <2> QED BY <2>3, <2>4
  <1>3. EarlyInv /\ UnreportedForCause /\ [LifecycleNext]_lifecycleVars => UnreportedForCause'
    BY UnreportedForCauseNext
  <1> QED BY <1>1, <1>2, <1>3, EarlyInvariant, PTL DEF LifecycleSpec

=============================================================================
