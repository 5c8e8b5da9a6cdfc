---------------------------- MODULE JobRaceProofs ----------------------------
(***************************************************************************)
(* Theorems about the two jobs on one book, for any number of symbols,     *)
(* positions and trades, and every interleaving.                           *)
(***************************************************************************)
EXTENDS JobRace, SequenceTheorems, FiniteSetTheorems, TLAPS

-----------------------------------------------------------------------------
(* The shape of tables, dict and jobs.                                     *)

\* Moving on keeps the types of pc and scan.
LEMMA GoToTypes ==
    ASSUME RaceTypeOK, NEW j \in Jobs, NEW where \in CyclePcs,
           j = "cycle" \/ where \in FlattenPcs,
           GoTo(j, where) \/ Disturb(j, where)
    PROVE  /\ pc' \in [Jobs -> CyclePcs] /\ pc'["flatten"] \in FlattenPcs
           /\ scan' \in [Jobs -> {"none", "steady", "disturbed"}]
           /\ pc'[j] = where
           /\ \A k \in Jobs : k # j => pc'[k] = pc[k]
  <1>1. FreshWalk(where) \in {"none", "steady", "disturbed"}
    BY DEF FreshWalk
  <1>2. Other(j) \in Jobs
    BY DEF Other, Jobs
  <1>3. /\ pc' = [pc EXCEPT ![j] = where]
        /\ scan' \in [Jobs -> {"none", "steady", "disturbed"}]
    BY <1>1, <1>2 DEF GoTo, Disturb, RaceTypeOK
  <1> QED BY <1>3 DEF RaceTypeOK, Jobs

\* A step that leaves rows and dict alone, moves one job on and at most clears what
\* it has listed, or lists the dict, keeps the shape.
LEMMA MoveOnShape ==
    ASSUME RaceShape, UNCHANGED <<rows, book, cur>>, NEW j \in Jobs,
           NEW where \in CyclePcs \ Selling, pc[j] \notin Selling,
           j = "cycle" \/ where \in FlattenPcs, GoTo(j, where),
           NEW list, todo' = [todo EXCEPT ![j] = list],
           list \subseteq Ids, list = {} \/ where \in {"manage", "sweep"},
           halted' \in BOOLEAN, pending' \subseteq Symbols, closedAny' \in BOOLEAN,
           atFlatten' \in {atFlatten, OpenIds}, done' \in BOOLEAN, lateCycle' \in BOOLEAN
    PROVE  RaceShape'
  <1>1. RaceTypeOK /\ BookShape /\ JobShape
    BY DEF RaceShape
  <1>2. /\ pc' \in [Jobs -> CyclePcs] /\ pc'["flatten"] \in FlattenPcs
        /\ scan' \in [Jobs -> {"none", "steady", "disturbed"}]
        /\ pc'[j] = where /\ \A k \in Jobs : k # j => pc'[k] = pc[k]
    BY <1>1, GoToTypes
  <1>3. list \subseteq Nat /\ OpenIds \subseteq Nat
    BY <1>1 DEF Ids, OpenIds, RaceTypeOK
  <1>4. /\ todo' \in [Jobs -> SUBSET Nat] /\ todo'[j] = list
        /\ \A k \in Jobs : k # j => todo'[k] = todo[k]
    BY <1>1, <1>3 DEF RaceTypeOK
  <1>5. RaceTypeOK'
    BY <1>1, <1>2, <1>3, <1>4 DEF RaceTypeOK
  <1>6. BookShape'
    BY <1>1 DEF BookShape, Ids
  <1>7. JobShape'
    <2> SUFFICES ASSUME NEW k \in Jobs
                 PROVE  /\ todo'[k] \subseteq Ids
                        /\ pc'[k] \notin {"manage", "sweep"} \cup Selling => todo'[k] = {}
                        /\ IF pc'[k] \in Selling THEN cur[k] \in Ids ELSE cur[k] = None
                        /\ pc'[k] \in {"pop", "drop"} => rows[cur[k]].status = "CLOSED"
      BY DEF JobShape, Ids
    <2>1. CASE k = j
      BY <1>1, <1>2, <1>4, <2>1 DEF JobShape, Selling
    <2>2. CASE k # j
      BY <1>1, <1>2, <1>4, <2>2 DEF JobShape
    <2> QED BY <2>1, <2>2
  <1> QED BY <1>5, <1>6, <1>7 DEF RaceShape

\* The positions of the dict are rows.
LEMMA ListedAreIds ==
    ASSUME BookShape PROVE Listed \subseteq Ids
  BY DEF BookShape, Listed, Range

\* The steps between two effects keep the shape.
Between ==
    \/ \E j \in Jobs : WalkRaises(j) \/ ListAll(j) \/ SweepDone(j)
    \/ BeginFlatten \/ EndFlatten \/ BeginCycle \/ Guard \/ RankNext \/ Latch
    \/ BeginManage \/ EndManage \/ EndCycle
    \/ \E s \in Symbols : SkipSignal(s)
    \/ \E i \in todo["cycle"] : KeepPosition(i)

\* So they do, each being a move of one job.
LEMMA BetweenShape ==
    ASSUME RaceShape, Between
    PROVE  RaceShape'
  <1>1. RaceTypeOK /\ BookShape /\ JobShape
    BY DEF RaceShape
  <1>2. /\ Listed \subseteq Ids /\ {} \subseteq Ids
        /\ halted \in BOOLEAN /\ closedAny \in BOOLEAN /\ done \in BOOLEAN
        /\ lateCycle \in BOOLEAN /\ pending \subseteq Symbols
        /\ "cycle" \in Jobs /\ "flatten" \in Jobs
        /\ \A j \in Jobs : pc[j] \in CyclePcs
    BY <1>1, ListedAreIds DEF RaceTypeOK, Jobs
  <1>3. \A j \in Jobs : todo' = [todo EXCEPT ![j] = todo[j]] <=> todo' = todo
    BY <1>1 DEF RaceTypeOK
  <1>4. \A j \in Jobs : pc[j] \notin {"manage", "sweep"} \cup Selling => todo[j] = {}
    BY <1>1 DEF JobShape
  <1>5. CASE \E j \in Jobs : WalkRaises(j)
    <2>1. PICK j \in Jobs : WalkRaises(j)
      BY <1>5
    <2>2. /\ UNCHANGED <<rows, book, cur, halted, atFlatten, lateCycle>> /\ GoTo(j, "idle")
          /\ todo' = [todo EXCEPT ![j] = {}] /\ pc[j] \notin Selling
          /\ pending' \subseteq Symbols /\ closedAny' \in BOOLEAN
      BY <1>2, <2>1 DEF WalkRaises, Walks, Selling
    <2>3. done' \in BOOLEAN
      BY Zenon, <1>2, <2>1 DEF WalkRaises
    <2>4. "idle" \in CyclePcs \ Selling /\ "idle" \in FlattenPcs
      BY DEF CyclePcs, FlattenPcs, Selling
    <2>5. atFlatten' \in {atFlatten, OpenIds} /\ halted' \in BOOLEAN /\ lateCycle' \in BOOLEAN
      BY <1>2, <2>2
    <2> QED BY <1>2, <2>2, <2>3, <2>4, <2>5, MoveOnShape
  <1>6. CASE \E j \in Jobs : ListAll(j)
    <2>1. PICK j \in Jobs : ListAll(j)
      BY <1>6
    <2> QED BY <1>2, <2>1, MoveOnShape DEF ListAll, CyclePcs, FlattenPcs, Selling
  <1>7. CASE \E j \in Jobs : SweepDone(j)
    <2>1. PICK j \in Jobs : SweepDone(j)
      BY <1>7
    <2> DEFINE where == IF j = "cycle" THEN "total" ELSE "refresh"
    <2>2. /\ UNCHANGED <<rows, book, cur, halted, atFlatten, pending, closedAny, done,
                       lateCycle>>
          /\ GoTo(j, where)
          /\ todo' = [todo EXCEPT ![j] = {}] /\ pc[j] \notin Selling
      BY <1>3, <2>1 DEF SweepDone, Selling
    <2>3. where \in CyclePcs \ Selling /\ (j = "cycle" \/ where \in FlattenPcs)
      BY DEF CyclePcs, FlattenPcs, Selling
    <2> HIDE DEF where
    <2> QED BY <1>2, <2>2, <2>3, MoveOnShape
  <1>8. CASE BeginFlatten \/ EndFlatten
    <2>1. todo' = [todo EXCEPT !["flatten"] = {}]
      BY <1>2, <1>3, <1>4, <1>8 DEF BeginFlatten, EndFlatten, Selling
    <2>2. /\ UNCHANGED <<rows, book, cur, halted, pending, closedAny, lateCycle>>
          /\ pc["flatten"] \notin Selling /\ done' \in BOOLEAN
          /\ atFlatten' \in {atFlatten, OpenIds}
      BY <1>2, <1>8 DEF BeginFlatten, EndFlatten, Selling
    <2>3. PICK where \in {"missing", "idle"} : GoTo("flatten", where)
      BY <1>8 DEF BeginFlatten, EndFlatten
    <2>4. where \in CyclePcs \ Selling /\ where \in FlattenPcs
      BY DEF CyclePcs, FlattenPcs, Selling
    <2>5. halted' \in BOOLEAN /\ pending' \subseteq Symbols /\ closedAny' \in BOOLEAN
          /\ lateCycle' \in BOOLEAN
      BY <1>2, <2>2
    <2>6. /\ RaceShape /\ UNCHANGED <<rows, book, cur>> /\ "flatten" \in Jobs
          /\ pc["flatten"] \notin Selling /\ {} \subseteq Ids
      BY <2>2 DEF Jobs
    <2> QED BY ONLY <2>1, <2>2, <2>3, <2>4, <2>5, <2>6, MoveOnShape
  <1>9. CASE BeginCycle \/ Guard \/ RankNext \/ Latch \/ EndManage \/ EndCycle
    <2>1. todo' = [todo EXCEPT !["cycle"] = {}]
      BY <1>2, <1>3, <1>4, <1>9
         DEF BeginCycle, Guard, RankNext, Latch, EndManage, EndCycle, Selling
    <2>2. /\ UNCHANGED <<rows, book, cur, atFlatten, done>>
          /\ pc["cycle"] \notin Selling /\ lateCycle' \in BOOLEAN
          /\ halted' \in BOOLEAN /\ pending' \subseteq Symbols /\ closedAny' \in BOOLEAN
      BY <1>2, <1>9 DEF BeginCycle, Guard, RankNext, Latch, EndManage, EndCycle, Selling
    <2>3. PICK where \in {"idle", "guard", "missing", "value", "rank", "refresh"} :
             GoTo("cycle", where)
      BY <1>9 DEF BeginCycle, Guard, RankNext, Latch, EndManage, EndCycle
    <2>4. where \in CyclePcs \ Selling
      BY DEF CyclePcs, FlattenPcs, Selling
    <2>5. atFlatten' \in {atFlatten, OpenIds} /\ done' \in BOOLEAN /\ {} \subseteq Ids
      BY <1>2, <2>2
    <2>6. "cycle" \in Jobs /\ GoTo("cycle", where)
      BY <1>2, <2>3
    <2> QED BY <2>1, <2>2, <2>4, <2>5, <2>6, MoveOnShape
  <1>10. CASE BeginManage
    BY <1>2, <1>10, MoveOnShape DEF BeginManage, CyclePcs, FlattenPcs, Selling
  <1>11. CASE \E s \in Symbols : SkipSignal(s)
    BY <1>1, <1>11
       DEF SkipSignal, RaceShape, RaceTypeOK, BookShape, JobShape, Ids
  <1>12. CASE \E i \in todo["cycle"] : KeepPosition(i)
    <2>1. PICK i \in todo["cycle"] : KeepPosition(i)
      BY <1>12
    <2>2. /\ UNCHANGED <<rows, book, halted, pc, scan, cur, pending, closedAny, atFlatten, done, lateCycle>>
          /\ todo' = [todo EXCEPT !["cycle"] = @ \ {i}] /\ pc["cycle"] = "manage"
      BY <2>1 DEF KeepPosition
    <2>3. todo' \in [Jobs -> SUBSET Nat]
      BY <1>1, <2>2 DEF RaceTypeOK
    <2>4. RaceTypeOK'
      BY <1>1, <2>2, <2>3 DEF RaceTypeOK
    <2>5. \A j \in Jobs : todo'[j] \subseteq todo[j]
      BY <1>1, <2>2 DEF RaceTypeOK
    <2>6. JobShape'
      BY <1>1, <2>2, <2>5 DEF JobShape, Ids
    <2>7. BookShape'
      BY <1>1, <2>2 DEF BookShape, Ids
    <2> QED BY <2>4, <2>6, <2>7 DEF RaceShape
  <1> QED BY <1>5, <1>6, <1>7, <1>8, <1>9, <1>10, <1>11, <1>12 DEF Between

-----------------------------------------------------------------------------
(* The effects on table and dict.                                          *)

\* A fill of an exit counts it in its row and takes the row in hand.
Filling(j, i) ==
    /\ pc[j] \in {"sweep", "manage"}
    /\ SweepNext(j, i) \/ (j = "cycle" /\ ExitPosition(i))

\* What that is, variable by variable.
LEMMA FillingEffect ==
    ASSUME RaceShape, NEW j \in Jobs, NEW i \in todo[j], Filling(j, i)
    PROVE  /\ i \in Ids /\ pc[j] \notin Selling /\ cur[j] = None
           /\ rows' = [rows EXCEPT ![i].exits = @ + 1]
           /\ rows' \in Seq(RaceRow) /\ Len(rows') = Len(rows)
           /\ rows'[i].symbol = rows[i].symbol /\ rows'[i].status = rows[i].status
           /\ rows'[i].exits = rows[i].exits + 1
           /\ \A k \in Ids : k # i => rows'[k] = rows[k]
           /\ book' = book
           /\ todo'[j] = todo[j] \ {i} /\ cur'[j] = i
           /\ \A k \in Jobs : k # j => todo'[k] = todo[k] /\ cur'[k] = cur[k]
           /\ todo' \in [Jobs -> SUBSET Nat] /\ cur' \in [Jobs -> Nat \cup {None}]
           /\ UNCHANGED <<halted, pending, closedAny, atFlatten, done, lateCycle>>
           /\ pc'[j] \in {"exit", "sold"} /\ \A k \in Jobs : k # j => pc'[k] = pc[k]
           /\ pc' \in [Jobs -> CyclePcs] /\ pc'["flatten"] \in FlattenPcs
           /\ scan' \in [Jobs -> {"none", "steady", "disturbed"}]
  <1>1. RaceTypeOK /\ JobShape
    BY DEF RaceShape
  <1>2. i \in Ids /\ i \in Nat /\ pc[j] \notin Selling /\ cur[j] = None
    BY <1>1 DEF Filling, JobShape, Ids, RaceTypeOK, Selling
  <1>3. /\ FillExit(j, i) /\ UNCHANGED <<book, halted, pending, closedAny, atFlatten, done, lateCycle>>
        /\ \/ GoTo(j, "sold")
           \/ j = "cycle" /\ GoTo(j, "exit")
    BY DEF Filling, SweepNext, ExitPosition
  <1>4. rows \in Seq(RaceRow) /\ i \in 1..Len(rows) /\ rows[i] \in RaceRow
    BY <1>1, <1>2 DEF RaceTypeOK, Ids
  <1> DEFINE row == [rows[i] EXCEPT !.exits = @ + 1]
  <1>5. /\ row \in RaceRow /\ row.symbol = rows[i].symbol /\ row.status = rows[i].status
        /\ row.exits = rows[i].exits + 1
    <2>1. /\ rows[i].symbol \in Symbols /\ rows[i].status \in {"OPEN", "CLOSED"}
          /\ rows[i].exits \in Nat
      BY <1>4 DEF RaceRow
    <2>2. row = [symbol |-> rows[i].symbol, status |-> rows[i].status,
                 exits  |-> rows[i].exits + 1]
      BY <1>4 DEF RaceRow
    <2> QED BY <2>1, <2>2 DEF RaceRow
  <1>6. rows' = [rows EXCEPT ![i] = row]
    BY <1>3 DEF FillExit
  <1> HIDE DEF row
  <1>7. /\ rows' \in Seq(RaceRow) /\ Len(rows') = Len(rows) /\ rows'[i] = row
        /\ \A k \in 1..Len(rows) : k # i => rows'[k] = rows[k]
    BY <1>4, <1>5, <1>6, ExceptSeq
  <1>8. /\ todo'[j] = todo[j] \ {i} /\ cur'[j] = i
        /\ \A k \in Jobs : k # j => todo'[k] = todo[k] /\ cur'[k] = cur[k]
        /\ todo' \in [Jobs -> SUBSET Nat] /\ cur' \in [Jobs -> Nat \cup {None}]
    BY <1>1, <1>2, <1>3 DEF FillExit, RaceTypeOK
  <1>9. /\ pc'[j] \in {"exit", "sold"} /\ \A k \in Jobs : k # j => pc'[k] = pc[k]
        /\ pc' \in [Jobs -> CyclePcs] /\ pc'["flatten"] \in FlattenPcs
        /\ scan' \in [Jobs -> {"none", "steady", "disturbed"}]
    <2>1. "sold" \in CyclePcs /\ "sold" \in FlattenPcs /\ "exit" \in CyclePcs
      BY DEF CyclePcs, FlattenPcs
    <2>2. CASE GoTo(j, "sold")
      BY <1>1, <2>1, <2>2, GoToTypes
    <2>3. CASE j = "cycle" /\ GoTo(j, "exit")
      BY <1>1, <2>1, <2>3, GoToTypes
    <2> QED BY <1>3, <2>2, <2>3
  <1>10. rows' = [rows EXCEPT ![i].exits = @ + 1]
    BY <1>3 DEF FillExit
  <1> QED BY <1>2, <1>3, <1>5, <1>7, <1>8, <1>9, <1>10 DEF Ids

\* It keeps the shape.
LEMMA FillingShape ==
    ASSUME RaceShape, NEW j \in Jobs, NEW i \in todo[j], Filling(j, i)
    PROVE  RaceShape'
  <1>1. RaceTypeOK /\ BookShape /\ JobShape
    BY DEF RaceShape
  <1>2. /\ i \in Ids /\ rows' \in Seq(RaceRow) /\ Len(rows') = Len(rows)
        /\ \A k \in Ids : rows'[k].symbol = rows[k].symbol /\ rows'[k].status = rows[k].status
        /\ book' = book
        /\ todo'[j] = todo[j] \ {i} /\ cur'[j] = i
        /\ \A k \in Jobs : k # j => todo'[k] = todo[k] /\ cur'[k] = cur[k]
        /\ todo' \in [Jobs -> SUBSET Nat] /\ cur' \in [Jobs -> Nat \cup {None}]
        /\ UNCHANGED <<halted, pending, closedAny, atFlatten, done, lateCycle>>
        /\ pc'[j] \in {"exit", "sold"} /\ \A k \in Jobs : k # j => pc'[k] = pc[k]
        /\ pc' \in [Jobs -> CyclePcs] /\ pc'["flatten"] \in FlattenPcs
        /\ scan' \in [Jobs -> {"none", "steady", "disturbed"}]
    BY FillingEffect
  <1>3. Ids' = Ids
    BY <1>2 DEF Ids
  <1>4. RaceTypeOK'
    BY <1>1, <1>2 DEF RaceTypeOK
  <1>5. BookShape'
    BY <1>1, <1>2, <1>3 DEF BookShape
  <1>6. JobShape'
    <2> SUFFICES ASSUME NEW k \in Jobs
                 PROVE  /\ todo'[k] \subseteq Ids
                        /\ pc'[k] \notin {"manage", "sweep"} \cup Selling => todo'[k] = {}
                        /\ IF pc'[k] \in Selling THEN cur'[k] \in Ids ELSE cur'[k] = None
                        /\ pc'[k] \in {"pop", "drop"} => rows'[cur'[k]].status = "CLOSED"
      BY <1>3 DEF JobShape
    <2>1. CASE k = j
      BY <1>1, <1>2, <2>1 DEF JobShape, Selling
    <2>2. CASE k # j
      <3>1. /\ todo'[k] = todo[k] /\ cur'[k] = cur[k] /\ pc'[k] = pc[k]
        BY <1>2, <2>2
      <3>2. pc[k] \in {"pop", "drop"} => cur[k] \in Ids /\ rows[cur[k]].status = "CLOSED"
        BY <1>1 DEF JobShape, Selling
      <3> QED BY <1>1, <1>2, <3>1, <3>2 DEF JobShape
    <2> QED BY <2>1, <2>2
  <1> QED BY <1>4, <1>5, <1>6 DEF RaceShape

\* Closing a row leaves its symbol and its exits.
LEMMA CommitExitEffect ==
    ASSUME RaceShape, NEW j \in Jobs, CommitExit(j)
    PROVE  /\ cur[j] \in Ids /\ pc[j] \in Selling
           /\ rows' \in Seq(RaceRow) /\ Len(rows') = Len(rows)
           /\ rows'[cur[j]].status = "CLOSED"
           /\ \A k \in Ids : /\ rows'[k].symbol = rows[k].symbol
                             /\ rows'[k].exits = rows[k].exits
                             /\ k # cur[j] => rows'[k] = rows[k]
           /\ UNCHANGED <<book, halted, todo, cur, pending, closedAny, atFlatten, done, lateCycle>>
           /\ pc'[j] \in {"pop", "drop"} /\ \A k \in Jobs : k # j => pc'[k] = pc[k]
           /\ pc' \in [Jobs -> CyclePcs] /\ pc'["flatten"] \in FlattenPcs
           /\ scan' \in [Jobs -> {"none", "steady", "disturbed"}]
  <1> DEFINE i == cur[j]
             row == [rows[i] EXCEPT !.status = "CLOSED"]
             where == IF pc[j] = "exit" THEN "pop" ELSE "drop"
  <1>1. RaceTypeOK /\ JobShape
    BY DEF RaceShape
  <1>2. i \in Ids /\ pc[j] \in Selling
    BY <1>1 DEF CommitExit, JobShape, Selling
  <1>3. rows \in Seq(RaceRow) /\ i \in 1..Len(rows) /\ rows[i] \in RaceRow
    BY <1>1, <1>2 DEF RaceTypeOK, Ids
  <1>4. /\ row \in RaceRow /\ row.symbol = rows[i].symbol /\ row.exits = rows[i].exits
        /\ row.status = "CLOSED"
    BY <1>3 DEF RaceRow
  <1>5. rows' = [rows EXCEPT ![i] = row]
    BY DEF CommitExit
  <1>6. where \in CyclePcs /\ (j = "cycle" \/ where \in FlattenPcs)
    BY <1>1 DEF CommitExit, CyclePcs, FlattenPcs, RaceTypeOK, Jobs
  <1>7. GoTo(j, where) /\ UNCHANGED <<book, halted, todo, cur, pending, closedAny, atFlatten, done, lateCycle>>
    BY DEF CommitExit
  <1>8. where \in {"pop", "drop"}
    OBVIOUS
  <1> HIDE DEF row, i, where
  <1>9. /\ rows' \in Seq(RaceRow) /\ Len(rows') = Len(rows) /\ rows'[i] = row
        /\ \A k \in 1..Len(rows) : k # i => rows'[k] = rows[k]
    BY <1>3, <1>4, <1>5, ExceptSeq
  <1>10. /\ pc' \in [Jobs -> CyclePcs] /\ pc'["flatten"] \in FlattenPcs
         /\ scan' \in [Jobs -> {"none", "steady", "disturbed"}]
         /\ pc'[j] = where /\ \A k \in Jobs : k # j => pc'[k] = pc[k]
    BY <1>1, <1>6, <1>7, GoToTypes
  <1>11. \A k \in Ids : /\ rows'[k].symbol = rows[k].symbol
                        /\ rows'[k].exits = rows[k].exits
                        /\ k # i => rows'[k] = rows[k]
    BY <1>4, <1>9 DEF Ids
  <1> QED BY <1>2, <1>4, <1>7, <1>8, <1>9, <1>10, <1>11 DEF i

\* It keeps the shape: the position in hand is closed from here on.
LEMMA CommitExitShape ==
    ASSUME RaceShape, NEW j \in Jobs, CommitExit(j)
    PROVE  RaceShape'
  <1>1. RaceTypeOK /\ BookShape /\ JobShape
    BY DEF RaceShape
  <1>2. /\ cur[j] \in Ids /\ pc[j] \in Selling
        /\ rows' \in Seq(RaceRow) /\ Len(rows') = Len(rows)
        /\ rows'[cur[j]].status = "CLOSED"
        /\ \A k \in Ids : /\ rows'[k].symbol = rows[k].symbol
                          /\ k # cur[j] => rows'[k] = rows[k]
        /\ UNCHANGED <<book, halted, todo, cur, pending, closedAny, atFlatten, done, lateCycle>>
        /\ pc'[j] \in {"pop", "drop"} /\ \A k \in Jobs : k # j => pc'[k] = pc[k]
        /\ pc' \in [Jobs -> CyclePcs] /\ pc'["flatten"] \in FlattenPcs
        /\ scan' \in [Jobs -> {"none", "steady", "disturbed"}]
    BY CommitExitEffect
  <1>3. Ids' = Ids
    BY <1>2 DEF Ids
  <1>4. RaceTypeOK'
    BY <1>1, <1>2 DEF RaceTypeOK
  <1>5. BookShape'
    BY <1>1, <1>2, <1>3 DEF BookShape
  <1>6. JobShape'
    <2> SUFFICES ASSUME NEW k \in Jobs
                 PROVE  /\ todo[k] \subseteq Ids
                        /\ pc'[k] \notin {"manage", "sweep"} \cup Selling => todo[k] = {}
                        /\ IF pc'[k] \in Selling THEN cur[k] \in Ids ELSE cur[k] = None
                        /\ pc'[k] \in {"pop", "drop"} => rows'[cur[k]].status = "CLOSED"
      BY <1>2, <1>3 DEF JobShape
    <2>1. CASE k = j
      BY <1>1, <1>2, <2>1 DEF JobShape, Selling
    <2>2. CASE k # j
      <3>1. pc[k] \in {"pop", "drop"} => cur[k] \in Ids /\ rows[cur[k]].status = "CLOSED"
        BY <1>1 DEF JobShape, Selling
      <3> QED BY <1>1, <1>2, <2>2, <3>1 DEF JobShape
    <2> QED BY <2>1, <2>2
  <1> QED BY <1>4, <1>5, <1>6 DEF RaceShape
\* Dropping an entry takes the symbol of the row in hand out of the dict.
LEMMA DropEntryEffect ==
    ASSUME RaceShape, NEW j \in Jobs, DropEntry(j)
    PROVE  /\ cur[j] \in Ids /\ pc[j] \in {"pop", "drop"} /\ rows[cur[j]].status = "CLOSED"
           /\ DOMAIN book' = DOMAIN book \ {rows[cur[j]].symbol}
           /\ \A s \in DOMAIN book' : book'[s] = book[s]
           /\ book' \in [DOMAIN book' -> Nat]
           /\ cur'[j] = None /\ \A k \in Jobs : k # j => cur'[k] = cur[k]
           /\ cur' \in [Jobs -> Nat \cup {None}]
           /\ UNCHANGED <<rows, halted, todo, pending, atFlatten, done, lateCycle>>
           /\ closedAny' \in BOOLEAN
           /\ pc'[j] \in {"manage", "sweep"} /\ \A k \in Jobs : k # j => pc'[k] = pc[k]
           /\ pc' \in [Jobs -> CyclePcs] /\ pc'["flatten"] \in FlattenPcs
           /\ scan' \in [Jobs -> {"none", "steady", "disturbed"}]
  <1> DEFINE where == IF pc[j] = "pop" THEN "manage" ELSE "sweep"
  <1>1. RaceTypeOK /\ JobShape
    BY DEF RaceShape
  <1>2. pc[j] \in {"pop", "drop"} /\ cur[j] \in Ids /\ rows[cur[j]].status = "CLOSED"
    BY <1>1 DEF DropEntry, JobShape, Selling
  <1>3. /\ DOMAIN book' = DOMAIN book \ {rows[cur[j]].symbol}
        /\ \A s \in DOMAIN book' : book'[s] = book[s]
        /\ book' \in [DOMAIN book' -> Nat]
    BY <1>1 DEF DropEntry, Remaining, RaceTypeOK
  <1>4. /\ cur'[j] = None /\ \A k \in Jobs : k # j => cur'[k] = cur[k]
        /\ cur' \in [Jobs -> Nat \cup {None}]
    BY <1>1 DEF DropEntry, RaceTypeOK
  <1>5. where \in CyclePcs /\ (j = "cycle" \/ where \in FlattenPcs)
    BY <1>1, <1>2 DEF CyclePcs, FlattenPcs, RaceTypeOK, Jobs
  <1>6. GoTo(j, where) \/ Disturb(j, where)
    BY DEF DropEntry
  <1>7. where \in {"manage", "sweep"}
    OBVIOUS
  <1>8. UNCHANGED <<rows, halted, todo, pending, atFlatten, done, lateCycle>>
    BY DEF DropEntry
  <1>9. closedAny' \in BOOLEAN
    BY Zenon, <1>1 DEF DropEntry, RaceTypeOK
  <1> HIDE DEF where
  <1>10. /\ pc' \in [Jobs -> CyclePcs] /\ pc'["flatten"] \in FlattenPcs
         /\ scan' \in [Jobs -> {"none", "steady", "disturbed"}]
         /\ pc'[j] = where /\ \A k \in Jobs : k # j => pc'[k] = pc[k]
    BY <1>1, <1>5, <1>6, GoToTypes
  <1> QED BY <1>2, <1>3, <1>4, <1>7, <1>8, <1>9, <1>10

\* It keeps the shape.
LEMMA DropEntryShape ==
    ASSUME RaceShape, NEW j \in Jobs, DropEntry(j)
    PROVE  RaceShape'
  <1>1. RaceTypeOK /\ BookShape /\ JobShape
    BY DEF RaceShape
  <1>2. /\ DOMAIN book' \subseteq DOMAIN book
        /\ \A s \in DOMAIN book' : book'[s] = book[s]
        /\ book' \in [DOMAIN book' -> Nat]
        /\ cur'[j] = None /\ \A k \in Jobs : k # j => cur'[k] = cur[k]
        /\ cur' \in [Jobs -> Nat \cup {None}]
        /\ UNCHANGED <<rows, halted, todo, pending, atFlatten, done, lateCycle>>
        /\ closedAny' \in BOOLEAN
        /\ pc'[j] \in {"manage", "sweep"} /\ \A k \in Jobs : k # j => pc'[k] = pc[k]
        /\ pc' \in [Jobs -> CyclePcs] /\ pc'["flatten"] \in FlattenPcs
        /\ scan' \in [Jobs -> {"none", "steady", "disturbed"}]
    BY DropEntryEffect
  <1>3. RaceTypeOK'
    BY <1>1, <1>2 DEF RaceTypeOK
  <1>4. BookShape'
    BY <1>1, <1>2 DEF BookShape, Ids
  <1>5. JobShape'
    <2> SUFFICES ASSUME NEW k \in Jobs
                 PROVE  /\ todo[k] \subseteq Ids
                        /\ pc'[k] \notin {"manage", "sweep"} \cup Selling => todo[k] = {}
                        /\ IF pc'[k] \in Selling THEN cur'[k] \in Ids ELSE cur'[k] = None
                        /\ pc'[k] \in {"pop", "drop"} => rows[cur'[k]].status = "CLOSED"
      BY <1>2 DEF JobShape, Ids
    <2>1. CASE k = j
      BY <1>1, <1>2, <2>1 DEF JobShape, Selling
    <2>2. CASE k # j
      BY <1>1, <1>2, <2>2 DEF JobShape
    <2> QED BY <2>1, <2>2
  <1> QED BY <1>3, <1>4, <1>5 DEF RaceShape

\* An entry appends an open row and puts it into the dict, under a free symbol.
LEMMA OpenFromSignalEffect ==
    ASSUME RaceShape, NEW s \in Symbols, OpenFromSignal(s)
    PROVE  /\ s \notin DOMAIN book /\ pc["cycle"] = "rank"
           /\ rows' \in Seq(RaceRow) /\ Len(rows') = Len(rows) + 1
           /\ rows'[Len(rows) + 1] = [symbol |-> s, status |-> "OPEN", exits |-> 0]
           /\ \A k \in Ids : rows'[k] = rows[k]
           /\ DOMAIN book' = DOMAIN book \cup {s}
           /\ book'[s] = Len(rows) + 1
           /\ \A t \in DOMAIN book : book'[t] = book[t]
           /\ book' \in [DOMAIN book' -> Nat]
           /\ UNCHANGED <<halted, todo, cur, closedAny, atFlatten, done, lateCycle>>
           /\ pending' \subseteq Symbols
           /\ pc'["cycle"] = "value" /\ pc'["flatten"] = pc["flatten"]
           /\ pc' \in [Jobs -> CyclePcs] /\ pc'["flatten"] \in FlattenPcs
           /\ scan' \in [Jobs -> {"none", "steady", "disturbed"}]
  <1> DEFINE row == [symbol |-> s, status |-> "OPEN", exits |-> 0]
  <1>1. RaceTypeOK /\ rows \in Seq(RaceRow) /\ Len(rows) \in Nat
    BY DEF RaceShape, RaceTypeOK
  <1>2. s \notin DOMAIN book /\ pc["cycle"] = "rank"
    BY DEF OpenFromSignal, Held
  <1>3. row \in RaceRow
    BY DEF RaceRow
  <1>4. rows' = Append(rows, row)
    BY DEF OpenFromSignal
  <1>5. /\ DOMAIN book' = DOMAIN book \cup {s}
        /\ book'[s] = Len(rows) + 1
        /\ \A t \in DOMAIN book : book'[t] = book[t]
        /\ book' \in [DOMAIN book' -> Nat]
    BY <1>1, <1>2 DEF OpenFromSignal, RaceTypeOK
  <1>6. "cycle" \in Jobs /\ "flatten" \in Jobs /\ "value" \in CyclePcs
    BY DEF Jobs, CyclePcs
  <1>7. /\ Disturb("cycle", "value") /\ pending' \subseteq Symbols
        /\ UNCHANGED <<halted, todo, cur, closedAny, atFlatten, done, lateCycle>>
    BY <1>1 DEF OpenFromSignal, RaceTypeOK
  <1>8. /\ pc' \in [Jobs -> CyclePcs] /\ pc'["flatten"] \in FlattenPcs
        /\ scan' \in [Jobs -> {"none", "steady", "disturbed"}]
        /\ pc'["cycle"] = "value" /\ \A k \in Jobs : k # "cycle" => pc'[k] = pc[k]
    BY <1>1, <1>6, <1>7, GoToTypes
  <1> HIDE DEF row
  <1>9. /\ rows' \in Seq(RaceRow) /\ Len(rows') = Len(rows) + 1
        /\ rows'[Len(rows) + 1] = row
        /\ \A k \in 1..Len(rows) : rows'[k] = rows[k]
    BY <1>1, <1>3, <1>4
  <1> QED BY <1>2, <1>5, <1>6, <1>7, <1>8, <1>9 DEF row, Ids

\* It keeps the shape.
LEMMA OpenFromSignalShape ==
    ASSUME RaceShape, NEW s \in Symbols, OpenFromSignal(s)
    PROVE  RaceShape'
  <1>1. RaceTypeOK /\ BookShape /\ JobShape /\ Len(rows) \in Nat
    BY DEF RaceShape, RaceTypeOK
  <1>2. /\ s \notin DOMAIN book /\ pc["cycle"] = "rank"
        /\ rows' \in Seq(RaceRow) /\ Len(rows') = Len(rows) + 1
        /\ rows'[Len(rows) + 1] = [symbol |-> s, status |-> "OPEN", exits |-> 0]
        /\ \A k \in Ids : rows'[k] = rows[k]
        /\ DOMAIN book' = DOMAIN book \cup {s}
        /\ book'[s] = Len(rows) + 1
        /\ \A t \in DOMAIN book : book'[t] = book[t]
        /\ book' \in [DOMAIN book' -> Nat]
        /\ UNCHANGED <<halted, todo, cur, closedAny, atFlatten, done, lateCycle>>
        /\ pending' \subseteq Symbols
        /\ pc'["cycle"] = "value" /\ pc'["flatten"] = pc["flatten"]
        /\ pc' \in [Jobs -> CyclePcs] /\ pc'["flatten"] \in FlattenPcs
        /\ scan' \in [Jobs -> {"none", "steady", "disturbed"}]
    BY OpenFromSignalEffect
  <1>3. Ids \subseteq Ids' /\ Len(rows) + 1 \in Ids'
    BY <1>1, <1>2 DEF Ids
  <1>4. RaceTypeOK'
    BY <1>1, <1>2 DEF RaceTypeOK
  <1>5. BookShape'
    <2> SUFFICES ASSUME NEW t \in DOMAIN book'
                 PROVE  book'[t] \in Ids' /\ rows'[book'[t]].symbol = t
      BY DEF BookShape
    <2>1. CASE t = s
      BY <1>2, <1>3, <2>1
    <2>2. CASE t # s
      BY <1>1, <1>2, <1>3, <2>2 DEF BookShape
    <2> QED BY <2>1, <2>2
  <1>6. JobShape'
    <2> SUFFICES ASSUME NEW k \in Jobs
                 PROVE  /\ todo[k] \subseteq Ids
                        /\ pc'[k] \notin {"manage", "sweep"} \cup Selling => todo[k] = {}
                        /\ IF pc'[k] \in Selling THEN cur[k] \in Ids ELSE cur[k] = None
                        /\ pc'[k] \in {"pop", "drop"} => rows'[cur[k]].status = "CLOSED"
      BY <1>2, <1>3 DEF JobShape
    <2>1. CASE k = "cycle"
      BY <1>1, <1>2, <2>1 DEF JobShape, Selling
    <2>2. CASE k = "flatten"
      <3>1. pc[k] \in {"pop", "drop"} => cur[k] \in Ids /\ rows[cur[k]].status = "CLOSED"
        BY <1>1 DEF JobShape, Selling
      <3> QED BY <1>1, <1>2, <2>2, <3>1 DEF JobShape
    <2> QED BY <2>1, <2>2 DEF Jobs
  <1> QED BY <1>4, <1>5, <1>6 DEF RaceShape

-----------------------------------------------------------------------------
(* Every step is a move between effects or one of the four effects.        *)

\* The steps, by their effect on the table and the dict.
LEMMA StepKinds ==
    ASSUME RaceNext
    PROVE  \/ Between
           \/ \E j \in Jobs : CommitExit(j) \/ DropEntry(j)
           \/ \E j \in Jobs : \E i \in todo[j] : Filling(j, i)
           \/ \E s \in Symbols : OpenFromSignal(s)
  <1>1. "cycle" \in Jobs
    BY DEF Jobs
  <1>2. CASE BeginFlatten \/ EndFlatten
    BY <1>2 DEF Between
  <1>3. CASE \E j \in Jobs : Exit(j)
    <2>1. PICK j \in Jobs : Exit(j)
      BY <1>3
    <2>2. CASE WalkRaises(j) \/ ListAll(j) \/ SweepDone(j)
      BY <2>2 DEF Between
    <2>3. CASE CommitExit(j) \/ DropEntry(j)
      BY <2>3
    <2>4. CASE \E i \in todo[j] : SweepNext(j, i)
      <3>1. PICK i \in todo[j] : SweepNext(j, i)
        BY <2>4
      <3>2. pc[j] = "sweep"
        BY <3>1 DEF SweepNext
      <3>3. Filling(j, i)
        BY <3>1, <3>2 DEF Filling
      <3> QED BY <3>3
    <2> QED BY <2>1, <2>2, <2>3, <2>4 DEF Exit
  <1>4. CASE Cycle
    <2>1. CASE \E i \in todo["cycle"] : ExitPosition(i)
      <3>1. PICK i \in todo["cycle"] : ExitPosition(i)
        BY <2>1
      <3>2. pc["cycle"] = "manage"
        BY <3>1 DEF ExitPosition
      <3>3. Filling("cycle", i)
        BY <3>1, <3>2 DEF Filling
      <3> QED BY <1>1, <3>3
    <2>2. CASE \E i \in todo["cycle"] : KeepPosition(i)
      BY <2>2 DEF Between
    <2>3. CASE \E s \in Symbols : SkipSignal(s)
      BY <2>3 DEF Between
    <2>4. CASE \E s \in Symbols : OpenFromSignal(s)
      BY <2>4
    <2>5. CASE \/ BeginCycle \/ Guard \/ RankNext \/ Latch
               \/ BeginManage \/ EndManage \/ EndCycle
      BY <2>5 DEF Between
    <2> QED BY <1>4, <2>1, <2>2, <2>3, <2>4, <2>5 DEF Cycle
  <1> QED BY <1>2, <1>3, <1>4 DEF RaceNext

\* The shape holds at the start.
LEMMA RaceShapeInit ==
    ASSUME RaceInit PROVE RaceShape
  <1>1. RaceTypeOK
    <2>1. rows \in Seq(RaceRow) /\ DOMAIN book = {} /\ book \in [DOMAIN book -> Nat]
      BY DEF RaceInit
    <2>2. /\ pc \in [Jobs -> CyclePcs] /\ pc["flatten"] \in FlattenPcs
          /\ scan \in [Jobs -> {"none", "steady", "disturbed"}]
      BY DEF RaceInit, Jobs, CyclePcs, FlattenPcs
    <2>3. todo \in [Jobs -> SUBSET Nat] /\ cur \in [Jobs -> Nat \cup {None}]
      BY DEF RaceInit
    <2>4. /\ halted \in BOOLEAN /\ closedAny \in BOOLEAN /\ done \in BOOLEAN
          /\ lateCycle \in BOOLEAN
          /\ pending \subseteq Symbols /\ atFlatten \subseteq Nat
      BY DEF RaceInit
    <2> QED BY <2>1, <2>2, <2>3, <2>4 DEF RaceTypeOK
  <1>2. BookShape
    BY DEF RaceInit, BookShape
  <1>3. JobShape
    BY DEF RaceInit, JobShape, Selling
  <1> QED BY <1>1, <1>2, <1>3 DEF RaceShape

\* Every step keeps it.
LEMMA RaceShapeStep ==
    ASSUME RaceShape, [RaceNext]_raceVars PROVE RaceShape'
  <1>1. CASE UNCHANGED raceVars
    BY <1>1 DEF raceVars, RaceShape, RaceTypeOK, BookShape, JobShape, Ids
  <1>2. CASE RaceNext
    <2>1. CASE Between
      BY <2>1, BetweenShape
    <2>2. CASE \E j \in Jobs : CommitExit(j) \/ DropEntry(j)
      BY <2>2, CommitExitShape, DropEntryShape
    <2>3. CASE \E j \in Jobs : \E i \in todo[j] : Filling(j, i)
      BY <2>3, FillingShape
    <2>4. CASE \E s \in Symbols : OpenFromSignal(s)
      BY <2>4, OpenFromSignalShape
    <2> QED BY <1>2, <2>1, <2>2, <2>3, <2>4, StepKinds
  <1> QED BY <1>1, <1>2

\* Table, dict and jobs have their shape throughout, however the jobs interleave:
\* the dict holds rows of their symbols, and a job that is about to drop an
\* entry has closed the row it drops it for.
THEOREM RaceShapeInvariant == RaceSpec => []RaceShape
  <1>1. RaceInit => RaceShape
    BY RaceShapeInit
  <1>2. RaceShape /\ [RaceNext]_raceVars => RaceShape'
    BY RaceShapeStep
  <1> QED BY <1>1, <1>2, PTL DEF RaceSpec

-----------------------------------------------------------------------------
(* No position is lost.                                                    *)

\* A row is in the dict where the dict has it under its symbol.
LEMMA HeldUnderSymbol ==
    ASSUME BookShape, NEW i
    PROVE  i \in Range(book) <=> rows[i].symbol \in DOMAIN book /\ book[rows[i].symbol] = i
  BY DEF BookShape, Range

\* Between two effects a job lists what the dict holds, or less than before, and
\* the cycle comes to enter only from where it did or by beginning.
LEMMA BetweenLists ==
    ASSUME RaceShape, Between
    PROVE  /\ UNCHANGED <<rows, book, cur>>
           /\ \A j \in Jobs : todo'[j] \subseteq todo[j] \/ (todo'[j] = Listed /\ cur[j] = None)
           /\ pc'["cycle"] \in Entering => pc["cycle"] \in Entering \/ BeginCycle
  <1>1. RaceTypeOK /\ JobShape /\ "cycle" \in Jobs /\ "flatten" \in Jobs
    BY DEF RaceShape, Jobs
  <1>2. \A j \in Jobs : pc[j] \in {"missing", "rank"} => cur[j] = None
    BY <1>1 DEF JobShape, Selling
  <1>3. CASE \E j \in Jobs : WalkRaises(j) \/ ListAll(j) \/ SweepDone(j)
    <2>1. PICK j \in Jobs : WalkRaises(j) \/ ListAll(j) \/ SweepDone(j)
      BY <1>3
    <2>2. /\ UNCHANGED <<rows, book, cur>>
          /\ \A k \in Jobs : todo'[k] \subseteq todo[k] \/ (todo'[k] = Listed /\ cur[k] = None)
      BY <1>1, <1>2, <2>1 DEF WalkRaises, ListAll, SweepDone, RaceTypeOK
    <2>3. pc'["cycle"] \notin Entering \/ pc'["cycle"] = pc["cycle"]
      BY <1>1, <2>1 DEF WalkRaises, ListAll, SweepDone, GoTo, RaceTypeOK, Entering
    <2> QED BY <2>2, <2>3
  <1>4. CASE BeginFlatten \/ EndFlatten
    BY <1>1, <1>4 DEF BeginFlatten, EndFlatten, GoTo, RaceTypeOK
  <1>5. CASE Guard \/ RankNext \/ Latch \/ EndManage \/ EndCycle \/ BeginManage
    <2>1. UNCHANGED <<rows, book, cur>>
      BY <1>5 DEF Guard, RankNext, Latch, EndManage, EndCycle, BeginManage
    <2>2. pc'["cycle"] \in Entering => pc["cycle"] \in Entering
      BY <1>1, <1>5 DEF Guard, RankNext, Latch, EndManage, EndCycle, BeginManage,
                        GoTo, RaceTypeOK, Entering
    <2>3. \A k \in Jobs : todo'[k] \subseteq todo[k] \/ (todo'[k] = Listed /\ cur[k] = None)
      BY <1>1, <1>2, <1>5 DEF Guard, RankNext, Latch, EndManage, EndCycle, BeginManage,
                              RaceTypeOK
    <2> QED BY <2>1, <2>2, <2>3
  <1>6. CASE BeginCycle
    BY <1>6 DEF BeginCycle
  <1>7. CASE \E s \in Symbols : SkipSignal(s)
    BY <1>7 DEF SkipSignal
  <1>8. CASE \E i \in todo["cycle"] : KeepPosition(i)
    BY <1>1, <1>8 DEF KeepPosition, RaceTypeOK
  <1> QED BY <1>3, <1>4, <1>5, <1>6, <1>7, <1>8 DEF Between

\* The moves lose nothing, as long as no cycle begins during the flatten.
LEMMA BetweenLosesNothing ==
    ASSUME Unlost, Between, ~lateCycle'
    PROVE  DropsItsOwn' /\ NoneLost'
  <1>1. RaceTypeOK /\ BookShape /\ JobShape /\ DropsItsOwn /\ NoneLost /\ RaceShape
    BY DEF Unlost, RaceShape
  <1>2. /\ UNCHANGED <<rows, book, cur>>
        /\ \A j \in Jobs : todo'[j] \subseteq todo[j] \/ (todo'[j] = Listed /\ cur[j] = None)
        /\ pc'["cycle"] \in Entering => pc["cycle"] \in Entering \/ BeginCycle
    BY <1>1, BetweenLists
  <1>3. NoneLost'
    BY <1>1, <1>2 DEF NoneLost, OpenIds, Ids
  <1>4. DropsItsOwn'
    <2> SUFFICES ASSUME NEW j \in Jobs
                 PROVE  /\ cur[j] \notin todo'[j]
                        /\ \A i \in todo'[j] \cup ({cur[j]} \ {None}) :
                              /\ rows[i].symbol \in DOMAIN book => book[rows[i].symbol] = i
                              /\ pc'["cycle"] \in Entering => rows[i].symbol \in DOMAIN book
      BY <1>2 DEF DropsItsOwn, Listing
    <2>1. cur[j] \notin todo'[j]
      <3>1. None \notin Listed
        BY <1>1, ListedAreIds, RaceAssumption DEF Ids
      <3> QED BY <1>1, <1>2, <3>1 DEF DropsItsOwn
    <2>2. ASSUME NEW i \in todo'[j] \cup ({cur[j]} \ {None})
          PROVE  /\ rows[i].symbol \in DOMAIN book => book[rows[i].symbol] = i
                 /\ pc'["cycle"] \in Entering => rows[i].symbol \in DOMAIN book
      <3>1. CASE i \in Listed
        BY <1>1, <3>1, HeldUnderSymbol DEF Listed
      <3>2. CASE i \in Listing(j)
        <4>1. /\ rows[i].symbol \in DOMAIN book => book[rows[i].symbol] = i
              /\ pc["cycle"] \in Entering => rows[i].symbol \in DOMAIN book
          BY <1>1, <3>2 DEF DropsItsOwn
        <4>2. ~BeginCycle
          <5>1. SUFFICES ASSUME BeginCycle PROVE FALSE
            OBVIOUS
          <5>2. pc["cycle"] = "idle" /\ pc["flatten"] = "idle"
            BY <5>1 DEF BeginCycle
          <5>3. pc[j] = "idle"
            BY <5>2 DEF Jobs
          <5>4. todo[j] = {} /\ cur[j] = None
            BY <1>1, <5>3 DEF JobShape, Selling
          <5> QED BY <3>2, <5>4 DEF Listing
        <4> QED BY <1>2, <4>1, <4>2
      <3> QED BY <1>2, <3>1, <3>2 DEF Listing
    <2> QED BY <2>1, <2>2
  <1> QED BY <1>3, <1>4

\* Neither does a fill: it moves a listed position into the hand.
LEMMA FillingLosesNothing ==
    ASSUME Unlost, NEW j \in Jobs, NEW i \in todo[j], Filling(j, i)
    PROVE  DropsItsOwn' /\ NoneLost'
  <1>1. RaceTypeOK /\ JobShape /\ DropsItsOwn /\ NoneLost /\ RaceShape
    BY DEF Unlost, RaceShape
  <1>2. /\ i \in Ids /\ Len(rows') = Len(rows)
        /\ \A k \in Ids : rows'[k].symbol = rows[k].symbol /\ rows'[k].status = rows[k].status
        /\ book' = book
        /\ todo'[j] = todo[j] \ {i} /\ cur'[j] = i
        /\ \A k \in Jobs : k # j => todo'[k] = todo[k] /\ cur'[k] = cur[k]
        /\ pc'[j] \in {"exit", "sold"} /\ \A k \in Jobs : k # j => pc'[k] = pc[k]
    BY <1>1, FillingEffect
  <1>3. NoneLost'
    BY <1>1, <1>2 DEF NoneLost, OpenIds, Ids
  <1>4. DropsItsOwn'
    <2> SUFFICES ASSUME NEW k \in Jobs
                 PROVE  /\ cur'[k] \notin todo'[k]
                        /\ \A l \in Listing(k)' :
                              /\ rows'[l].symbol \in DOMAIN book => book[rows'[l].symbol] = l
                              /\ pc'["cycle"] \in Entering => rows'[l].symbol \in DOMAIN book
      BY <1>2 DEF DropsItsOwn
    <2>1. cur'[k] \notin todo'[k] /\ Listing(k)' \subseteq Listing(k)
      BY <1>1, <1>2 DEF DropsItsOwn, Listing
    <2>2. Listing(k) \subseteq Ids
      BY <1>1 DEF Listing, JobShape
    <2>3. pc'["cycle"] \in Entering => pc["cycle"] \in Entering
      BY <1>2 DEF Entering, Jobs
    <2> QED BY <1>1, <1>2, <2>1, <2>2, <2>3 DEF DropsItsOwn
  <1> QED BY <1>3, <1>4

\* Nor does closing the row in hand.
LEMMA CommitExitLosesNothing ==
    ASSUME Unlost, NEW j \in Jobs, CommitExit(j)
    PROVE  DropsItsOwn' /\ NoneLost'
  <1>1. RaceTypeOK /\ JobShape /\ DropsItsOwn /\ NoneLost /\ RaceShape
    BY DEF Unlost, RaceShape
  <1>2. /\ cur[j] \in Ids /\ Len(rows') = Len(rows)
        /\ rows'[cur[j]].status = "CLOSED"
        /\ \A k \in Ids : rows'[k].symbol = rows[k].symbol /\ (k # cur[j] => rows'[k] = rows[k])
        /\ UNCHANGED <<book, todo, cur>>
        /\ pc'[j] \in {"pop", "drop"} /\ \A k \in Jobs : k # j => pc'[k] = pc[k]
    BY <1>1, CommitExitEffect
  <1>3. NoneLost'
    BY <1>1, <1>2 DEF NoneLost, OpenIds, Ids
  <1>4. pc'["cycle"] \in Entering => pc["cycle"] \in Entering
    BY <1>2 DEF Entering, Jobs
  <1>5. \A k \in Jobs : Listing(k) \subseteq Ids /\ Listing(k)' = Listing(k)
    BY <1>1, <1>2 DEF Listing, JobShape
  <1>6. DropsItsOwn'
    BY <1>1, <1>2, <1>4, <1>5 DEF DropsItsOwn
  <1> QED BY <1>3, <1>6

\* An entry is dropped for the position that held it, or for one that no longer did.
LEMMA DropEntryLosesNothing ==
    ASSUME Unlost, NEW j \in Jobs, DropEntry(j)
    PROVE  DropsItsOwn' /\ NoneLost'
  <1>1. RaceTypeOK /\ BookShape /\ JobShape /\ DropsItsOwn /\ NoneLost /\ RaceShape
    BY DEF Unlost, RaceShape
  <1> DEFINE own == cur[j]
             mine == rows[own].symbol
  <1>2. /\ own \in Ids /\ pc[j] \in {"pop", "drop"} /\ rows[own].status = "CLOSED"
        /\ DOMAIN book' = DOMAIN book \ {mine}
        /\ \A s \in DOMAIN book' : book'[s] = book[s]
        /\ cur'[j] = None /\ \A k \in Jobs : k # j => cur'[k] = cur[k]
        /\ UNCHANGED <<rows, todo>>
        /\ pc'[j] \in {"manage", "sweep"} /\ \A k \in Jobs : k # j => pc'[k] = pc[k]
    BY <1>1, DropEntryEffect
  <1>3. own \in Listing(j)
    BY <1>2, RaceAssumption DEF Listing, Ids
  <1>4. mine \in DOMAIN book => book[mine] = own
    BY <1>1, <1>3 DEF DropsItsOwn
  <1>5. NoneLost'
    <2> SUFFICES ASSUME NEW i \in OpenIds PROVE i \in Range(book')
      BY <1>2 DEF NoneLost, OpenIds, Ids
    <2>1. i \in Ids /\ rows[i].status = "OPEN" /\ i # own
      BY <1>2 DEF OpenIds
    <2>2. rows[i].symbol \in DOMAIN book /\ book[rows[i].symbol] = i
      BY <1>1, HeldUnderSymbol DEF NoneLost
    <2>3. rows[i].symbol # mine
      BY <1>4, <2>1, <2>2
    <2> QED BY <1>2, <2>2, <2>3 DEF Range
  <1>6. DropsItsOwn'
    <2> SUFFICES ASSUME NEW k \in Jobs
                 PROVE  /\ cur'[k] \notin todo[k]
                        /\ \A i \in Listing(k)' :
                              /\ rows[i].symbol \in DOMAIN book' => book'[rows[i].symbol] = i
                              /\ pc'["cycle"] \in Entering => rows[i].symbol \in DOMAIN book'
      BY <1>2 DEF DropsItsOwn
    <2>1. cur'[k] \notin todo[k]
      BY <1>1, <1>2, RaceAssumption DEF DropsItsOwn, RaceTypeOK
    <2>2. ASSUME NEW i \in Listing(k)'
          PROVE  /\ rows[i].symbol \in DOMAIN book' => book'[rows[i].symbol] = i
                 /\ pc'["cycle"] \in Entering => rows[i].symbol \in DOMAIN book'
      <3>1. i \in Listing(k)
        BY <1>2 DEF Listing
      <3>2. /\ rows[i].symbol \in DOMAIN book => book[rows[i].symbol] = i
            /\ pc["cycle"] \in Entering => rows[i].symbol \in DOMAIN book
        BY <1>1, <3>1 DEF DropsItsOwn
      <3>3. ASSUME pc'["cycle"] \in Entering PROVE rows[i].symbol \in DOMAIN book'
        <4>1. j # "cycle" /\ pc["cycle"] \in Entering
          BY <1>2, <3>3 DEF Entering, Jobs
        <4>2. k # "cycle"
          <5>1. pc["cycle"] \notin {"manage", "sweep"} \cup Selling /\ "cycle" \in Jobs
            BY <4>1 DEF Entering, Selling, Jobs
          <5>2. todo["cycle"] = {} /\ cur["cycle"] = None
            BY <1>1, <5>1 DEF JobShape
          <5> QED BY <3>1, <5>2 DEF Listing
        <4>3. k = j
          BY <4>1, <4>2 DEF Jobs
        <4>4. i \in todo[j] /\ i # own
          BY <1>1, <1>2, <4>3 DEF Listing, DropsItsOwn
        <4>5. rows[i].symbol # mine
          BY <1>4, <3>2, <4>1, <4>4
        <4> QED BY <1>2, <3>2, <4>1, <4>5
      <3> QED BY <1>2, <3>2, <3>3
    <2> QED BY <2>1, <2>2
  <1> QED BY <1>5, <1>6

\* An entry takes a symbol that no listed position may still drop.
LEMMA OpenFromSignalLosesNothing ==
    ASSUME Unlost, NEW s \in Symbols, OpenFromSignal(s)
    PROVE  DropsItsOwn' /\ NoneLost'
  <1>1. RaceTypeOK /\ BookShape /\ JobShape /\ DropsItsOwn /\ NoneLost /\ RaceShape
        /\ Len(rows) \in Nat
    BY DEF Unlost, RaceShape, RaceTypeOK
  <1>2. /\ s \notin DOMAIN book /\ pc["cycle"] = "rank"
        /\ Len(rows') = Len(rows) + 1
        /\ \A k \in Ids : rows'[k] = rows[k]
        /\ DOMAIN book' = DOMAIN book \cup {s}
        /\ book'[s] = Len(rows) + 1
        /\ \A t \in DOMAIN book : book'[t] = book[t]
        /\ UNCHANGED <<todo, cur>>
    BY <1>1, OpenFromSignalEffect
  <1>3. NoneLost'
    <2> SUFFICES ASSUME NEW i \in OpenIds' PROVE i \in Range(book')
      BY DEF NoneLost
    <2>1. i \in Ids \/ i = Len(rows) + 1
      BY <1>1, <1>2 DEF OpenIds, Ids
    <2>2. CASE i \in Ids
      <3>1. i \in OpenIds
        BY <1>2, <2>2 DEF OpenIds
      <3>2. i \in Range(book)
        BY <1>1, <3>1 DEF NoneLost
      <3> QED BY <1>2, <3>2 DEF Range
    <2>3. CASE i = Len(rows) + 1
      BY <1>2, <2>3 DEF Range
    <2> QED BY <2>1, <2>2, <2>3
  <1>4. DropsItsOwn'
    <2> SUFFICES ASSUME NEW j \in Jobs, NEW i \in Listing(j)
                 PROVE  /\ rows'[i].symbol \in DOMAIN book' => book'[rows'[i].symbol] = i
                        /\ rows'[i].symbol \in DOMAIN book'
      BY <1>1, <1>2 DEF DropsItsOwn, Listing
    <2>1. rows'[i].symbol = rows[i].symbol
      BY <1>1, <1>2 DEF Listing, JobShape
    <2>2. rows[i].symbol \in DOMAIN book /\ book[rows[i].symbol] = i
      BY <1>1, <1>2 DEF DropsItsOwn, Entering
    <2> QED BY <1>2, <2>1, <2>2
  <1> QED BY <1>3, <1>4

\* Every step keeps the invariant, as long as no cycle begins during the flatten.
LEMMA UnlostStep ==
    ASSUME Unlost, [RaceNext]_raceVars, ~lateCycle' PROVE Unlost'
  <1>1. RaceShape'
    BY RaceShapeStep DEF Unlost
  <1>2. DropsItsOwn' /\ NoneLost'
    <2>1. CASE UNCHANGED raceVars
      BY <2>1 DEF raceVars, Unlost, DropsItsOwn, NoneLost, Listing, OpenIds, Ids
    <2>2. CASE RaceNext
      <3>1. CASE Between
        BY <3>1, BetweenLosesNothing
      <3>2. CASE \E j \in Jobs : CommitExit(j) \/ DropEntry(j)
        BY <3>2, CommitExitLosesNothing, DropEntryLosesNothing
      <3>3. CASE \E j \in Jobs : \E i \in todo[j] : Filling(j, i)
        BY <3>3, FillingLosesNothing
      <3>4. CASE \E s \in Symbols : OpenFromSignal(s)
        BY <3>4, OpenFromSignalLosesNothing
      <3> QED BY <2>2, <3>1, <3>2, <3>3, <3>4, StepKinds
    <2> QED BY <2>1, <2>2
  <1> QED BY <1>1, <1>2 DEF Unlost

\* Once a cycle has begun during the flatten, it has.
LEMMA LateCycleStays ==
    ASSUME RaceShape, [RaceNext]_raceVars PROVE lateCycle => lateCycle'
  <1>1. CASE UNCHANGED raceVars
    BY <1>1 DEF raceVars
  <1>2. CASE Between
    BY <1>2 DEF Between, WalkRaises, ListAll, SweepDone, BeginFlatten, EndFlatten,
                BeginCycle, Guard, RankNext, Latch, BeginManage, EndManage, EndCycle,
                SkipSignal, KeepPosition
  <1>3. CASE \E j \in Jobs : CommitExit(j) \/ DropEntry(j)
    BY <1>3 DEF CommitExit, DropEntry
  <1>4. CASE \E j \in Jobs : \E i \in todo[j] : Filling(j, i)
    BY <1>4 DEF Filling, SweepNext, ExitPosition
  <1>5. CASE \E s \in Symbols : OpenFromSignal(s)
    BY <1>5 DEF OpenFromSignal
  <1> QED BY <1>1, <1>2, <1>3, <1>4, <1>5, StepKinds

\* What is listed, in hand or held is a row, and none is the absent one.
LEMMA ListingsAreIds ==
    ASSUME RaceShape
    PROVE  /\ \A j \in Jobs : Listing(j) \subseteq Ids
           /\ \A j \in Jobs, i \in Ids : cur[j] = i => i \in Listing(j)
           /\ Range(book) \subseteq Ids
           /\ None \notin Ids /\ Ids \subseteq Nat
           /\ \A i \in Ids : rows[i].exits \in Nat
           /\ "cycle" \in Jobs /\ "flatten" \in Jobs
  <1>1. RaceTypeOK /\ BookShape /\ JobShape
    BY DEF RaceShape
  <1>2. None \notin Ids /\ Ids \subseteq Nat
    BY RaceAssumption DEF Ids
  <1>3. \A i \in Ids : rows[i].exits \in Nat
    <2>1. \A i \in Ids : rows[i] \in RaceRow
      BY <1>1 DEF RaceTypeOK, Ids
    <2> QED BY <2>1 DEF RaceRow
  <1>4. \A j \in Jobs : Listing(j) \subseteq Ids
    BY <1>1 DEF JobShape, Listing
  <1>5. Range(book) \subseteq Ids
    BY <1>1, ListedAreIds DEF Listed
  <1> QED BY <1>2, <1>3, <1>4, <1>5 DEF Listing, Jobs

\* A step that changes no row and no entry, and lists nothing but the dict, keeps
\* what is known of the lists.
LEMMA BetweenKeepsLists ==
    ASSUME LossInv, Between PROVE Lists' /\ Sales' /\ LostForCause'
  <1>1. RaceShape /\ BookShape /\ Lists /\ Sales /\ LostForCause
    BY DEF LossInv, RaceShape
  <1>2. /\ UNCHANGED <<rows, book, cur>> /\ Ids' = Ids /\ OpenIds' = OpenIds
        /\ \A j \in Jobs : todo'[j] \subseteq todo[j] \/ (todo'[j] = Listed /\ cur[j] = None)
    BY <1>1, BetweenLists DEF Ids, OpenIds
  <1>3. /\ Listed \subseteq Ids /\ None \notin Ids /\ Ids \subseteq Nat
        /\ "cycle" \in Jobs /\ "flatten" \in Jobs
    BY <1>1, ListingsAreIds, ListedAreIds
  <1>4. \A i \in Listed : rows[i].symbol \in DOMAIN book /\ book[rows[i].symbol] = i
    BY <1>1, HeldUnderSymbol DEF Listed
  <1>5. \A j \in Jobs : Listing(j)' \subseteq Listing(j) \/ Listing(j)' = Listed
    BY <1>2 DEF Listing
  <1>6. Lists'
    <2>1. \A j \in Jobs : cur[j] \notin todo'[j]
      BY <1>1, <1>2, <1>3 DEF Lists
    <2>2. \A i \in Listing("cycle")' :
             rows[i].symbol \in DOMAIN book => book[rows[i].symbol] = i
      BY <1>1, <1>3, <1>4, <1>5 DEF Lists
    <2>3. \A i, k \in Listing("flatten")' : rows[i].symbol = rows[k].symbol => i = k
      BY <1>1, <1>3, <1>4, <1>5 DEF Lists
    <2>4. \A i \in Listing("flatten")' :
             rows[i].symbol \in DOMAIN book => book[rows[i].symbol] >= i
      <3>1. ASSUME NEW i \in Listed PROVE book[rows[i].symbol] >= i
        <4>1. i \in Nat /\ book[rows[i].symbol] = i
          BY <1>3, <1>4
        <4> QED BY <4>1
      <3> QED BY <1>1, <1>3, <1>5, <3>1 DEF Lists
    <2> QED BY <1>2, <2>1, <2>2, <2>3, <2>4 DEF Lists
  <1>7. Sales'
    <2>1. Listing("flatten")' \ Range(book) \subseteq Listing("flatten") \ Range(book)
      BY <1>3, <1>5 DEF Listed
    <2> QED BY <1>1, <1>2, <2>1 DEF Sales
  <1>8. lateCycle => lateCycle'
    <2>1. RaceNext
      BY DEF Between, RaceNext, Cycle, Exit
    <2> QED BY <1>1, <2>1, LateCycleStays
  <1> QED BY <1>1, <1>2, <1>6, <1>7, <1>8 DEF LostForCause

\* A fill takes a listed position in hand and counts one more sale of it.
LEMMA FillingKeepsLists ==
    ASSUME LossInv, NEW j \in Jobs, NEW own \in todo[j], Filling(j, own)
    PROVE  Lists' /\ Sales' /\ LostForCause'
  <1>1. RaceShape /\ Lists /\ Sales /\ LostForCause
    BY DEF LossInv
  <1>2. /\ own \in Ids /\ cur[j] = None /\ Len(rows') = Len(rows)
        /\ rows'[own].symbol = rows[own].symbol /\ rows'[own].status = rows[own].status
        /\ rows'[own].exits = rows[own].exits + 1
        /\ \A k \in Ids : k # own => rows'[k] = rows[k]
        /\ book' = book
        /\ todo'[j] = todo[j] \ {own} /\ cur'[j] = own
        /\ \A k \in Jobs : k # j => todo'[k] = todo[k] /\ cur'[k] = cur[k]
        /\ lateCycle' = lateCycle
    BY <1>1, FillingEffect
  <1>3. /\ \A k \in Jobs : Listing(k) \subseteq Ids
        /\ None \notin Ids /\ "cycle" \in Jobs /\ "flatten" \in Jobs
        /\ \A i \in Ids : rows[i].exits \in Nat
    BY <1>1, ListingsAreIds
  <1>4. /\ Ids' = Ids
        /\ \A k \in Ids : rows'[k].symbol = rows[k].symbol /\ rows'[k].status = rows[k].status
        /\ \A k \in Ids : rows'[k].exits \in Nat /\ rows'[k].exits >= rows[k].exits
    <2>1. Ids' = Ids
      BY <1>2 DEF Ids
    <2>2. ASSUME NEW k \in Ids
          PROVE  rows'[k].symbol = rows[k].symbol /\ rows'[k].status = rows[k].status
      BY <1>2
    <2>3. ASSUME NEW k \in Ids
          PROVE  rows'[k].exits \in Nat /\ rows'[k].exits >= rows[k].exits
      <3>1. rows[k].exits \in Nat
        BY <1>3
      <3>2. rows'[k].exits = rows[k].exits \/ rows'[k].exits = rows[k].exits + 1
        BY <1>2
      <3> QED BY <3>1, <3>2
    <2> QED BY <2>1, <2>2, <2>3
  <1>5. \A k \in Jobs : Listing(k)' \subseteq Listing(k)
    BY <1>2 DEF Listing
  <1>6. Lists'
    <2>1. \A k \in Jobs : cur'[k] \notin todo'[k]
      BY <1>1, <1>2 DEF Lists
    <2>2. \A k \in Jobs : \A i \in Listing(k)' :
             i \in Listing(k) /\ rows'[i].symbol = rows[i].symbol
      BY <1>3, <1>4, <1>5
    <2>3. \A i \in Listing("cycle")' :
             rows'[i].symbol \in DOMAIN book => book[rows'[i].symbol] = i
      BY <1>1, <1>3, <2>2 DEF Lists
    <2>4. \A i, k \in Listing("flatten")' : rows'[i].symbol = rows'[k].symbol => i = k
      BY <1>1, <1>3, <2>2 DEF Lists
    <2>5. \A i \in Listing("flatten")' :
             rows'[i].symbol \in DOMAIN book => book[rows'[i].symbol] >= i
      BY <1>1, <1>3, <2>2 DEF Lists
    <2> QED BY <1>2, <2>1, <2>3, <2>4, <2>5 DEF Lists
  <1>7. Sales'
    <2>1. ASSUME NEW k \in Jobs, NEW i \in Ids, cur'[k] = i PROVE rows'[i].exits >= 1
      <3>1. CASE k = j
        BY <1>2, <1>3, <2>1, <3>1
      <3>2. CASE k # j
        BY <1>1, <1>2, <1>3, <1>4, <2>1, <3>2 DEF Sales
      <3> QED BY <3>1, <3>2
    <2>2. ASSUME NEW i \in Ids, \A k \in Jobs : cur'[k] = i PROVE rows'[i].exits >= 2
      <3>1. i = own
        BY <1>2, <2>2
      <3>2. PICK k \in Jobs : k # j
        BY DEF Jobs
      <3>3. rows[i].exits >= 1
        BY <1>1, <1>2, <2>2, <3>2 DEF Sales
      <3> QED BY <1>2, <1>3, <3>1, <3>3
    <2>3. ASSUME NEW i \in Listing("flatten")' \ Range(book)
          PROVE  rows'[i].exits >= (IF cur'["flatten"] = i THEN 2 ELSE 1)
      <3>1. i \in Listing("flatten") \ Range(book) /\ i \in Ids
        BY <1>3, <1>5, <2>3
      <3>2. /\ rows[i].exits >= (IF cur["flatten"] = i THEN 2 ELSE 1)
            /\ rows[i].exits \in Nat /\ rows'[i].exits \in Nat
            /\ rows'[i].exits >= rows[i].exits
        BY <1>1, <1>3, <1>4, <3>1 DEF Sales
      <3>3. CASE j = "flatten" /\ i = own
        BY <1>2, <3>2, <3>3
      <3>4. CASE j # "flatten" \/ i # own
        <4>1. cur'["flatten"] = i => cur["flatten"] = i
          BY <1>2, <1>3, <3>4
        <4> QED BY <3>2, <4>1
      <3> QED BY <3>3, <3>4
    <2> QED BY <1>2, <1>4, <2>1, <2>2, <2>3 DEF Sales
  <1>8. LostForCause'
    <2> SUFFICES ASSUME NEW i \in OpenIds' \ Range(book')
                 PROVE  /\ lateCycle'
                        /\ \E k \in Ids' : /\ k < i /\ rows'[k].symbol = rows'[i].symbol
                                           /\ rows'[k].exits > 1
      BY DEF LostForCause
    <2>1. i \in OpenIds \ Range(book) /\ i \in Ids
      BY <1>2, <1>4 DEF OpenIds
    <2>2. PICK k \in Ids : lateCycle /\ k < i /\ rows[k].symbol = rows[i].symbol
                           /\ rows[k].exits > 1
      BY <1>1, <2>1 DEF LostForCause
    <2>3. rows'[k].exits > 1
      BY <1>3, <1>4, <2>2
    <2> QED BY <1>2, <1>4, <2>1, <2>2, <2>3
  <1> QED BY <1>6, <1>7, <1>8

\* Closing the row in hand changes no list and no count.
LEMMA CommitExitKeepsLists ==
    ASSUME LossInv, NEW j \in Jobs, CommitExit(j)
    PROVE  Lists' /\ Sales' /\ LostForCause'
  <1>1. RaceShape /\ Lists /\ Sales /\ LostForCause
    BY DEF LossInv
  <1>2. /\ cur[j] \in Ids /\ Len(rows') = Len(rows) /\ rows'[cur[j]].status = "CLOSED"
        /\ \A k \in Ids : /\ rows'[k].symbol = rows[k].symbol
                          /\ rows'[k].exits = rows[k].exits
                          /\ k # cur[j] => rows'[k] = rows[k]
        /\ UNCHANGED <<book, todo, cur, lateCycle>>
    BY <1>1, CommitExitEffect
  <1>3. /\ \A k \in Jobs : Listing(k) \subseteq Ids /\ Listing(k)' = Listing(k)
        /\ "cycle" \in Jobs /\ "flatten" \in Jobs
    BY <1>1, <1>2, ListingsAreIds DEF Listing
  <1>4. Ids' = Ids /\ OpenIds' \subseteq OpenIds /\ OpenIds \subseteq Ids
    BY <1>2 DEF Ids, OpenIds
  <1>5. Lists'
    BY <1>1, <1>2, <1>3 DEF Lists
  <1>6. Sales'
    BY <1>1, <1>2, <1>3, <1>4 DEF Sales
  <1>7. LostForCause'
    BY <1>1, <1>2, <1>4 DEF LostForCause
  <1> QED BY <1>5, <1>6, <1>7

\* The one step that loses a position: the flatten drops a symbol that a later
\* position is held under.
LEMMA DropEntryKeepsLists ==
    ASSUME LossInv, NEW j \in Jobs, DropEntry(j)
    PROVE  Lists' /\ Sales' /\ LostForCause'
  <1>1. /\ RaceShape /\ BookShape /\ Lists /\ Sales /\ LostForCause
        /\ ~lateCycle => DropsItsOwn
    BY DEF LossInv, RaceShape
  <1> DEFINE own == cur[j]
             mine == rows[own].symbol
  <1>2. /\ own \in Ids /\ rows[own].status = "CLOSED"
        /\ DOMAIN book' = DOMAIN book \ {mine}
        /\ \A s \in DOMAIN book' : book'[s] = book[s]
        /\ cur'[j] = None /\ \A k \in Jobs : k # j => cur'[k] = cur[k]
        /\ UNCHANGED <<rows, todo, lateCycle>>
    BY <1>1, DropEntryEffect
  <1>3. /\ \A k \in Jobs : Listing(k) \subseteq Ids
        /\ own \in Listing(j) /\ None \notin Ids /\ Ids \subseteq Nat
        /\ "cycle" \in Jobs /\ "flatten" \in Jobs
        /\ \A i \in Ids : rows[i].exits \in Nat
    BY <1>1, <1>2, ListingsAreIds
  <1>4. Ids' = Ids /\ OpenIds' = OpenIds /\ \A k \in Jobs : Listing(k)' \subseteq Listing(k)
    BY <1>2 DEF Ids, OpenIds, Listing
  <1>5. ASSUME NEW i, i \in Range(book), i \notin Range(book')
        PROVE  rows[i].symbol = mine /\ mine \in DOMAIN book /\ book[mine] = i
    <2>1. rows[i].symbol \in DOMAIN book /\ book[rows[i].symbol] = i
      BY <1>1, <1>5, HeldUnderSymbol
    <2>2. rows[i].symbol \notin DOMAIN book'
      BY <1>2, <1>5, <2>1 DEF Range
    <2> QED BY <1>2, <2>1, <2>2
  <1>6. j = "cycle" /\ mine \in DOMAIN book => book[mine] = own
    BY <1>1, <1>3 DEF Lists
  <1>7. Lists'
    <2>1. \A k \in Jobs : cur'[k] \notin todo[k]
      <3>1. \A k \in Jobs : None \notin todo[k]
        BY <1>3 DEF Listing
      <3> QED BY <1>1, <1>2, <3>1 DEF Lists
    <2>2. \A k \in Jobs : \A i \in Listing(k)' : i \in Listing(k)
      BY <1>4
    <2> QED BY <1>1, <1>2, <1>3, <2>1, <2>2 DEF Lists
  <1>8. Sales'
    <2>1. \A k \in Jobs, i \in Ids : cur'[k] = i => cur[k] = i
      BY <1>2, <1>3
    <2>2. ASSUME NEW i \in Listing("flatten")' \ Range(book')
          PROVE  rows[i].exits >= (IF cur'["flatten"] = i THEN 2 ELSE 1)
      <3>1. i \in Listing("flatten") /\ i \in Ids
        BY <1>3, <1>4, <2>2
      <3>2. cur'["flatten"] = i => cur["flatten"] = i
        BY <1>3, <2>1, <3>1
      <3>3. CASE i \notin Range(book)
        <4>1. rows[i].exits >= (IF cur["flatten"] = i THEN 2 ELSE 1)
          BY <1>1, <3>1, <3>3 DEF Sales
        <4> QED BY <1>3, <3>1, <3>2, <4>1
      <3>4. CASE i \in Range(book)
        <4>1. rows[i].symbol = mine /\ mine \in DOMAIN book /\ book[mine] = i
          BY <1>5, <2>2, <3>4
        <4>2. CASE j = "cycle"
          <5>1. cur["cycle"] = i
            BY <1>6, <4>1, <4>2
          <5>2. rows[i].exits >= 1
            BY <1>1, <1>3, <3>1, <5>1 DEF Sales
          <5>3. cur["flatten"] = i => rows[i].exits >= 2
            BY <1>1, <3>1, <5>1 DEF Sales, Jobs
          <5> QED BY <3>2, <5>2, <5>3
        <4>3. CASE j = "flatten"
          <5>1. i = own
            BY <1>1, <1>3, <3>1, <4>1, <4>3 DEF Lists
          <5>2. i \in todo["flatten"]
            BY <1>2, <2>2, <4>3 DEF Listing
          <5> QED BY <1>1, <1>3, <4>3, <5>1, <5>2 DEF Lists
        <4> QED BY <4>2, <4>3 DEF Jobs
      <3> QED BY <3>3, <3>4
    <2>3. \A i \in Ids : (\A k \in Jobs : cur'[k] = i) => (\A k \in Jobs : cur[k] = i)
      BY <2>1
    <2> QED BY <1>1, <1>2, <1>4, <2>1, <2>2, <2>3 DEF Sales
  <1>9. LostForCause'
    <2> SUFFICES ASSUME NEW i \in OpenIds \ Range(book')
                 PROVE  /\ lateCycle
                        /\ \E k \in Ids : /\ k < i /\ rows[k].symbol = rows[i].symbol
                                          /\ rows[k].exits > 1
      BY <1>2, <1>4 DEF LostForCause
    <2>1. i \in Ids /\ i # own
      BY <1>2 DEF OpenIds
    <2>2. CASE i \notin Range(book)
      BY <1>1, <2>2 DEF LostForCause
    <2>3. CASE i \in Range(book)
      <3>1. rows[i].symbol = mine /\ mine \in DOMAIN book /\ book[mine] = i
        BY <1>5, <2>3
      <3>2. j = "flatten"
        BY <1>6, <2>1, <3>1 DEF Jobs
      <3>3. lateCycle
        BY <1>1, <1>3, <2>1, <3>1 DEF DropsItsOwn
      <3>4. own < i
        <4>1. own \in Listing("flatten")
          BY <1>3, <3>2
        <4>2. book[mine] >= own
          BY <1>1, <3>1, <4>1 DEF Lists
        <4>3. own \in Nat /\ i \in Nat /\ i >= own /\ i # own
          BY <1>2, <1>3, <2>1, <3>1, <4>2
        <4> QED BY <4>3
      <3>5. own \notin Range(book)
        BY <1>1, <2>1, <3>1, HeldUnderSymbol
      <3>6. rows[own].exits > 1
        <4>1. own \in Listing("flatten") \ Range(book) /\ cur["flatten"] = own
          BY <1>3, <3>2, <3>5
        <4>2. rows[own].exits >= 2
          BY <1>1, <4>1 DEF Sales
        <4> HIDE DEF own
        <4> QED BY <1>2, <1>3, <4>2
      <3> QED BY <1>2, <3>1, <3>3, <3>4, <3>6
    <2> QED BY <2>2, <2>3
  <1> QED BY <1>7, <1>8, <1>9

\* An entry is later than everything that is listed.
LEMMA OpenFromSignalKeepsLists ==
    ASSUME LossInv, NEW s \in Symbols, OpenFromSignal(s)
    PROVE  Lists' /\ Sales' /\ LostForCause'
  <1>1. RaceShape /\ JobShape /\ Lists /\ Sales /\ LostForCause /\ Len(rows) \in Nat
    BY DEF LossInv, RaceShape, RaceTypeOK
  <1> DEFINE new == Len(rows) + 1
  <1>2. /\ s \notin DOMAIN book /\ pc["cycle"] = "rank"
        /\ Len(rows') = new
        /\ \A k \in Ids : rows'[k] = rows[k]
        /\ DOMAIN book' = DOMAIN book \cup {s} /\ book'[s] = new
        /\ \A t \in DOMAIN book : book'[t] = book[t]
        /\ UNCHANGED <<todo, cur, lateCycle>>
    BY <1>1, OpenFromSignalEffect
  <1>3. /\ \A k \in Jobs : Listing(k) \subseteq Ids /\ Listing(k)' = Listing(k)
        /\ \A k \in Jobs, i \in Ids : cur[k] = i => i \in Listing(k)
        /\ "cycle" \in Jobs /\ "flatten" \in Jobs
    BY <1>1, <1>2, ListingsAreIds DEF Listing
  <1>4. /\ \A i \in Ids : i \in Nat /\ i <= Len(rows) /\ i # new
        /\ Ids' = Ids \cup {new} /\ new \notin Ids
    BY <1>1, <1>2 DEF Ids
  <1>5. Range(book) \subseteq Range(book') /\ new \in Range(book')
    BY <1>2 DEF Range
  <1>6. \A k \in Jobs : cur[k] # new
    <2>1. new # None
      BY <1>1, RaceAssumption
    <2> QED BY <1>1, <1>4, <2>1 DEF JobShape
  <1> HIDE DEF new
  <1>7. Lists'
    <2>1. Listing("cycle") = {}
      <3>1. todo["cycle"] = {} /\ cur["cycle"] = None
        BY <1>1, <1>2, <1>3 DEF JobShape, Selling
      <3> QED BY <3>1 DEF Listing
    <2>2. ASSUME NEW i \in Listing("flatten"), rows'[i].symbol \in DOMAIN book'
          PROVE  book'[rows'[i].symbol] >= i
      <3>1. i \in Ids /\ rows'[i] = rows[i]
        BY <1>2, <1>3
      <3>2. CASE rows[i].symbol = s
        BY <1>1, <1>2, <1>4, <3>1, <3>2 DEF new
      <3>3. CASE rows[i].symbol # s
        BY <1>1, <1>2, <2>2, <3>1, <3>3 DEF Lists
      <3> QED BY <3>2, <3>3
    <2> QED BY <1>1, <1>2, <1>3, <2>1, <2>2 DEF Lists
  <1>8. Sales'
    <2>1. \A i \in Ids' : (\E k \in Jobs : cur[k] = i) => i \in Ids
      BY <1>4, <1>6
    <2>2. \A i \in Listing("flatten") \ Range(book') :
             i \in Listing("flatten") \ Range(book) /\ i \in Ids
      BY <1>3, <1>5
    <2> QED BY <1>1, <1>2, <1>3, <2>1, <2>2 DEF Sales
  <1>9. LostForCause'
    <2> SUFFICES ASSUME NEW i \in OpenIds' \ Range(book')
                 PROVE  /\ lateCycle'
                        /\ \E k \in Ids' : /\ k < i /\ rows'[k].symbol = rows'[i].symbol
                                           /\ rows'[k].exits > 1
      BY DEF LostForCause
    <2>1. i \in Ids
      BY <1>4, <1>5 DEF OpenIds
    <2>2. i \in OpenIds \ Range(book)
      BY <1>2, <1>5, <2>1 DEF OpenIds
    <2> QED BY <1>1, <1>2, <1>4, <2>1, <2>2 DEF LostForCause
  <1> QED BY <1>7, <1>8, <1>9

\* Every step keeps the invariant, whatever begins when.
LEMMA LossStep ==
    ASSUME LossInv, [RaceNext]_raceVars PROVE LossInv'
  <1>1. RaceShape'
    BY RaceShapeStep DEF LossInv
  <1>2. ~lateCycle' => DropsItsOwn' /\ NoneLost'
    <2> SUFFICES ASSUME ~lateCycle' PROVE DropsItsOwn' /\ NoneLost'
      OBVIOUS
    <2>1. ~lateCycle
      BY LateCycleStays DEF LossInv
    <2>2. Unlost
      BY <2>1 DEF LossInv, Unlost
    <2> QED BY <2>2, UnlostStep DEF Unlost
  <1>3. Lists' /\ Sales' /\ LostForCause'
    <2>1. CASE UNCHANGED raceVars
      BY <2>1 DEF raceVars, LossInv, Lists, Sales, LostForCause, Listing, OpenIds, Ids
    <2>2. CASE RaceNext
      <3>1. CASE Between
        BY <3>1, BetweenKeepsLists
      <3>2. CASE \E j \in Jobs : CommitExit(j) \/ DropEntry(j)
        BY <3>2, CommitExitKeepsLists, DropEntryKeepsLists
      <3>3. CASE \E j \in Jobs : \E i \in todo[j] : Filling(j, i)
        BY <3>3, FillingKeepsLists
      <3>4. CASE \E s \in Symbols : OpenFromSignal(s)
        BY <3>4, OpenFromSignalKeepsLists
      <3> QED BY <2>2, <3>1, <3>2, <3>3, <3>4, StepKinds
    <2> QED BY <2>1, <2>2
  <1> QED BY <1>1, <1>2, <1>3 DEF LossInv

\* In every interleaving a position that drops out of the dict while its row is
\* open was opened by a cycle that began while the flatten ran, after both jobs had
\* sold an earlier position of its symbol (_close_position pops by symbol); but for
\* that the next cycle manages every open row.
THEOREM LossHasItsCause == RaceSpec => []LostForCause
  <1>1. RaceInit => LossInv
    <2> SUFFICES ASSUME RaceInit PROVE LossInv
      OBVIOUS
    <2>1. /\ rows = <<>> /\ Ids = {} /\ OpenIds = {}
          /\ \A j \in Jobs : cur[j] = None /\ todo[j] = {} /\ Listing(j) = {}
          /\ "cycle" \in Jobs /\ "flatten" \in Jobs
      BY DEF RaceInit, Ids, OpenIds, Listing, Jobs
    <2>2. DropsItsOwn /\ NoneLost /\ Lists /\ Sales /\ LostForCause
      BY <2>1 DEF DropsItsOwn, NoneLost, Lists, Sales, LostForCause
    <2> QED BY <2>2, RaceShapeInit DEF LossInv
  <1>2. LossInv /\ [RaceNext]_raceVars => LossInv'
    BY LossStep
  <1>3. LossInv => LostForCause
    BY DEF LossInv
  <1> QED BY <1>1, <1>2, <1>3, PTL DEF RaceSpec

-----------------------------------------------------------------------------
(* No position is sold twice by a job.                                     *)

\* The jobs that may no longer sell a position.
Spent(i) == {j \in Jobs : ~MaySell(j, i)}

\* Sets of jobs are finite and count no more than the jobs.
LEMMA JobSets ==
    ASSUME NEW S \in SUBSET Jobs
    PROVE  /\ IsFiniteSet(S) /\ Cardinality(S) \in Nat
           /\ Cardinality(S) <= Cardinality(Jobs)
           /\ \A j \in Jobs \ S : Cardinality(S \cup {j}) = Cardinality(S) + 1
           /\ \A T \in SUBSET S : Cardinality(T) <= Cardinality(S)
  <1>1. IsFiniteSet(Jobs)
    <2>1. Jobs = ({} \cup {"cycle"}) \cup {"flatten"}
      BY DEF Jobs
    <2> QED BY <2>1, FS_EmptySet, FS_AddElement
  <1>2. IsFiniteSet(S) /\ Cardinality(S) <= Cardinality(Jobs)
    BY <1>1, FS_Subset
  <1>3. \A j \in Jobs \ S : Cardinality(S \cup {j}) = Cardinality(S) + 1
    BY <1>2, FS_AddElement
  <1>4. \A T \in SUBSET S : Cardinality(T) <= Cardinality(S)
    BY <1>2, FS_Subset
  <1> QED BY <1>2, <1>3, <1>4, FS_CardinalityType

\* What the invariant says of a row.
LEMMA SoldForRow ==
    ASSUME RaceTypeOK, SoldFor, NEW i \in Ids
    PROVE  rows[i].exits <= Cardinality(Spent(i)) /\ rows[i].exits \in Nat
  <1>1. rows[i] \in RaceRow
    BY DEF RaceTypeOK, Ids
  <1>2. rows[i].exits <= Cardinality(Spent(i))
    BY Zenon DEF SoldFor, Spent
  <1> QED BY <1>1, <1>2 DEF RaceRow

\* A row that is not sold in a step stays within its bound if no job comes to be
\* able to sell it.
LEMMA StaysSpent ==
    ASSUME NEW i, rows[i].exits \in Nat, rows'[i].exits = rows[i].exits,
           rows[i].exits <= Cardinality(Spent(i)),
           \A j \in Jobs : MaySell(j, i)' => MaySell(j, i)
    PROVE  rows'[i].exits <= Cardinality(Spent(i)')
  <1>1. Spent(i) \subseteq Spent(i)' /\ Spent(i)' \subseteq Jobs /\ Spent(i) \subseteq Jobs
    BY DEF Spent
  <1> DEFINE S == Spent(i)
             T == Spent(i)'
  <1> HIDE DEF S, T
  <1>2. S \in SUBSET T /\ T \in SUBSET Jobs /\ S \in SUBSET Jobs
    BY <1>1 DEF S, T
  <1>3. Cardinality(S) <= Cardinality(T) /\ Cardinality(S) \in Nat /\ Cardinality(T) \in Nat
    BY <1>2, JobSets
  <1>4. rows[i].exits <= Cardinality(S)
    BY DEF S
  <1>5. rows'[i].exits <= Cardinality(T)
    BY <1>3, <1>4
  <1> QED BY <1>5 DEF T

\* Between two effects no job comes to be able to sell a position.
LEMMA BetweenSellsOnce ==
    ASSUME RaceShape, SoldFor, Between PROVE SoldFor'
  <1>1. RaceTypeOK /\ BookShape
    BY DEF RaceShape
  <1>2. /\ UNCHANGED <<rows, book, cur>>
        /\ \A j \in Jobs : todo'[j] \subseteq todo[j] \/ (todo'[j] = Listed /\ cur[j] = None)
    BY BetweenLists
  <1> SUFFICES ASSUME NEW i \in Ids PROVE rows'[i].exits <= Cardinality(Spent(i)')
    BY <1>2 DEF SoldFor, Ids, Spent
  <1>3. i # None
    BY RaceAssumption DEF Ids
  <1>4. \A j \in Jobs : MaySell(j, i)' => MaySell(j, i)
    BY <1>2, <1>3 DEF MaySell, Listed
  <1>5. rows[i].exits <= Cardinality(Spent(i)) /\ rows[i].exits \in Nat
    BY <1>1, SoldForRow
  <1> QED BY <1>2, <1>4, <1>5, StaysSpent

\* A job that sells a position may not sell it again.
LEMMA FillingSellsOnce ==
    ASSUME RaceShape, SoldFor, NEW j \in Jobs, NEW own \in todo[j], Filling(j, own)
    PROVE  SoldFor'
  <1>1. RaceTypeOK /\ BookShape
    BY DEF RaceShape
  <1>2. /\ own \in Ids /\ cur[j] = None /\ Len(rows') = Len(rows)
        /\ rows'[own].exits = rows[own].exits + 1
        /\ \A k \in Ids : k # own => rows'[k] = rows[k]
        /\ book' = book
        /\ todo'[j] = todo[j] \ {own} /\ cur'[j] = own
        /\ \A k \in Jobs : k # j => todo'[k] = todo[k] /\ cur'[k] = cur[k]
    BY FillingEffect
  <1> SUFFICES ASSUME NEW i \in Ids PROVE rows'[i].exits <= Cardinality(Spent(i)')
    BY <1>2 DEF SoldFor, Ids, Spent
  <1>3. i # None
    BY RaceAssumption DEF Ids
  <1>4. \A k \in Jobs : MaySell(k, i)' => MaySell(k, i)
    <2> TAKE k \in Jobs
    <2>1. CASE k = j
      BY <1>2, <1>3, <2>1 DEF MaySell
    <2>2. CASE k # j
      BY <1>2, <2>2 DEF MaySell
    <2> QED BY <2>1, <2>2
  <1>5. rows[i].exits <= Cardinality(Spent(i)) /\ rows[i].exits \in Nat
    BY <1>1, SoldForRow
  <1>6. CASE i # own
    BY <1>2, <1>4, <1>5, <1>6, StaysSpent
  <1>7. CASE i = own
    <2>1. MaySell(j, i) /\ ~MaySell(j, i)'
      BY <1>2, <1>7 DEF MaySell
    <2> DEFINE S == Spent(i)
               T == Spent(i)'
    <2>2. S \in SUBSET Jobs /\ j \in Jobs \ S /\ T \in SUBSET Jobs
          /\ S \cup {j} \in SUBSET T
      BY <1>4, <2>1 DEF Spent
    <2>3. rows[i].exits <= Cardinality(S)
      BY <1>5
    <2> HIDE DEF S, T
    <2>4. /\ Cardinality(S \cup {j}) = Cardinality(S) + 1 /\ Cardinality(S) \in Nat
          /\ Cardinality(S \cup {j}) <= Cardinality(T) /\ Cardinality(T) \in Nat
      BY <2>2, JobSets
    <2>5. rows'[i].exits <= Cardinality(T)
      BY <1>2, <1>5, <1>7, <2>3, <2>4
    <2> QED BY <2>5 DEF T
  <1> QED BY <1>6, <1>7

\* Closing the row in hand sells nothing.
LEMMA CommitExitSellsOnce ==
    ASSUME RaceShape, SoldFor, NEW j \in Jobs, CommitExit(j) PROVE SoldFor'
  <1>1. RaceTypeOK
    BY DEF RaceShape
  <1>2. /\ Len(rows') = Len(rows)
        /\ \A k \in Ids : rows'[k].exits = rows[k].exits
        /\ UNCHANGED <<book, todo, cur>>
    BY CommitExitEffect
  <1> SUFFICES ASSUME NEW i \in Ids PROVE rows'[i].exits <= Cardinality(Spent(i)')
    BY <1>2 DEF SoldFor, Ids, Spent
  <1>3. \A k \in Jobs : MaySell(k, i)' => MaySell(k, i)
    BY <1>2 DEF MaySell
  <1>4. rows[i].exits <= Cardinality(Spent(i)) /\ rows[i].exits \in Nat
    BY <1>1, SoldForRow
  <1> QED BY <1>2, <1>3, <1>4, StaysSpent

\* The position whose entry is dropped cannot be listed again.
LEMMA DropEntrySellsOnce ==
    ASSUME RaceShape, SoldFor, NEW j \in Jobs, DropEntry(j) PROVE SoldFor'
  <1>1. RaceTypeOK /\ BookShape
    BY DEF RaceShape
  <1>2. /\ DOMAIN book' = DOMAIN book \ {rows[cur[j]].symbol}
        /\ \A s \in DOMAIN book' : book'[s] = book[s]
        /\ \A k \in Jobs : k # j => cur'[k] = cur[k]
        /\ UNCHANGED <<rows, todo>>
    BY DropEntryEffect
  <1> SUFFICES ASSUME NEW i \in Ids PROVE rows'[i].exits <= Cardinality(Spent(i)')
    BY <1>2 DEF SoldFor, Ids, Spent
  <1>3. ASSUME i \in Range(book')
        PROVE  i \in Range(book) /\ cur[j] # i
    <2>1. PICK s \in DOMAIN book' : book'[s] = i
      BY <1>3 DEF Range
    <2>2. s \in DOMAIN book /\ book[s] = i /\ s # rows[cur[j]].symbol
      BY <1>2, <2>1
    <2>3. rows[i].symbol = s
      BY <1>1, <2>2 DEF BookShape
    <2> QED BY <2>2, <2>3 DEF Range
  <1>4. \A k \in Jobs : MaySell(k, i)' => MaySell(k, i)
    BY <1>2, <1>3 DEF MaySell
  <1>5. rows[i].exits <= Cardinality(Spent(i)) /\ rows[i].exits \in Nat
    BY <1>1, SoldForRow
  <1> QED BY <1>2, <1>4, <1>5, StaysSpent

\* A new row has not been sold.
LEMMA OpenFromSignalSellsOnce ==
    ASSUME RaceShape, SoldFor, NEW s \in Symbols, OpenFromSignal(s) PROVE SoldFor'
  <1>1. RaceTypeOK /\ Len(rows) \in Nat
    BY DEF RaceShape, RaceTypeOK
  <1>2. /\ Len(rows') = Len(rows) + 1
        /\ rows'[Len(rows) + 1] = [symbol |-> s, status |-> "OPEN", exits |-> 0]
        /\ \A k \in Ids : rows'[k] = rows[k]
        /\ DOMAIN book' = DOMAIN book \cup {s}
        /\ book'[s] = Len(rows) + 1
        /\ \A t \in DOMAIN book : book'[t] = book[t]
        /\ UNCHANGED <<todo, cur>>
    BY OpenFromSignalEffect
  <1> SUFFICES ASSUME NEW i \in Ids' PROVE rows'[i].exits <= Cardinality(Spent(i)')
    BY DEF SoldFor, Spent
  <1>3. CASE i \in Ids
    <2>1. i # Len(rows) + 1
      BY <1>1, <1>3 DEF Ids
    <2>2. i \in Range(book') => i \in Range(book)
      BY <1>2, <2>1 DEF Range
    <2>3. \A k \in Jobs : MaySell(k, i)' => MaySell(k, i)
      BY <1>2, <2>2 DEF MaySell
    <2>4. rows[i].exits <= Cardinality(Spent(i)) /\ rows[i].exits \in Nat
      BY <1>1, <1>3, SoldForRow
    <2>5. rows'[i].exits = rows[i].exits
      BY <1>2, <1>3
    <2> QED BY <2>3, <2>4, <2>5, StaysSpent
  <1>4. CASE i = Len(rows) + 1
    <2> DEFINE T == Spent(i)'
    <2>1. T \in SUBSET Jobs
      BY DEF Spent
    <2> HIDE DEF T
    <2>2. Cardinality(T) \in Nat
      BY <2>1, JobSets
    <2>3. rows'[i].exits <= Cardinality(T)
      BY <1>2, <1>4, <2>2
    <2> QED BY <2>3 DEF T
  <1> QED BY <1>1, <1>2, <1>3, <1>4 DEF Ids

\* Every step keeps each row within the jobs that may no longer sell it.
LEMMA SoldForStep ==
    ASSUME RaceShape, SoldFor, [RaceNext]_raceVars PROVE SoldFor'
  <1>1. CASE UNCHANGED raceVars
    BY <1>1 DEF raceVars, SoldFor, MaySell, Ids
  <1>2. CASE RaceNext
    <2>1. CASE Between
      BY <2>1, BetweenSellsOnce
    <2>2. CASE \E j \in Jobs : CommitExit(j) \/ DropEntry(j)
      BY <2>2, CommitExitSellsOnce, DropEntrySellsOnce
    <2>3. CASE \E j \in Jobs : \E i \in todo[j] : Filling(j, i)
      BY <2>3, FillingSellsOnce
    <2>4. CASE \E s \in Symbols : OpenFromSignal(s)
      BY <2>4, OpenFromSignalSellsOnce
    <2> QED BY <1>2, <2>1, <2>2, <2>3, <2>4, StepKinds
  <1> QED BY <1>1, <1>2

\* A position is sold at most once by each job, never again by a later cycle, in
\* every interleaving.
THEOREM NoThirdSale == RaceSpec => []SoldOncePerJob
  <1>1. RaceInit => RaceShape /\ SoldFor
    <2> SUFFICES ASSUME RaceInit PROVE RaceShape /\ SoldFor
      OBVIOUS
    <2>1. SoldFor
      BY DEF RaceInit, SoldFor, Ids
    <2> QED BY <2>1, RaceShapeInit
  <1>2. RaceShape /\ SoldFor /\ [RaceNext]_raceVars => (RaceShape /\ SoldFor)'
    BY RaceShapeStep, SoldForStep
  <1>3. RaceShape /\ SoldFor => SoldOncePerJob
    <2> SUFFICES ASSUME RaceShape, SoldFor, NEW i \in Ids
                 PROVE  rows[i].exits <= Cardinality(Jobs)
      BY DEF SoldOncePerJob
    <2> DEFINE S == Spent(i)
    <2>1. rows[i].exits <= Cardinality(S) /\ rows[i].exits \in Nat
      BY SoldForRow DEF RaceShape
    <2>2. S \in SUBSET Jobs
      BY DEF Spent
    <2> HIDE DEF S
    <2>3. /\ Cardinality(S) <= Cardinality(Jobs) /\ Cardinality(S) \in Nat
      BY <2>2, JobSets
    <2>4. Jobs \in SUBSET Jobs
      OBVIOUS
    <2>5. Cardinality(Jobs) \in Nat
      BY <2>4, JobSets
    <2> QED BY <2>1, <2>3, <2>5
  <1> QED BY <1>1, <1>2, <1>3, PTL DEF RaceSpec
=============================================================================
