------------------------ MODULE LiveExecutionProofs ------------------------
(***************************************************************************)
(* Theorems about live trading for every quantity, stop level and number   *)
(* of orders, errors, crashes, closes and partial fills.                   *)
(***************************************************************************)
EXTENDS LiveExecution, FiniteSetTheorems, TLAPS

\* Nothing is held and nothing is wrong in the beginning.
LEMMA LiveInitInductive ==
    ASSUME LiveInit
    PROVE  LiveInductive
  <1>1. LiveTypeOK
    BY LiveAssumption DEF LiveInit, LiveTypeOK, PcStates
  <1>2. JobShape /\ OrderShape
    BY DEF LiveInit, JobShape, OrderShape, Entering
  <1>3. WholeTrades
    <2>1. shares = Qty * 0
      BY LiveAssumption DEF LiveInit
    <2> QED BY <2>1 DEF WholeTrades
  <1>4. PartsAccounted /\ SharesBounded
    BY LiveAssumption DEF LiveInit, PartsAccounted, SharesBounded, HeldAtMost, Entering, Exited
  <1> QED BY <1>1, <1>2, <1>3, <1>4 DEF LiveInductive

\* Whole trades remain whole when one is added or taken away.
LEMMA OneTradeMore ==
    ASSUME WholeTrades, shares' \in {shares, shares + Qty, shares - Qty}
    PROVE  WholeTrades'
  <1>1. PICK k \in Int : shares = Qty * k
    BY DEF WholeTrades
  <1>2. /\ shares + Qty = Qty * (k + 1)
        /\ shares - Qty = Qty * (k - 1)
    BY <1>1, LiveAssumption
  <1> QED BY <1>1, <1>2 DEF WholeTrades

\* Less than one trade is none.
LEMMA LessThanOneTrade ==
    ASSUME WholeTrades, shares < Qty
    PROVE  shares <= 0
  <1>1. PICK k \in Int : shares = Qty * k
    BY DEF WholeTrades
  <1>2. k <= 0
    <2>1. SUFFICES ASSUME k >= 1 PROVE FALSE
      BY <1>1
    <2>2. Qty * k >= Qty * 1
      BY <2>1, LiveAssumption
    <2> QED BY <1>1, <2>2, LiveAssumption
  <1> QED BY <1>1, <1>2, LiveAssumption

\* Nobody holds parts, or one part.
LEMMA PartsHeld ==
    ASSUME LiveTypeOK
    PROVE  /\ partly = {} => Held = shares
           /\ \A n : partly \subseteq {n} => Held <= shares + Part /\ Held \in Int
  <1>1. shares \in Int /\ Part \in Nat
    BY LiveAssumption DEF LiveTypeOK
  <1>2. Cardinality({}) = 0 /\ \A n : Cardinality({n}) = 1
    BY FS_EmptySet, FS_Singleton
  <1>3. partly = {} => Held = shares
    BY <1>1, <1>2 DEF Held
  <1>4. ASSUME NEW n, partly \subseteq {n} PROVE Held <= shares + Part /\ Held \in Int
    <2>1. partly = {} \/ partly = {n}
      BY <1>4
    <2>2. Cardinality(partly) = 0 \/ Cardinality(partly) = 1
      BY <1>2, <2>1
    <2>3. Held = shares + Part * Cardinality(partly)
      BY DEF Held
    <2>4. Held = shares \/ Held = shares + Part
      BY <1>1, <2>2, <2>3
    <2> QED BY <1>1, <2>4
  <1> QED BY <1>3, <1>4

-----------------------------------------------------------------------------
(* The venue.                                                              *)

\* An entry that fills in part is one that works, in hand or astray.
LEMMA EntryFillsInPartStep ==
    ASSUME LiveInductive, NEW o \in orders, EntryFillsInPart(o)
    PROVE  LiveInductive'
  <1> USE DEF EntryFillsInPart, process, counts
  <1>1. o.n \in 1..sent /\ o.n \notin filled
    BY DEF LiveInductive, LiveTypeOK, OrderShape
  <1>2. LiveTypeOK' /\ JobShape' /\ WholeTrades'
    BY <1>1 DEF LiveInductive, LiveTypeOK, JobShape, WholeTrades, Entering
  <1>3. OrderShape'
    BY DEF LiveInductive, OrderShape, Resting, Entering
  <1>4. PartsAccounted'
    <2>1. SUFFICES ASSUME NEW n \in partly'
                   PROVE  \/ n \in FilledStray' \cup cut
                          \/ Entering /\ hand = n
                          \/ row # NoRow /\ row.n = n
      BY DEF PartsAccounted, Entering
    <2>2. FilledStray \subseteq FilledStray'
      BY DEF FilledStray, Entering
    <2>3. CASE n \in partly
      BY <2>2, <2>3 DEF LiveInductive, PartsAccounted
    <2>4. CASE n = o.n /\ n \notin partly
      BY <1>1, <2>1, <2>4 DEF FilledStray, Entering, LiveInductive, LiveTypeOK
    <2> QED BY <2>1, <2>3, <2>4
  <1>5. SharesBounded'
    BY DEF LiveInductive, SharesBounded, FilledStray, HeldAtMost, Bought, Exited, ExitOpen,
           Entering
  <1> QED BY <1>2, <1>3, <1>4, <1>5 DEF LiveInductive

\* An entry that fills is the one in hand, the rest of one on the books, or astray.
LEMMA EntryFillsStep ==
    ASSUME LiveInductive, NEW o \in orders, EntryFills(o)
    PROVE  LiveInductive'
  <1> USE DEF EntryFills, process, counts
  <1>1. LiveTypeOK'
    <2>1. shares + Qty \in Int
      BY LiveAssumption DEF LiveInductive, LiveTypeOK
    <2>2. o.n \in 1..sent
      BY DEF LiveInductive, LiveTypeOK
    <2> QED BY <2>1, <2>2 DEF LiveInductive, LiveTypeOK
  <1>2. JobShape'
    BY DEF LiveInductive, JobShape, Entering
  <1>3. OrderShape'
    <2>1. \A p \in orders' : p \in orders /\ p # o
      OBVIOUS
    <2>2. \A e \in orders : e.kind = "entry" /\ e.n = o.n => e = o
      BY DEF LiveInductive, LiveTypeOK, OrderShape
    <2>3. ASSUME NEW p \in orders'
          PROVE  p.kind \in {"stop", "target"} => ~Resting(p)' \/ p.n \in filled'
      BY <2>1 DEF LiveInductive, OrderShape, Resting
    <2>4. ASSUME NEW p \in orders', p.kind = "entry"
          PROVE  p.n \notin filled' /\ p.id = p.n
      BY <2>1, <2>2, <2>4 DEF LiveInductive, OrderShape
    <2> QED BY <2>1, <2>3, <2>4 DEF LiveInductive, OrderShape, Entering
  <1>4. WholeTrades'
    BY OneTradeMore DEF LiveInductive
  <1>5. FilledStray \subseteq FilledStray'
    BY DEF FilledStray, Entering
  <1>6. PartsAccounted'
    BY <1>5 DEF LiveInductive, PartsAccounted, Entering
  <1>7. SharesBounded'
    <2>1. SUFFICES ASSUME FilledStray' = {}, cut = {}, late = 0 PROVE shares' <= HeldAtMost'
      BY DEF SharesBounded
    <2>2. o.n \notin filled
      BY DEF LiveInductive, OrderShape
    <2>3. FilledStray = {} /\ shares <= HeldAtMost
      BY <1>5, <2>1 DEF LiveInductive, SharesBounded
    <2>4. CASE Entering /\ hand = o.n
      <3>1. shares <= 0
        BY <2>2, <2>3, <2>4 DEF HeldAtMost, Bought
      <3>2. HeldAtMost' = Qty
        BY <2>4 DEF HeldAtMost, Bought, Entering
      <3> QED BY <3>1, <3>2, LiveAssumption DEF LiveInductive, LiveTypeOK
    <2>5. CASE ~(Entering /\ hand = o.n)
      <3>1. o.n \in known
        BY <2>1, <2>5 DEF FilledStray, Entering
      <3>2. row # NoRow /\ row.n = o.n
        BY <2>1, <2>2, <2>3, <2>5, <3>1 DEF LiveInductive, LiveTypeOK, PartsAccounted
      <3>3. ~Entering
        BY <3>2 DEF LiveInductive, JobShape
      <3>4. Exited' <=> Exited
        BY DEF Exited, ExitOpen
      <3>5. shares <= IF Exited THEN 0 - Qty ELSE 0
        BY <2>2, <2>3, <3>2, <3>3, LiveAssumption DEF HeldAtMost, Bought
      <3>6. HeldAtMost' = IF Exited THEN 0 ELSE Qty
        BY <3>2, <3>3, <3>4, LiveAssumption DEF HeldAtMost, Bought, Entering
      <3> QED BY <3>5, <3>6, LiveAssumption DEF LiveInductive, LiveTypeOK
    <2> QED BY <2>4, <2>5
  <1> QED BY <1>1, <1>2, <1>3, <1>4, <1>6, <1>7 DEF LiveInductive

\* A sale only lowers what is held.
LEMMA LegFillsStep ==
    ASSUME LiveInductive, NEW o \in orders, LegFills(o)
    PROVE  LiveInductive'
  <1> USE DEF LegFills, Sells, process, counts
  <1>1. o.n \in filled
    BY DEF LiveInductive, OrderShape
  <1>2. LiveTypeOK'
    <2>1. shares - Qty \in Int
      BY LiveAssumption DEF LiveInductive, LiveTypeOK
    <2>2. sold' \subseteq filled' \cup partly' /\ soldTwice' \subseteq sold'
      BY <1>1 DEF LiveInductive, LiveTypeOK
    <2> QED BY <2>1, <2>2 DEF LiveInductive, LiveTypeOK
  <1>3. JobShape'
    BY DEF LiveInductive, JobShape, Entering
  <1>4. OrderShape'
    <2>1. \A p \in orders' : p \in orders
      OBVIOUS
    <2>2. ASSUME NEW p \in orders', p.kind \in {"stop", "target"}, p.n \notin filled'
          PROVE  ~Resting(p)'
      <3>1. PICK e \in orders : e.kind = "entry" /\ e.n = p.n
        BY <2>1, <2>2 DEF LiveInductive, OrderShape, Resting
      <3>2. e \in orders'
        BY <1>1, <2>2, <3>1
      <3> QED BY <3>1, <3>2 DEF Resting
    <2> QED BY <2>1, <2>2 DEF LiveInductive, OrderShape, Entering
  <1>5. WholeTrades'
    BY OneTradeMore DEF LiveInductive
  <1>6. FilledStray' = FilledStray
    BY DEF FilledStray, Entering
  <1>7. PartsAccounted'
    BY <1>6 DEF LiveInductive, PartsAccounted, Entering
  <1>8. SharesBounded'
    <2>1. Exited' <=> Exited
      BY DEF Exited, ExitOpen
    <2>2. HeldAtMost' = HeldAtMost /\ HeldAtMost \in Int
      BY <2>1, LiveAssumption DEF HeldAtMost, Bought, Entering
    <2> QED BY <1>6, <2>2, LiveAssumption DEF LiveInductive, LiveTypeOK, SharesBounded
  <1> QED BY <1>2, <1>3, <1>4, <1>5, <1>7, <1>8 DEF LiveInductive

\* The exit the job waits for takes the whole trade out of the account.
LEMMA ExitFillsStep ==
    ASSUME LiveInductive, NEW o \in orders, ExitFills(o)
    PROVE  LiveInductive'
  <1> USE DEF ExitFills, Sells, process, counts
  <1>1. LiveTypeOK'
    <2>1. shares - Qty \in Int
      BY LiveAssumption DEF LiveInductive, LiveTypeOK
    <2>2. o.n \in filled \cup partly
      BY DEF LiveInductive, LiveTypeOK, OrderShape
    <2>3. sold' \subseteq filled' \cup partly' /\ soldTwice' \subseteq sold'
      BY <2>2 DEF LiveInductive, LiveTypeOK
    <2> QED BY <2>1, <2>3 DEF LiveInductive, LiveTypeOK
  <1>2. JobShape'
    BY DEF LiveInductive, JobShape, Entering
  <1>3. OrderShape'
    <2>1. \A p : Resting(p)' <=> Resting(p)
      BY DEF Resting
    <2> QED BY <2>1 DEF LiveInductive, OrderShape, Entering
  <1>4. WholeTrades'
    BY OneTradeMore DEF LiveInductive
  <1>5. FilledStray' = FilledStray
    BY DEF FilledStray, Entering
  <1>6. PartsAccounted'
    BY <1>5 DEF LiveInductive, PartsAccounted, Entering
  <1>7. SharesBounded'
    <2>1. HeldAtMost' \in {HeldAtMost, HeldAtMost - Qty} /\ HeldAtMost \in Int
      <3>1. Exited => Exited'
        BY DEF Exited, ExitOpen
      <3> QED BY <3>1, LiveAssumption DEF HeldAtMost, Bought, Entering
    <2> QED BY <1>5, <2>1, LiveAssumption DEF LiveInductive, LiveTypeOK, SharesBounded
  <1> QED BY <1>1, <1>2, <1>3, <1>4, <1>6, <1>7 DEF LiveInductive

-----------------------------------------------------------------------------
(* Steps of the process that touch neither the venue nor the row.          *)

QuietStep ==
    \/ Crash \/ CallRaises \/ BeginCycle \/ SkipSignals \/ AwaitFill
    \/ NothingToManage \/ NoPrice \/ Keep \/ ExitDue \/ Flatten \/ AwaitExit

\* Such a step keeps the entry in hand or gives it up, and closes a row only
\* when the exit has filled or has been given up on.
LEMMA QuietSteps ==
    ASSUME LiveInductive, QuietStep
    PROVE  LiveInductive'
  <1>1. UNCHANGED <<venue, row, sent, known, cut>>
    BY DEF QuietStep, Crash, CallRaises, BeginCycle, SkipSignals, AwaitFill,
           NothingToManage, NoPrice, Keep, ExitDue, Flatten, AwaitExit
  <1>2. /\ pc' \in PcStates \ {"awaitExit"}
        /\ hand' \in {0, hand} /\ stop' \in {NoLevel, stop}
        /\ Entering' => Entering /\ UNCHANGED <<hand, stop>>
        /\ pc' = "record" => hand \in filled \cup partly
        /\ pc' \in {"trail", "mirror", "decide", "lift", "sell", "close"} => row # NoRow
        /\ late' \in {late, late + 1}
        /\ pc' = "close" => pc = "awaitExit" /\ (~ExitOpen \/ late' = late + 1)
    BY DEF QuietStep, Crash, CallRaises, BeginCycle, SkipSignals, AwaitFill,
           NothingToManage, NoPrice, Keep, ExitDue, Flatten, AwaitExit,
           JobEnds, GoTo, PcStates, Entering, counts, LiveInductive, JobShape, LiveTypeOK
  <1>3. LiveTypeOK'
    <2>1. /\ errors' \in 0..MaxErrors /\ crashes' \in 0..MaxCrashes
          /\ expiries' \in 0..MaxExpiries /\ late' \in 0..MaxLate
      BY LiveAssumption
         DEF QuietStep, Crash, CallRaises, BeginCycle, SkipSignals, AwaitFill,
             NothingToManage, NoPrice, Keep, ExitDue, Flatten, AwaitExit,
             Raises, counts, LiveInductive, LiveTypeOK
    <2>2. hand' \in 0..sent
      BY <1>2 DEF LiveInductive, LiveTypeOK
    <2> QED BY <1>1, <1>2, <2>1, <2>2 DEF LiveInductive, LiveTypeOK, venue
  <1>4. JobShape'
    BY <1>1, <1>2 DEF LiveInductive, JobShape, Entering, venue
  <1>5. OrderShape'
    <2>1. \A o : Resting(o)' <=> Resting(o)
      BY <1>1 DEF Resting, venue
    <2> QED BY <1>1, <1>2, <2>1 DEF LiveInductive, OrderShape, venue
  <1>6. WholeTrades'
    BY <1>1 DEF LiveInductive, WholeTrades, venue
  <1>7. FilledStray \subseteq FilledStray' /\ UNCHANGED <<filled, partly, cut, row>>
    BY <1>1, <1>2 DEF FilledStray, venue
  <1>8. PartsAccounted'
    <2>1. Entering /\ hand \in partly => hand \notin known
      BY DEF LiveInductive, JobShape
    <2>2. ASSUME NEW n \in partly, Entering, hand = n
          PROVE  n \in FilledStray' \/ (Entering' /\ hand' = n)
      BY <1>1, <1>7, <2>1, <2>2 DEF FilledStray
    <2> QED BY <1>7, <2>2 DEF LiveInductive, PartsAccounted
  <1>9. SharesBounded'
    <2>1. SUFFICES ASSUME FilledStray' = {}, cut' = {}, late' = 0 PROVE shares' <= HeldAtMost'
      BY DEF SharesBounded
    <2>2. /\ FilledStray = {} /\ cut = {} /\ late = 0
          /\ Entering /\ hand \in filled => Entering'
      BY <1>1, <1>2, <1>7, <2>1
         DEF FilledStray, venue, LiveInductive, JobShape, LiveTypeOK
    <2>3. shares <= HeldAtMost
      BY <2>2 DEF LiveInductive, SharesBounded
    <2>4. Exited' => Exited
      BY <1>2, <2>1, <2>2 DEF Exited
    <2>5. HeldAtMost <= HeldAtMost' /\ HeldAtMost \in Int /\ HeldAtMost' \in Int
      <3>1. CASE Entering'
        BY <1>1, <1>2, <1>7, <3>1, LiveAssumption DEF HeldAtMost, Bought
      <3>2. CASE Entering /\ ~Entering'
        <4>1. hand \notin filled /\ row = NoRow
          BY <2>2, <3>2 DEF LiveInductive, JobShape
        <4> QED BY <1>7, <3>2, <4>1 DEF HeldAtMost, Bought
      <3>3. CASE ~Entering /\ ~Entering'
        BY <1>7, <2>4, <3>3, LiveAssumption DEF HeldAtMost, Bought
      <3> QED BY <3>1, <3>2, <3>3
    <2> QED BY <1>1, <2>3, <2>5 DEF venue, LiveInductive, LiveTypeOK
  <1> QED BY <1>3, <1>4, <1>5, <1>6, <1>8, <1>9 DEF LiveInductive

-----------------------------------------------------------------------------
(* Steps that take orders away.                                            *)

\* Orders may go, as long as the legs of an entry go with it.
LEMMA FewerOrders ==
    ASSUME LiveInductive,
           orders' \subseteq orders,
           \A o \in orders', e \in orders \ orders' : e.kind = "entry" => e.n # o.n,
           UNCHANGED <<shares, partly, filled, sold, soldTwice, row, sent, known, cut>>,
           pc' \in PcStates, hand' \in {0, hand}, stop' \in {NoLevel, stop},
           ~Entering', pc' \notin {"awaitExit", "close"}, pc # "awaitExit", pc # "close",
           pc' \in {"trail", "mirror", "decide", "lift", "sell"} => row # NoRow,
           errors' \in 0..MaxErrors, crashes' \in 0..MaxCrashes,
           expiries' \in 0..MaxExpiries, late' = late
    PROVE  LiveInductive'
  <1>1. LiveTypeOK'
    <2>1. hand' \in 0..sent
      BY DEF LiveInductive, LiveTypeOK
    <2> QED BY <2>1 DEF LiveInductive, LiveTypeOK
  <1>2. JobShape'
    BY DEF LiveInductive, JobShape, Entering
  <1>3. OrderShape'
    <2>1. ASSUME NEW o \in orders', ~Resting(o)
          PROVE  ~Resting(o)'
      <3>1. PICK e \in orders : e.kind = "entry" /\ e.n = o.n
        BY <2>1 DEF Resting
      <3>2. e \in orders'
        BY <3>1
      <3> QED BY <3>1, <3>2 DEF Resting
    <2> QED BY <2>1 DEF LiveInductive, OrderShape
  <1>4. WholeTrades'
    BY DEF LiveInductive, WholeTrades
  <1>5. FilledStray \subseteq FilledStray'
    BY DEF FilledStray
  <1>6. PartsAccounted'
    <2>1. Entering /\ hand \in partly => hand \in FilledStray'
      BY DEF FilledStray, LiveInductive, JobShape
    <2> QED BY <1>5, <2>1 DEF LiveInductive, PartsAccounted
  <1>7. SharesBounded'
    <2>1. SUFFICES ASSUME FilledStray' = {}, cut = {}, late = 0 PROVE shares' <= HeldAtMost'
      BY DEF SharesBounded
    <2>2. FilledStray = {} /\ ~(Entering /\ hand \in filled)
      BY <1>5, <2>1 DEF FilledStray, LiveInductive, JobShape
    <2>3. ~Exited /\ ~Exited'
      BY DEF Exited
    <2>4. HeldAtMost' = HeldAtMost
      BY <2>2, <2>3 DEF HeldAtMost, Bought, Entering, LiveInductive, JobShape
    <2> QED BY <2>1, <2>2, <2>4 DEF LiveInductive, SharesBounded
  <1> QED BY <1>1, <1>2, <1>3, <1>4, <1>6, <1>7 DEF LiveInductive

\* The close of the venue, the cancelled entry and the lifted orders are of
\* that kind.
LEMMA CancelSteps ==
    ASSUME LiveInductive, Close \/ CancelEntry \/ CancelSymbolOrders
    PROVE  LiveInductive'
  <1>0. Raises => errors' \in 0..MaxErrors
    BY LiveAssumption DEF Raises, LiveInductive, LiveTypeOK
  <1>1. CASE Close
    <2>1. expiries' \in 0..MaxExpiries
      BY <1>1, LiveAssumption DEF Close, LiveInductive, LiveTypeOK
    <2> QED BY <1>1, <2>1, FewerOrders
       DEF Close, process, Entering, LiveInductive, LiveTypeOK
  <1>2. CASE CancelEntry
    <2>1. \A o \in Without(hand), e \in orders \ Without(hand) : e.n # o.n
      BY DEF Without
    <2>2. Without(hand) \subseteq orders
      BY DEF Without
    <2> QED BY <1>0, <1>2, <2>1, <2>2, FewerOrders
         DEF CancelEntry, PcStates, Entering, LiveInductive, LiveTypeOK
  <1>3. CASE CancelSymbolOrders
    <2>1. row # NoRow
      BY <1>3 DEF CancelSymbolOrders, LiveInductive, JobShape
    <2> QED BY <1>0, <1>3, <2>1, FewerOrders
         DEF CancelSymbolOrders, GoTo, Left, PcStates, Entering, LiveInductive, LiveTypeOK
  <1> QED BY <1>1, <1>2, <1>3

-----------------------------------------------------------------------------
(* Steps that send or move orders.                                         *)

\* One error more is still within the bound.
LEMMA RaisesType ==
    ASSUME LiveTypeOK
    PROVE  Raises => errors' \in 0..MaxErrors
  BY LiveAssumption DEF Raises, LiveTypeOK

\* A new bracket is of a trade nobody knows yet.
LEMMA SubmitBracketStep ==
    ASSUME LiveInductive, NEW level \in Levels, SubmitBracket(level)
    PROVE  LiveInductive'
  <1> DEFINE n == sent + 1
  <1>1. /\ n \in Nat \ {0} /\ n \notin filled \cup partly /\ n \notin known
        /\ row # NoRow => row.n # n
        /\ \A o \in orders : o.n # n /\ o.id # n
    BY DEF LiveInductive, LiveTypeOK
  <1>2. /\ orders' \in {orders, orders \cup BracketOrders(n, level)}
        /\ \/ pc' = "await" /\ hand' = n /\ stop' = level
           \/ pc' = "idle" /\ hand' = 0 /\ stop' = NoLevel
        /\ UNCHANGED <<shares, partly, filled, sold, soldTwice, row, known, cut, crashes,
                       expiries, late>>
        /\ sent' = n /\ row = NoRow
    BY DEF SubmitBracket, JobEnds, MayEnter
  <1>3. NoLevel \notin Levels
    BY LiveAssumption DEF Levels
  <1>4. \A o \in BracketOrders(n, level) :
           /\ o.kind \in {"entry", "stop", "target"} /\ o.n = n /\ o.id = n
           /\ o.level = IF o.kind = "stop" THEN level ELSE NoLevel
           /\ o = Order(o.kind, n, n, o.level)
    BY DEF BracketOrders, Order
  <1>5. Order("entry", n, n, NoLevel) \in BracketOrders(n, level)
    BY DEF BracketOrders
  <1> HIDE DEF n
  <1>6. LiveTypeOK'
    <2>1. errors' \in 0..MaxErrors
      BY RaisesType DEF SubmitBracket, LiveInductive, LiveTypeOK
    <2>2. 1..sent \subseteq 1..n /\ 0..sent \subseteq 0..n /\ n \in 1..n /\ sent \in Nat
      BY <1>1 DEF LiveInductive, LiveTypeOK, n
    <2>3. orders' \subseteq [kind : {"entry", "stop", "target", "exit"}, n : 1..n,
                             id : 1..n, level : Levels \cup {NoLevel}]
      BY <1>2, <1>4, <2>2 DEF LiveInductive, LiveTypeOK, Order
    <2>4. pc' \in PcStates /\ hand' \in 0..n /\ stop' \in Levels \cup {NoLevel}
      BY <1>1, <1>2 DEF PcStates, n
    <2> QED BY <1>1, <1>2, <2>1, <2>2, <2>3, <2>4 DEF LiveInductive, LiveTypeOK
  <1>7. JobShape'
    <2>1. n \in 1..n
      BY <1>1
    <2> QED BY <1>1, <1>2, <2>1 DEF LiveInductive, JobShape, Entering
  <1>8. OrderShape'
    <2>1. ASSUME NEW o \in orders, o.kind \in {"stop", "target"}
          PROVE  ~Resting(o)' \/ o.n \in filled
      BY <1>2, <2>1 DEF LiveInductive, OrderShape, Resting
    <2>2. ASSUME NEW o \in orders', o \in BracketOrders(n, level)
          PROVE  ~Resting(o)'
      <3>1. orders' = orders \cup BracketOrders(n, level) \/ o \in orders
        BY <1>2, <2>2
      <3>2. orders' = orders \cup BracketOrders(n, level)
        BY <1>1, <1>4, <2>2, <3>1
      <3>3. Order("entry", n, n, NoLevel) \in orders'
        BY <1>5, <3>2
      <3> QED BY <1>4, <2>2, <3>3 DEF Resting, Order
    <2>3. ASSUME NEW o \in orders', o \in orders
          PROVE  /\ o.kind = "stop" <=> o.level \in Levels
                 /\ o.kind = "entry" => o.n \notin filled /\ o.id = o.n
                 /\ o.kind = "exit" => o.n \in known
                 /\ o.n # n
      BY <1>1, <2>3 DEF LiveInductive, OrderShape
    <2>4. level \in Int /\ level <= level
      BY DEF Levels
    <2>5. ASSUME NEW o \in orders', o \notin orders
          PROVE  /\ o \in BracketOrders(n, level)
                 /\ o.kind = "stop" <=> o.level \in Levels
                 /\ o.kind = "entry" => o.n \notin filled /\ o.id = o.n
                 /\ o.kind # "exit"
                 /\ o.kind = "stop" => o.level = level
      BY <1>1, <1>2, <1>3, <1>4, <2>5
    <2> QED BY <1>2, <2>1, <2>2, <2>3, <2>4, <2>5 DEF OrderShape, Entering
  <1>9. WholeTrades'
    BY <1>2 DEF LiveInductive, WholeTrades
  <1>10. ~Entering /\ FilledStray' = FilledStray
    BY <1>1, <1>2 DEF FilledStray, Entering, SubmitBracket
  <1>11. PartsAccounted'
    BY <1>2, <1>10 DEF LiveInductive, PartsAccounted
  <1>12. SharesBounded'
    <2>1. HeldAtMost = 0 /\ HeldAtMost' = 0
      BY <1>1, <1>2, <1>10 DEF HeldAtMost, Bought, Entering
    <2> QED BY <1>2, <1>10, <2>1 DEF LiveInductive, SharesBounded
  <1> QED BY <1>6, <1>7, <1>8, <1>9, <1>11, <1>12 DEF LiveInductive

\* The venue's stop is moved to the row's stop, so it is not above it.
LEMMA MirrorStopStep ==
    ASSUME LiveInductive, MirrorStop
    PROVE  LiveInductive'
  <1>1. /\ pc = "mirror" /\ pc' = "decide" /\ UNCHANGED <<hand, stop>>
        /\ UNCHANGED <<shares, partly, filled, sold, soldTwice, row, sent, known, cut, crashes,
                       expiries, late>>
        /\ row # NoRow
    BY DEF MirrorStop, GoTo, LiveInductive, JobShape
  <1>2. row.stop \in Levels /\ row.stop \in Int
    BY <1>1 DEF LiveInductive, LiveTypeOK, Levels
  <1>3. PartsAccounted' /\ SharesBounded'
    <2>1. FilledStray' = FilledStray /\ ~Entering /\ ~Exited /\ ~Exited'
      BY <1>1 DEF FilledStray, Entering, Exited
    <2>2. HeldAtMost' = HeldAtMost
      BY <1>1, <2>1 DEF HeldAtMost, Bought, Entering
    <2> QED BY <1>1, <2>1, <2>2 DEF LiveInductive, PartsAccounted, SharesBounded, Entering
  <1>4. CASE UNCHANGED orders
    <2>1. errors' \in 0..MaxErrors
      BY RaisesType DEF MirrorStop, LiveInductive, LiveTypeOK
    <2>2. LiveTypeOK' /\ JobShape' /\ WholeTrades'
      BY <1>1, <1>4, <2>1 DEF LiveInductive, LiveTypeOK, JobShape, WholeTrades, Entering, PcStates
    <2>3. OrderShape'
      BY <1>1, <1>4 DEF LiveInductive, OrderShape, Resting, Entering
    <2> QED BY <1>3, <2>2, <2>3 DEF LiveInductive
  <1>5. CASE \E o \in Replaceable : orders' = Moved(o, MirroredLevel) /\ UNCHANGED errors
    <2>1. PICK o \in Replaceable : orders' = Moved(o, MirroredLevel) /\ UNCHANGED errors
      BY <1>5
    <2>2. o \in orders /\ o.kind = "stop"
      BY DEF Replaceable, LiveInductive, LiveTypeOK, OrderShape
    <2> DEFINE p == [o EXCEPT !.level = MirroredLevel]
    <2>3. /\ p.kind = "stop" /\ p.n = o.n /\ p.level = row.stop
          /\ p \in [kind : {"entry", "stop", "target", "exit"}, n : 1..sent,
                     id : 1..sent, level : Levels \cup {NoLevel}]
      BY <1>2, <2>2 DEF LiveInductive, LiveTypeOK, MirroredLevel
    <2>4. orders' = (orders \ {o}) \cup {p}
      BY <2>1 DEF Moved
    <2> HIDE DEF p
    <2>5. LiveTypeOK' /\ JobShape' /\ WholeTrades'
      BY <1>1, <2>1, <2>3, <2>4
         DEF LiveInductive, LiveTypeOK, JobShape, WholeTrades, Entering, PcStates
    <2>6. \A q : Resting(q)' <=> Resting(q)
      BY <2>2, <2>3, <2>4 DEF Resting
    <2>7. Resting(p) <=> Resting(o)
      BY <2>3 DEF Resting
    <2>8. OrderShape'
      BY <1>1, <1>2, <2>2, <2>3, <2>4, <2>6, <2>7 DEF LiveInductive, OrderShape, Entering
    <2> QED BY <1>3, <2>5, <2>8 DEF LiveInductive
  <1> QED BY <1>4, <1>5 DEF MirrorStop

\* A new exit is of the trade on the books.
LEMMA FillMarketStep ==
    ASSUME LiveInductive, FillMarket
    PROVE  LiveInductive'
  <1> DEFINE n == sent + 1
             exit == Order("exit", row.n, n, NoLevel)
  <1>1. /\ n \in Nat \ {0} /\ pc = "sell" /\ sent' = n
        /\ orders' \in {orders, orders \cup {exit}}
        /\ \/ pc' = "awaitExit" /\ hand' = n /\ stop' = stop /\ orders' = orders \cup {exit}
           \/ pc' = "idle" /\ hand' = 0 /\ stop' = NoLevel
        /\ UNCHANGED <<shares, partly, filled, sold, soldTwice, row, known, cut, crashes,
                       expiries, late>>
        /\ row # NoRow /\ row.n \in known
    BY DEF FillMarket, JobEnds, LiveInductive, LiveTypeOK, JobShape
  <1>2. exit.kind = "exit" /\ exit.n = row.n /\ exit.id = n /\ exit.level = NoLevel
    BY DEF Order
  <1>3. NoLevel \notin Levels
    BY LiveAssumption DEF Levels
  <1>4. LiveTypeOK'
    <2>1. errors' \in 0..MaxErrors
      BY RaisesType DEF FillMarket, LiveInductive, LiveTypeOK
    <2>2. 1..sent \subseteq 1..n /\ 0..sent \subseteq 0..n /\ n \in 1..n /\ n \in 0..n /\ 0 \in 0..n
      BY DEF LiveInductive, LiveTypeOK
    <2>3. exit \in [kind : {"entry", "stop", "target", "exit"}, n : 1..n,
                    id : 1..n, level : Levels \cup {NoLevel}]
      BY <1>1, <2>2 DEF Order, LiveInductive, LiveTypeOK
    <2> HIDE DEF n, exit
    <2>4. pc' \in PcStates /\ hand' \in 0..n /\ stop' \in Levels \cup {NoLevel}
      BY <1>1, <2>2 DEF PcStates, LiveInductive, LiveTypeOK
    <2>5. orders' \subseteq [kind : {"entry", "stop", "target", "exit"}, n : 1..n,
                             id : 1..n, level : Levels \cup {NoLevel}]
      BY <1>1, <2>2, <2>3 DEF LiveInductive, LiveTypeOK
    <2> QED BY <1>1, <2>1, <2>2, <2>4, <2>5 DEF LiveInductive, LiveTypeOK
  <1> HIDE DEF n, exit
  <1>5. JobShape'
    BY <1>1 DEF LiveInductive, JobShape, Entering
  <1>6. OrderShape'
    <2>1. \A q : Resting(q)' <=> Resting(q)
      BY <1>1, <1>2 DEF Resting
    <2> QED BY <1>1, <1>2, <1>3, <2>1 DEF LiveInductive, OrderShape, Entering
  <1>7. WholeTrades'
    BY <1>1 DEF LiveInductive, WholeTrades
  <1>8. FilledStray' = FilledStray /\ ~Entering /\ ~Entering'
    BY <1>1 DEF FilledStray, Entering
  <1>9. PartsAccounted'
    BY <1>1, <1>8 DEF LiveInductive, PartsAccounted
  <1>10. SharesBounded'
    <2>1. pc' = "awaitExit" => ExitOpen'
      BY <1>1, <1>2 DEF ExitOpen
    <2>2. ~Exited /\ ~Exited'
      BY <1>1, <2>1 DEF Exited
    <2>3. HeldAtMost' = HeldAtMost
      BY <1>1, <1>8, <2>2 DEF HeldAtMost, Bought
    <2> QED BY <1>1, <1>8, <2>3 DEF LiveInductive, SharesBounded
  <1> QED BY <1>4, <1>5, <1>6, <1>7, <1>9, <1>10 DEF LiveInductive

-----------------------------------------------------------------------------
(* Steps that write the row.                                               *)

\* A row may be closed when nothing is left to hold; its part is cut.
LEMMA RowCloses ==
    ASSUME LiveInductive,
           UNCHANGED <<venue, sent, known>>,
           row' = NoRow, MarkCut, ~Entering, ~Entering',
           pc' = "idle", hand' \in {0, hand}, stop' \in {NoLevel, stop},
           FilledStray = {} /\ cut' = {} /\ late = 0 => shares <= 0,
           errors' \in 0..MaxErrors, crashes' \in 0..MaxCrashes,
           expiries' \in 0..MaxExpiries, late' = late
    PROVE  LiveInductive'
  <1>1. LiveTypeOK'
    <2>1. hand' \in 0..sent
      BY DEF LiveInductive, LiveTypeOK
    <2>2. cut' \subseteq known
      BY DEF MarkCut, LiveInductive, LiveTypeOK, JobShape
    <2> QED BY <2>1, <2>2 DEF LiveInductive, LiveTypeOK, venue, PcStates
  <1>2. JobShape'
    BY DEF LiveInductive, JobShape
  <1>3. OrderShape'
    <2>1. \A o : Resting(o)' <=> Resting(o)
      BY DEF Resting, venue
    <2> QED BY <2>1 DEF LiveInductive, OrderShape, venue
  <1>4. WholeTrades'
    BY DEF LiveInductive, WholeTrades, venue
  <1>5. FilledStray' = FilledStray
    BY DEF FilledStray, venue
  <1>6. PartsAccounted'
    BY <1>5 DEF LiveInductive, PartsAccounted, MarkCut, venue
  <1>7. SharesBounded'
    BY <1>5 DEF SharesBounded, HeldAtMost, venue
  <1> QED BY <1>1, <1>2, <1>3, <1>4, <1>6, <1>7 DEF LiveInductive

\* Of whole trades there is never more than one.
LEMMA NoMoreThanOneTrade ==
    ASSUME LiveInductive, FilledStray = {}, cut = {}, late = 0
    PROVE  shares <= Qty
  <1>1. HeldAtMost <= Qty /\ HeldAtMost \in Int
    BY LiveAssumption DEF HeldAtMost, Bought
  <1> QED BY <1>1, LiveAssumption DEF LiveInductive, LiveTypeOK, SharesBounded

\* A row that is closed without being cut leaves no part behind.
LEMMA NoPartsLeft ==
    ASSUME LiveInductive, MarkCut, row' = NoRow, ~Entering, FilledStray = {}, cut' = {}
    PROVE  cut = {} /\ partly = {} /\ Held = shares
  <1>1. cut = {} /\ partly = {}
    BY DEF LiveInductive, PartsAccounted, MarkCut
  <1> QED BY <1>1, PartsHeld DEF LiveInductive

\* A boot drops a row only if the account does not hold the trade.
LEMMA StartDayStep ==
    ASSUME LiveInductive, StartDay
    PROVE  LiveInductive'
  <1>1. /\ UNCHANGED <<venue, hand, stop, sent, known, crashes, expiries, late>>
        /\ ~Entering /\ ~Entering' /\ pc' = "idle" /\ pc \in {"down", "idle"}
        /\ errors' \in 0..MaxErrors /\ MarkCut
    BY RaisesType DEF StartDay, Entering, LiveInductive, LiveTypeOK
  <1>2. CASE row' = NoRow
    <2>1. FilledStray = {} /\ cut' = {} /\ late = 0 => shares <= 0
      <3>1. SUFFICES ASSUME FilledStray = {}, cut' = {}, late = 0 PROVE shares <= 0
        OBVIOUS
      <3>2. cut = {} /\ Held = shares
        BY <1>1, <1>2, <3>1, NoPartsLeft
      <3>3. CASE row = NoRow
        BY <1>1, <3>1, <3>2, <3>3 DEF LiveInductive, SharesBounded, HeldAtMost
      <3>4. CASE row # NoRow
        <4>1. shares # Qty
          BY <1>2, <3>2, <3>4 DEF StartDay, Reconciled
        <4>2. shares < Qty
          BY <3>1, <3>2, <4>1, NoMoreThanOneTrade, LiveAssumption
             DEF LiveInductive, LiveTypeOK
        <4> QED BY <4>2, LessThanOneTrade DEF LiveInductive
      <3> QED BY <3>3, <3>4
    <2> QED BY <1>1, <1>2, <2>1, RowCloses DEF LiveInductive, LiveTypeOK
  <1>3. CASE row' # NoRow
    <2>1. row' = row /\ cut' = cut
      BY <1>1, <1>3 DEF StartDay, Reconciled, MarkCut
    <2>2. LiveTypeOK' /\ JobShape' /\ WholeTrades'
      BY <1>1, <2>1 DEF LiveInductive, LiveTypeOK, JobShape, WholeTrades, PcStates, venue
    <2>3. OrderShape'
      BY <1>1, <2>1 DEF LiveInductive, OrderShape, Resting, venue
    <2>4. FilledStray' = FilledStray
      BY <1>1 DEF FilledStray, venue
    <2>5. PartsAccounted'
      BY <1>1, <2>1, <2>4 DEF LiveInductive, PartsAccounted, venue
    <2>6. SharesBounded'
      BY <1>1, <2>1, <2>4 DEF LiveInductive, SharesBounded, HeldAtMost, Bought, Exited, venue
    <2> QED BY <2>2, <2>3, <2>5, <2>6 DEF LiveInductive
  <1> QED BY <1>2, <1>3

\* The row of a filled entry takes over its shares and its stop.
LEMMA RecordEntryStep ==
    ASSUME LiveInductive, RecordEntry
    PROVE  LiveInductive'
  <1>1. /\ UNCHANGED <<venue, sent, cut, counts>>
        /\ pc = "record" /\ pc' = "manage" /\ hand' = 0 /\ stop' = NoLevel
        /\ row' = [n |-> hand, stop |-> stop] /\ known' = known \cup {hand}
        /\ hand \in 1..sent /\ hand \in filled \cup partly /\ hand \notin known
        /\ stop \in Levels /\ row = NoRow
    BY DEF RecordEntry, LiveInductive, JobShape, Entering
  <1>2. row'.n = hand /\ row'.stop = stop /\ row' \in [n : 1..sent, stop : Levels]
    BY <1>1
  <1>3. row' # NoRow
    <2>1. row' \in [n : Nat, stop : Nat]
      BY <1>1 DEF Levels, LiveInductive, LiveTypeOK
    <2> QED BY <2>1, LiveAssumption
  <1>4. LiveTypeOK'
    BY <1>1, <1>2 DEF LiveInductive, LiveTypeOK, venue, counts, PcStates
  <1>5. JobShape'
    BY <1>1, <1>2, <1>3 DEF JobShape, Entering
  <1>6. OrderShape'
    <2>1. \A o : Resting(o)' <=> Resting(o)
      BY <1>1 DEF Resting, venue
    <2> QED BY <1>1, <1>2, <2>1 DEF LiveInductive, OrderShape, Entering, venue
  <1>7. WholeTrades'
    BY <1>1 DEF LiveInductive, WholeTrades, venue
  <1>8. FilledStray' = FilledStray /\ Entering /\ ~Entering'
    BY <1>1 DEF FilledStray, Entering, venue
  <1>9. PartsAccounted'
    BY <1>1, <1>2, <1>3, <1>8 DEF LiveInductive, PartsAccounted, venue
  <1>10. SharesBounded'
    <2>1. HeldAtMost' = HeldAtMost
      BY <1>1, <1>2, <1>3, <1>8 DEF HeldAtMost, Bought, Exited, venue
    <2> QED BY <1>1, <1>8, <2>1 DEF LiveInductive, SharesBounded, venue, counts
  <1> QED BY <1>4, <1>5, <1>6, <1>7, <1>9, <1>10 DEF LiveInductive

\* A trail lifts the row's stop over the venue's.
LEMMA TrailStep ==
    ASSUME LiveInductive, Trail
    PROVE  LiveInductive'
  <1>1. /\ UNCHANGED <<venue, hand, stop, sent, known, cut, counts>>
        /\ pc = "trail" /\ pc' \in {"decide", "mirror"}
        /\ row # NoRow /\ row \in [n : 1..sent, stop : Levels]
    BY DEF Trail, GoTo, LiveInductive, LiveTypeOK, JobShape
  <1>2. /\ row' \in [n : 1..sent, stop : Levels]
        /\ row'.n = row.n /\ row'.stop >= row.stop
    <2>1. CASE row' = row
      BY <1>1, <2>1 DEF Levels
    <2>2. CASE \E level \in Levels : level > row.stop /\ row' = [row EXCEPT !.stop = level]
      BY <1>1, <2>2 DEF Levels
    <2> QED BY <2>1, <2>2 DEF Trail
  <1>3. row' # NoRow
    <2>1. row' \in [n : Nat, stop : Nat]
      BY <1>2 DEF Levels
    <2> QED BY <2>1, LiveAssumption
  <1>4. LiveTypeOK' /\ WholeTrades'
    BY <1>1, <1>2 DEF LiveInductive, LiveTypeOK, WholeTrades, venue, counts, PcStates
  <1>5. JobShape'
    BY <1>1, <1>2, <1>3 DEF LiveInductive, JobShape, Entering
  <1>6. OrderShape'
    <2>1. \A o : Resting(o)' <=> Resting(o)
      BY <1>1 DEF Resting, venue
    <2>2. \A o \in orders : o.level <= row.stop /\ o.level \in Levels => o.level <= row'.stop
      BY <1>1, <1>2 DEF Levels
    <2> QED BY <1>1, <1>2, <2>1, <2>2 DEF LiveInductive, OrderShape, Entering, venue
  <1>7. FilledStray' = FilledStray /\ ~Entering /\ ~Entering'
    BY <1>1 DEF FilledStray, Entering, venue
  <1>8. PartsAccounted'
    BY <1>1, <1>2, <1>3, <1>7 DEF LiveInductive, PartsAccounted, venue
  <1>9. SharesBounded'
    <2>1. HeldAtMost' = HeldAtMost
      BY <1>1, <1>2, <1>3, <1>7 DEF HeldAtMost, Bought, Exited, venue
    <2> QED BY <1>1, <1>7, <2>1 DEF LiveInductive, SharesBounded, venue, counts
  <1> QED BY <1>4, <1>5, <1>6, <1>8, <1>9 DEF LiveInductive

\* The sync drops a row whose shares are gone, and nothing else.
LEMMA SyncBrokerExitsStep ==
    ASSUME LiveInductive, SyncBrokerExits
    PROVE  LiveInductive'
  <1>1. /\ UNCHANGED <<venue, sent, known, crashes, expiries, late>>
        /\ pc = "manage" /\ row # NoRow /\ ~Entering
        /\ errors' \in 0..MaxErrors /\ MarkCut
    BY RaisesType DEF SyncBrokerExits, Entering, LiveInductive, LiveTypeOK
  <1>2. CASE ExitedAtBroker /\ row' = NoRow /\ JobEnds
    <2>1. FilledStray = {} /\ cut' = {} /\ late = 0 => shares <= 0
      BY <1>1, <1>2, NoPartsLeft DEF ExitedAtBroker
    <2> QED BY <1>1, <1>2, <2>1, RowCloses DEF JobEnds, Entering, LiveInductive, LiveTypeOK
  <1>3. CASE GoTo("trail") /\ UNCHANGED row
    <2>1. cut' = cut
      BY <1>1, <1>3 DEF MarkCut
    <2>2. LiveTypeOK' /\ JobShape' /\ WholeTrades'
      BY <1>1, <1>3, <2>1
         DEF GoTo, LiveInductive, LiveTypeOK, JobShape, WholeTrades, Entering, PcStates, venue
    <2>3. OrderShape'
      BY <1>1, <1>3 DEF GoTo, LiveInductive, OrderShape, Resting, Entering, venue
    <2>4. FilledStray' = FilledStray /\ ~Entering'
      BY <1>1, <1>3 DEF GoTo, FilledStray, Entering, venue
    <2>5. PartsAccounted'
      BY <1>1, <1>3, <2>1, <2>4 DEF LiveInductive, PartsAccounted, venue
    <2>6. SharesBounded'
      BY <1>1, <1>3, <2>1, <2>4
         DEF GoTo, LiveInductive, SharesBounded, HeldAtMost, Bought, Exited, venue
    <2> QED BY <2>2, <2>3, <2>5, <2>6 DEF LiveInductive
  <1> QED BY <1>2, <1>3 DEF SyncBrokerExits

\* The row of an exit that has filled is closed.
LEMMA RecordExitStep ==
    ASSUME LiveInductive, RecordExit
    PROVE  LiveInductive'
  <1>1. /\ UNCHANGED <<venue, sent, known, counts>>
        /\ pc = "close" /\ row' = NoRow /\ JobEnds /\ MarkCut /\ row # NoRow /\ ~Entering
    BY DEF RecordExit, LiveInductive, JobShape, Entering
  <1>2. FilledStray = {} /\ cut' = {} /\ late = 0 => shares <= 0
    <2>1. SUFFICES ASSUME FilledStray = {}, cut' = {}, late = 0 PROVE shares <= 0
      OBVIOUS
    <2>2. cut = {}
      BY <1>1, <2>1 DEF MarkCut
    <2>3. shares <= Bought(row.n) - Qty
      BY <1>1, <2>1, <2>2 DEF LiveInductive, SharesBounded, HeldAtMost, Exited
    <2> QED BY <2>3, LiveAssumption DEF Bought, LiveInductive, LiveTypeOK
  <1> QED BY <1>1, <1>2, RowCloses DEF JobEnds, Entering, counts, LiveInductive, LiveTypeOK

-----------------------------------------------------------------------------
(* The theorems.                                                           *)

\* Every step of the venue, the process and its jobs keeps the invariant.
LEMMA LiveStepInductive ==
    ASSUME LiveInductive, [LiveNext]_liveVars
    PROVE  LiveInductive'
  <1>1. CASE UNCHANGED liveVars
    <2>1. LiveTypeOK' /\ JobShape' /\ WholeTrades'
      BY <1>1 DEF liveVars, venue, process, counts, LiveInductive, LiveTypeOK, JobShape,
                  WholeTrades, Entering
    <2>2. OrderShape'
      BY <1>1 DEF liveVars, venue, process, LiveInductive, OrderShape, Resting, Entering
    <2>3. PartsAccounted' /\ SharesBounded'
      BY <1>1 DEF liveVars, venue, process, counts, LiveInductive, PartsAccounted, SharesBounded,
                  FilledStray, HeldAtMost, Bought, Exited, ExitOpen, Entering
    <2> QED BY <2>1, <2>2, <2>3 DEF LiveInductive
  <1>2. CASE Venue
    BY <1>2, EntryFillsInPartStep, EntryFillsStep, LegFillsStep, ExitFillsStep, CancelSteps
       DEF Venue
  <1>3. CASE Entry
    BY <1>3, QuietSteps, SubmitBracketStep, CancelSteps, RecordEntryStep
       DEF Entry, QuietStep
  <1>4. CASE Manage
    BY <1>4, QuietSteps, SyncBrokerExitsStep, TrailStep, MirrorStopStep
       DEF Manage, QuietStep
  <1>5. CASE ClosePosition
    BY <1>5, QuietSteps, CancelSteps, FillMarketStep, RecordExitStep
       DEF ClosePosition, QuietStep
  <1>6. CASE Crash \/ CallRaises \/ BeginCycle \/ Flatten
    BY <1>6, QuietSteps DEF QuietStep
  <1>7. CASE StartDay
    BY <1>7, StartDayStep
  <1> QED BY <1>1, <1>2, <1>3, <1>4, <1>5, <1>6, <1>7 DEF LiveNext, JobStep

\* The invariant holds of live trading, whatever fails, dies or expires.
THEOREM LiveInductiveInvariant == LiveSpec => []LiveInductive
  <1> QED BY LiveInitInductive, LiveStepInductive, PTL DEF LiveSpec

\* Every variable keeps its type; a trade that was never filled is never sold.
THEOREM LiveTypeCorrect == LiveSpec => []LiveTypeOK
  <1>1. LiveInductive => LiveTypeOK
    BY DEF LiveInductive
  <1> QED BY <1>1, LiveInductiveInvariant, PTL

\* Unless an entry goes astray, an exit outlasts its polls or a row is closed on
\* a part, the account never holds more than the row says and never holds shares
\* without a row: no reconciliation, sync or exit drops a row whose shares are
\* still there (execution_engine.py: _record_close, _close_position).
THEOREM SharesStayOnTheBooks == LiveSpec => []SharesAreOnTheBooks
  <1>1. LiveInductive => SharesAreOnTheBooks
    <2> DEFINE OnBooks == row # NoRow \/ Entering
    <2>1. SUFFICES ASSUME LiveInductive, Stray = {}, cut = {}, late = 0
                   PROVE  Held <= IF OnBooks THEN Qty ELSE 0
      BY DEF SharesAreOnTheBooks, Entering
    <2>2. FilledStray = {}
      BY <2>1 DEF FilledStray, Stray, Entering, LiveInductive, LiveTypeOK
    <2>3. shares <= HeldAtMost /\ shares \in Int
      BY <2>1, <2>2 DEF LiveInductive, LiveTypeOK, SharesBounded
    <2>4. CASE partly = {}
      <3>1. Held = shares
        BY <2>1, <2>4, PartsHeld DEF LiveInductive
      <3> QED BY <2>1, <2>2, <2>3, <3>1, NoMoreThanOneTrade DEF HeldAtMost
    <2>5. CASE partly # {}
      <3> DEFINE n == IF Entering THEN hand ELSE row.n
      <3>1. partly \subseteq {n} /\ OnBooks
        BY <2>1, <2>2, <2>5 DEF LiveInductive, PartsAccounted, JobShape
      <3>2. n \notin filled
        BY <2>1, <2>5, <3>1 DEF LiveInductive, LiveTypeOK
      <3>3. HeldAtMost <= 0 /\ HeldAtMost \in Int
        BY <3>1, <3>2, LiveAssumption DEF HeldAtMost, Bought
      <3>4. Held <= shares + Part
        BY <2>1, <3>1, PartsHeld DEF LiveInductive
      <3>5. Held \in Int
        BY <2>1, <3>1, PartsHeld DEF LiveInductive
      <3> QED BY <2>3, <3>1, <3>3, <3>4, <3>5, LiveAssumption
    <2> QED BY <2>4, <2>5
  <1> QED BY <1>1, LiveInductiveInvariant, PTL

\* The stop resting at the venue is never above the one on the books, across
\* trails, failed replacements, crashes and restarts (LiveBroker.replace_stop).
THEOREM VenueStopNeverAhead == LiveSpec => []VenueStopBehindRow
  <1>1. LiveInductive => VenueStopBehindRow
    BY DEF LiveInductive, OrderShape, VenueStopBehindRow
  <1> QED BY <1>1, LiveInductiveInvariant, PTL

-----------------------------------------------------------------------------
(* What the orphaned and the naked orders need besides.                   *)

\* An error is counted.
LEMMA ErrorsCount ==
    ASSUME LiveTypeOK, Raises
    PROVE  errors' # 0
  BY LiveAssumption DEF Raises, LiveTypeOK

\* What a step of the venue leaves alone.
LEMMA VenueSteps ==
    ASSUME LiveInductive, Venue
    PROVE  /\ UNCHANGED <<row, process, sent, known, cut, errors, crashes, late>>
           /\ \/ UNCHANGED expiries
              \/ expiries' # 0 /\ orders' = {} /\ pc \in {"idle", "down"}
           /\ filled \cup partly \subseteq filled' \cup partly'
           /\ orders' \subseteq orders
           /\ sold \subseteq sold' /\ soldTwice \subseteq soldTwice'
  <1>1. Close => expiries' # 0
    BY DEF Close, LiveInductive, LiveTypeOK
  <1> QED BY <1>1 DEF Venue, EntryFillsInPart, EntryFills, LegFills, ExitFills, Sells, Close,
                      process, counts

\* What a step that touches neither the venue nor the row may do.
LEMMA QuietFacts ==
    ASSUME LiveInductive, QuietStep
    PROVE  /\ UNCHANGED <<venue, row, sent, known, cut, expiries>>
           /\ Entering' => Entering /\ UNCHANGED <<hand, stop>>
           /\ errors' # 0 \/ UNCHANGED errors
           /\ crashes' # 0 \/ UNCHANGED crashes
           /\ late' # 0 \/ UNCHANGED late
           /\ pc' = "down" => crashes' # 0
           /\ pc' # "awaitExit"
           /\ pc' = "sell" => FALSE
           /\ pc' = "close" => pc = "awaitExit" /\ (late' # 0 \/ ~ExitOpen)
           /\ Entering /\ ~Entering' => crashes' # 0 \/ errors' # 0
           /\ Selling /\ ~Selling' => crashes' # 0 \/ errors' # 0
  <1>1. /\ Raises => errors' # 0
        /\ crashes' = crashes + 1 => crashes' # 0
        /\ late' = late + 1 => late' # 0
    BY ErrorsCount DEF LiveInductive, LiveTypeOK
  <1> QED BY <1>1 DEF QuietStep, Crash, CallRaises, BeginCycle, SkipSignals, AwaitFill,
                      NothingToManage, NoPrice, Keep, ExitDue, Flatten, AwaitExit,
                      JobEnds, GoTo, Entering, Selling, counts

\* What has gone wrong is not undone.
LEMMA TroubleStays ==
    ASSUME LiveInductive, [LiveNext]_liveVars
    PROVE  /\ errors' = 0 => errors = 0
           /\ crashes' = 0 => crashes = 0
           /\ expiries' = 0 => expiries = 0
           /\ late' = 0 => late = 0
           /\ FilledStray' = {} => FilledStray = {}
           /\ cut' = {} => cut = {}
           /\ soldTwice' = {} => soldTwice = {}
  <1>0. Raises => errors' # 0
    BY ErrorsCount DEF LiveInductive
  <1>1. CASE UNCHANGED liveVars
    <2>1. FilledStray' = FilledStray
      BY <1>1 DEF liveVars, venue, process, FilledStray, Entering
    <2> QED BY <1>1, <2>1 DEF liveVars, venue, process, counts
  <1>2. CASE Venue
    <2>1. FilledStray \subseteq FilledStray'
      BY <1>2, VenueSteps DEF FilledStray, Entering, process
    <2> QED BY <1>2, <2>1, VenueSteps
  <1>3. CASE QuietStep
    <2>1. FilledStray \subseteq FilledStray'
      BY <1>3, QuietFacts DEF FilledStray, venue
    <2> QED BY <1>3, <2>1, QuietFacts DEF venue
  <1>4. CASE StartDay \/ SyncBrokerExits \/ Trail \/ MirrorStop \/ CancelSymbolOrders
             \/ FillMarket \/ RecordExit
    <2>1. ~Entering /\ ~Entering' /\ UNCHANGED <<filled, partly, known, soldTwice>>
      BY <1>4 DEF StartDay, SyncBrokerExits, Trail, MirrorStop, CancelSymbolOrders, FillMarket,
                  RecordExit, Entering, GoTo, JobEnds, venue
    <2>2. FilledStray' = FilledStray
      BY <2>1 DEF FilledStray
    <2>3. cut \subseteq cut' /\ UNCHANGED <<crashes, expiries, late>>
      BY <1>4 DEF StartDay, SyncBrokerExits, Trail, MirrorStop, CancelSymbolOrders, FillMarket,
                  RecordExit, MarkCut, counts
    <2>4. UNCHANGED errors \/ errors' # 0
      BY <1>0, <1>4 DEF StartDay, SyncBrokerExits, Trail, MirrorStop, CancelSymbolOrders,
                  FillMarket, RecordExit, counts
    <2> QED BY <2>1, <2>2, <2>3, <2>4
  <1>5. CASE \E level \in Levels : SubmitBracket(level)
    <2>1. /\ UNCHANGED <<filled, partly, known, soldTwice, cut, crashes, expiries, late>>
          /\ ~Entering /\ (Entering' => hand' = sent + 1)
          /\ UNCHANGED errors \/ errors' # 0
      BY <1>0, <1>5 DEF SubmitBracket, JobEnds, Entering
    <2>2. sent + 1 \notin filled \cup partly
      BY DEF LiveInductive, LiveTypeOK
    <2>3. FilledStray \subseteq FilledStray'
      BY <2>1, <2>2 DEF FilledStray
    <2> QED BY <2>1, <2>3
  <1>6. CASE CancelEntry \/ RecordEntry
    <2>1. /\ UNCHANGED <<filled, partly, soldTwice, cut, crashes, expiries, late>>
          /\ Entering /\ ~Entering' /\ known' \subseteq known \cup {hand}
          /\ UNCHANGED errors \/ errors' # 0
      BY <1>0, <1>6 DEF CancelEntry, RecordEntry, Entering, venue, counts
    <2>2. FilledStray \subseteq FilledStray'
      BY <2>1 DEF FilledStray
    <2> QED BY <2>1, <2>2
  <1> QED
    BY <1>1, <1>2, <1>3, <1>4, <1>5, <1>6
       DEF LiveNext, JobStep, Entry, Manage, ClosePosition, QuietStep

-----------------------------------------------------------------------------
(* The orders at the venue.                                                *)

\* Orders are sent by SubmitBracket and FillMarket only, and moved by MirrorStop.
LEMMA NoOtherOrders ==
    ASSUME LiveInductive, [LiveNext]_liveVars
    PROVE  \/ orders' \subseteq orders /\ (Selling' => Selling)
           \/ CancelSymbolOrders \/ MirrorStop \/ FillMarket
           \/ \E level \in Levels : SubmitBracket(level)
  <1>1. CASE UNCHANGED liveVars
    BY <1>1 DEF liveVars, venue, process, Selling
  <1>2. CASE Venue
    BY <1>2, VenueSteps DEF process, Selling
  <1>3. CASE QuietStep
    BY <1>3, QuietFacts DEF venue, Selling
  <1>4. CASE StartDay \/ SyncBrokerExits \/ Trail \/ RecordExit \/ RecordEntry
    BY <1>4 DEF StartDay, SyncBrokerExits, Trail, RecordExit, RecordEntry, GoTo, JobEnds,
                venue, Selling
  <1>5. CASE CancelEntry
    BY <1>5 DEF CancelEntry, Without, Selling
  <1> QED
    BY <1>1, <1>2, <1>3, <1>4, <1>5
       DEF LiveNext, JobStep, Entry, Manage, ClosePosition, QuietStep

\* Exits are sent after every other order was lifted.
LEMMA ExitsComeLastStep ==
    ASSUME LiveInductive, ExitsComeLast, [LiveNext]_liveVars
    PROVE  ExitsComeLast'
  <1>0. SUFFICES ASSUME errors' = 0
                 PROVE  /\ Selling' => \A o \in orders' : o.kind = "exit"
                        /\ \A o, p \in orders' : o.kind = "exit" /\ p.n = o.n => p.kind = "exit"
    BY DEF ExitsComeLast
  <1>1. /\ errors = 0 /\ ~Raises
        /\ Selling => \A o \in orders : o.kind = "exit"
        /\ \A o, p \in orders : o.kind = "exit" /\ p.n = o.n => p.kind = "exit"
    BY <1>0, TroubleStays, ErrorsCount DEF ExitsComeLast, LiveInductive
  <1>2. CASE orders' \subseteq orders /\ (Selling' => Selling)
    BY <1>1, <1>2
  <1>3. CASE CancelSymbolOrders
    BY <1>1, <1>3 DEF CancelSymbolOrders, Left
  <1>4. CASE MirrorStop
    <2>1. ~Selling'
      BY <1>4 DEF MirrorStop, GoTo, Selling
    <2>2. CASE UNCHANGED orders
      BY <1>1, <2>1, <2>2
    <2>3. CASE \E o \in Replaceable : orders' = Moved(o, MirroredLevel)
      <3>1. PICK o \in Replaceable : orders' = Moved(o, MirroredLevel)
        BY <2>3
      <3> DEFINE p == [o EXCEPT !.level = MirroredLevel]
      <3>2. o \in orders /\ p.kind = o.kind /\ p.n = o.n
        BY DEF Replaceable, LiveInductive, LiveTypeOK
      <3>3. orders' = (orders \ {o}) \cup {p}
        BY <3>1 DEF Moved
      <3> HIDE DEF p
      <3> QED BY <1>1, <2>1, <3>2, <3>3
    <2> QED BY <1>1, <1>4, <2>2, <2>3 DEF MirrorStop
  <1>5. CASE FillMarket
    <2>1. /\ orders' = orders \cup {Order("exit", row.n, sent + 1, NoLevel)}
          /\ Selling
      BY <1>1, <1>5 DEF FillMarket, Selling
    <2> QED BY <1>1, <2>1 DEF Order
  <1>6. CASE \E level \in Levels : SubmitBracket(level)
    <2>1. PICK level \in Levels : SubmitBracket(level)
      BY <1>6
    <2>2. orders' = orders \cup BracketOrders(sent + 1, level) /\ ~Selling'
      BY <1>1, <2>1 DEF SubmitBracket, Selling
    <2>3. \A o \in BracketOrders(sent + 1, level) : o.kind # "exit" /\ o.n = sent + 1
      BY DEF BracketOrders, Order
    <2>4. \A o \in orders : o.n # sent + 1
      BY DEF LiveInductive, LiveTypeOK
    <2> QED BY <1>1, <2>2, <2>3, <2>4
  <1> QED BY <1>2, <1>3, <1>4, <1>5, <1>6, NoOtherOrders

\* The exit in hand stays open until it has sold.
LEMMA ExitsSellStep ==
    ASSUME LiveInductive, ExitsSell, [LiveNext]_liveVars
    PROVE  ExitsSell'
  <1> DEFINE exit == Order("exit", row.n, hand, NoLevel)
  <1>1. CASE UNCHANGED liveVars
    BY <1>1 DEF liveVars, venue, process, counts, ExitsSell
  <1>2. CASE Venue
    <2>1. UNCHANGED <<row, pc, hand, late>> /\ sold \subseteq sold'
      BY <1>2, VenueSteps DEF process
    <2>2. ASSUME pc = "awaitExit", exit \in orders
          PROVE  row.n \in sold' \/ exit \in orders'
      <3>0. exit.kind = "exit" /\ exit.n = row.n
        BY DEF Order
      <3> HIDE DEF exit
      <3>1. ASSUME NEW o \in orders, EntryFillsInPart(o) \/ EntryFills(o)
            PROVE  exit \in orders'
        BY <2>2, <3>0, <3>1 DEF EntryFillsInPart, EntryFills
      <3>2. ASSUME NEW o \in orders, LegFills(o)
            PROVE  exit \in orders'
        BY <2>2, <3>0, <3>2 DEF LegFills
      <3>3. ASSUME NEW o \in orders, ExitFills(o)
            PROVE  row.n \in sold' \/ exit \in orders'
        BY <2>2, <3>0, <3>3 DEF ExitFills, Sells
      <3>4. ~Close
        BY <2>2 DEF Close
      <3> QED BY <1>2, <3>1, <3>2, <3>3, <3>4 DEF Venue
    <2> QED BY <2>1, <2>2 DEF ExitsSell
  <1>3. CASE QuietStep
    <2>1. pc' = "close" /\ late' = 0 => pc = "awaitExit" /\ ~ExitOpen
      BY <1>3, QuietFacts
    <2>2. ~ExitOpen => exit \notin orders
      BY DEF ExitOpen, Order
    <2> QED BY <1>3, <2>1, <2>2, QuietFacts DEF ExitsSell, venue
  <1>4. CASE FillMarket
    <2>1. pc' = "awaitExit" \/ pc' = "idle"
      BY <1>4 DEF FillMarket, JobEnds
    <2>2. pc' = "awaitExit" => Order("exit", row'.n, hand', NoLevel) \in orders'
      BY <1>4 DEF FillMarket, JobEnds
    <2> QED BY <2>1, <2>2 DEF ExitsSell
  <1>5. CASE StartDay \/ SyncBrokerExits \/ Trail \/ MirrorStop \/ CancelSymbolOrders
             \/ RecordExit \/ CancelEntry \/ RecordEntry
             \/ \E level \in Levels : SubmitBracket(level)
    <2>1. pc' \notin {"awaitExit", "close"}
      BY <1>5 DEF StartDay, SyncBrokerExits, Trail, MirrorStop, CancelSymbolOrders,
                  RecordExit, CancelEntry, RecordEntry, SubmitBracket, GoTo, JobEnds
    <2> QED BY <2>1 DEF ExitsSell
  <1> QED
    BY <1>1, <1>2, <1>3, <1>4, <1>5
       DEF LiveNext, JobStep, Entry, Manage, ClosePosition, QuietStep

\* An entry that does not work will not work later.
LEMMA NoOldEntries ==
    ASSUME LiveInductive, [LiveNext]_liveVars, NEW n \in 1..sent, Working(n)'
    PROVE  Working(n)
  <1>1. PICK e \in orders' : e.kind = "entry" /\ e.n = n
    BY DEF Working
  <1>2. SUFFICES ASSUME e \notin orders PROVE Working(n)
    BY <1>1 DEF Working
  <1>3. CASE CancelSymbolOrders
    BY <1>2, <1>3 DEF CancelSymbolOrders, Left
  <1>4. CASE MirrorStop
    <2>1. PICK o \in Replaceable : orders' = Moved(o, MirroredLevel)
      BY <1>2, <1>4 DEF MirrorStop
    <2> DEFINE p == [o EXCEPT !.level = MirroredLevel]
    <2>2. o \in orders /\ p.kind = o.kind /\ p.n = o.n
      BY DEF Replaceable, LiveInductive, LiveTypeOK
    <2>3. orders' = (orders \ {o}) \cup {p}
      BY <2>1 DEF Moved
    <2> HIDE DEF p
    <2> QED BY <1>1, <1>2, <2>2, <2>3 DEF Working
  <1>5. CASE FillMarket
    BY <1>1, <1>2, <1>5 DEF FillMarket, Order
  <1>6. CASE \E level \in Levels : SubmitBracket(level)
    <2>1. PICK level \in Levels : SubmitBracket(level)
      BY <1>6
    <2>2. e \in BracketOrders(sent + 1, level)
      BY <1>2, <2>1 DEF SubmitBracket
    <2>3. e.n = sent + 1
      BY <2>2 DEF BracketOrders, Order
    <2> QED BY <1>1, <2>3 DEF LiveInductive, LiveTypeOK
  <1> QED BY <1>2, <1>3, <1>4, <1>5, <1>6, NoOtherOrders

\* A part that is left behind stays, and the sync leaves none behind.
LEMMA PartsStayStep ==
    ASSUME LiveInductive, ExitsComeLast, PartsStay, [LiveNext]_liveVars
    PROVE  PartsStay'
  <1>1. partly' # {} => Part > 0
    <2>1. partly' \subseteq partly \/ Part > 0
      BY DEF LiveNext, Venue, JobStep, Entry, Manage, ClosePosition, EntryFillsInPart, EntryFills,
             LegFills, ExitFills, Close, Crash, StartDay, BeginCycle, Flatten, SkipSignals,
             SubmitBracket, AwaitFill, CancelEntry, RecordEntry, NothingToManage,
             SyncBrokerExits, NoPrice, Trail, MirrorStop, Keep, ExitDue, CancelSymbolOrders,
             FillMarket, AwaitExit, RecordExit, CallRaises, liveVars, venue
    <2> QED BY <2>1 DEF PartsStay
  <1>2. pc' = "down" /\ crashes' = 0 => orders' = {}
    <2>1. SUFFICES ASSUME pc' = "down", crashes' = 0 PROVE orders' = {}
      OBVIOUS
    <2>2. crashes = 0
      BY <2>1, TroubleStays
    <2>3. CASE UNCHANGED liveVars
      BY <2>1, <2>2, <2>3 DEF PartsStay, liveVars, venue, process
    <2>4. CASE Venue
      BY <2>1, <2>2, <2>4, VenueSteps DEF PartsStay, process
    <2>5. ~QuietStep
      BY <2>1, QuietFacts
    <2>6. ~(\/ StartDay \/ SyncBrokerExits \/ Trail \/ MirrorStop \/ CancelSymbolOrders
            \/ RecordExit \/ CancelEntry \/ RecordEntry \/ FillMarket
            \/ \E level \in Levels : SubmitBracket(level))
      BY <2>1 DEF StartDay, SyncBrokerExits, Trail, MirrorStop, CancelSymbolOrders,
                  RecordExit, CancelEntry, RecordEntry, FillMarket, SubmitBracket, GoTo, JobEnds
    <2> QED
      BY <2>3, <2>4, <2>5, <2>6
         DEF LiveNext, JobStep, Entry, Manage, ClosePosition, QuietStep
  <1>3. ASSUME errors' = 0, crashes' = 0, FilledStray' = {}, cut' # {}
        PROVE  \E n \in cut' \cap partly' : ~Working(n)'
    <2>1. errors = 0 /\ crashes = 0 /\ FilledStray = {}
      BY <1>3, TroubleStays
    <2>2. CASE cut # {}
      <3>1. PICK n \in cut \cap partly : ~Working(n)
        BY <2>1, <2>2 DEF PartsStay
      <3>2. n \in 1..sent
        BY DEF LiveInductive, LiveTypeOK
      <3>3. ~Working(n)'
        BY <3>1, <3>2, NoOldEntries
      <3>4. n \in cut'
        BY DEF LiveNext, Venue, JobStep, Entry, Manage, ClosePosition, EntryFillsInPart,
               EntryFills, LegFills, ExitFills, Close, Crash, StartDay, BeginCycle, Flatten,
               SkipSignals, SubmitBracket, AwaitFill, CancelEntry, RecordEntry, NothingToManage,
               SyncBrokerExits, NoPrice, Trail, MirrorStop, Keep, ExitDue, CancelSymbolOrders,
               FillMarket, AwaitExit, RecordExit, CallRaises, liveVars, MarkCut
      <3>5. n \in partly'
        <4>1. ASSUME NEW o \in orders, EntryFills(o)
              PROVE  n \in partly'
          BY <3>1, <4>1 DEF EntryFills, Working
        <4> QED
          BY <4>1
             DEF LiveNext, Venue, JobStep, Entry, Manage, ClosePosition, EntryFillsInPart,
               LegFills, ExitFills, Close, Crash, StartDay, BeginCycle, Flatten,
               SkipSignals, SubmitBracket, AwaitFill, CancelEntry, RecordEntry, NothingToManage,
               SyncBrokerExits, NoPrice, Trail, MirrorStop, Keep, ExitDue, CancelSymbolOrders,
               FillMarket, AwaitExit, RecordExit, CallRaises, liveVars, venue
      <3> QED BY <3>3, <3>4, <3>5
    <2>3. CASE cut = {}
      <3>1. /\ StartDay \/ SyncBrokerExits \/ RecordExit
            /\ MarkCut
        BY <1>3, <2>3
           DEF LiveNext, Venue, JobStep, Entry, Manage, ClosePosition, EntryFillsInPart,
               EntryFills, LegFills, ExitFills, Close, Crash, StartDay, BeginCycle, Flatten,
               SkipSignals, SubmitBracket, AwaitFill, CancelEntry, RecordEntry, NothingToManage,
               SyncBrokerExits, NoPrice, Trail, MirrorStop, Keep, ExitDue, CancelSymbolOrders,
               FillMarket, AwaitExit, RecordExit, CallRaises, liveVars
      <3>2. /\ row # NoRow /\ row' = NoRow /\ row.n \in partly /\ row.n \in cut'
            /\ UNCHANGED <<partly, orders>>
        BY <1>3, <2>3, <3>1 DEF MarkCut, StartDay, SyncBrokerExits, RecordExit, venue
      <3>3. ~Working(row.n)
        <4>1. CASE StartDay
          <5>1. orders = {}
            BY <2>1, <4>1 DEF StartDay, PartsStay
          <5> QED BY <5>1 DEF Working
        <4>2. CASE RecordExit
          BY <2>1, <4>2 DEF RecordExit, ExitsComeLast, Selling, Working
        <4>3. CASE SyncBrokerExits
          <5>1. ~Entering /\ Held = 0
            BY <3>2, <4>3 DEF SyncBrokerExits, ExitedAtBroker, Entering, LiveInductive, JobShape,
                              GoTo
          <5>2. partly = {row.n}
            BY <2>1, <2>3, <3>2, <5>1 DEF LiveInductive, PartsAccounted
          <5>3. Held = shares + Part * 1
            BY <5>2, FS_Singleton DEF Held
          <5>4. PICK k \in Int : shares = Qty * k
            BY DEF LiveInductive, WholeTrades
          <5>5. Part \in 1..(Qty - 1) /\ Qty \in Nat
            BY <5>2, LiveAssumption DEF PartsStay
          <5>6. shares = -Part
            BY <5>1, <5>3, <5>5 DEF LiveInductive, LiveTypeOK
          <5>7. k >= 0
            <6>1. SUFFICES ASSUME k <= -1 PROVE FALSE
              BY <5>4
            <6>2. Qty * k <= Qty * (-1)
              BY <5>5, <6>1
            <6> QED BY <5>4, <5>5, <5>6, <6>2
          <5>8. Qty * k >= 0
            BY <5>5, <5>7
          <5> QED BY <5>4, <5>5, <5>6, <5>8
        <4> QED BY <3>1, <4>1, <4>2, <4>3
      <3>4. PICK n \in 1..sent : n = row.n
        BY <3>2 DEF LiveInductive, LiveTypeOK
      <3>5. ~Working(n)'
        BY <3>3, <3>4, NoOldEntries
      <3> QED BY <3>2, <3>4, <3>5
    <2> QED BY <2>2, <2>3
  <1> QED BY <1>1, <1>2, <1>3 DEF PartsStay

-----------------------------------------------------------------------------
(* The stop of the trade in play.                                          *)

\* The trade in play is one, and on the books when it is not in hand.
LEMMA OneInPlay ==
    ASSUME LiveInductive, NEW m, NEW n, InPlay(m), InPlay(n)
    PROVE  m = n
  BY DEF InPlay, LiveInductive, JobShape

\* Away from the venue, a trade comes into play with a bracket only.
LEMMA InPlayWas ==
    ASSUME LiveInductive, [LiveNext]_liveVars, NEW n, InPlay(n)'
    PROVE  InPlay(n) \/ \E level \in Levels : SubmitBracket(level)
  <1>1. CASE UNCHANGED liveVars
    BY <1>1 DEF liveVars, process, InPlay, Entering
  <1>2. CASE Venue
    BY <1>2, VenueSteps DEF process, InPlay, Entering
  <1>3. CASE QuietStep
    BY <1>3, QuietFacts DEF InPlay
  <1>4. CASE StartDay \/ SyncBrokerExits \/ MirrorStop \/ CancelSymbolOrders \/ FillMarket
             \/ RecordExit \/ CancelEntry
    <2>1. ~Entering' /\ (row' = row \/ row' = NoRow)
      BY <1>4 DEF StartDay, Reconciled, SyncBrokerExits, MirrorStop, CancelSymbolOrders,
                  FillMarket, RecordExit, CancelEntry, JobEnds, GoTo, Entering
    <2> QED BY <2>1 DEF InPlay
  <1>5. CASE Trail
    <2>1. row # NoRow /\ row \in [n : 1..sent, stop : Levels]
      BY <1>5 DEF Trail, LiveInductive, LiveTypeOK, JobShape
    <2>2. row'.n = row.n /\ ~Entering'
      BY <1>5, <2>1 DEF Trail, GoTo, Entering
    <2> QED BY <2>1, <2>2 DEF InPlay
  <1>6. CASE RecordEntry
    <2>1. row' = [n |-> hand, stop |-> stop] /\ Entering /\ ~Entering'
      BY <1>6 DEF RecordEntry, Entering
    <2> QED BY <2>1 DEF InPlay
  <1> QED
    BY <1>1, <1>2, <1>3, <1>4, <1>5, <1>6
       DEF LiveNext, JobStep, Entry, Manage, ClosePosition, QuietStep

\* An entry that fills when nothing is astray is that of the trade in play.
LEMMA EntryFillsInPlay ==
    ASSUME LiveInductive, NEW o \in orders, EntryFills(o), FilledStray = {},
           FilledStray' = {}, cut = {}
    PROVE  InPlay(o.n) /\ o.n \notin filled
  <1>1. o.n \in filled' /\ o.n \notin filled /\ UNCHANGED <<row, process, known>>
    BY DEF EntryFills, LiveInductive, OrderShape, process
  <1>2. CASE Entering /\ hand = o.n
    BY <1>1, <1>2 DEF InPlay
  <1>3. CASE o.n \in known
    BY <1>1, <1>3 DEF InPlay, LiveInductive, LiveTypeOK, PartsAccounted
  <1> QED BY <1>1, <1>2, <1>3 DEF FilledStray, Entering, process

\* The stop of the trade in play goes when it is lifted or the trade is sold.
LEMMA StopStandsStep ==
    ASSUME LiveInductive, StopStands, [LiveNext]_liveVars
    PROVE  StopStands'
  <1> DEFINE StopIn(S, n) == \E o \in S : o.kind = "stop" /\ o.n = n
  <1>0. SUFFICES ASSUME errors' = 0, crashes' = 0, expiries' = 0, late' = 0,
                        FilledStray' = {}, cut' = {},
                        NEW n \in 1..sent', InPlay(n)', ~Selling'
                 PROVE  StopIn(orders', n) \/ shares' <= (Bought(n) - Qty)'
    BY DEF StopStands
  <1>1. /\ errors = 0 /\ crashes = 0 /\ expiries = 0 /\ late = 0
        /\ FilledStray = {} /\ cut = {} /\ ~Raises
    BY <1>0, TroubleStays, ErrorsCount DEF LiveInductive
  <1>2. InPlay(n) => n \in 1..sent
    BY DEF InPlay, Entering, LiveInductive, LiveTypeOK, JobShape
  <1>3. InPlay(n) /\ ~Selling => StopIn(orders, n) \/ shares <= Bought(n) - Qty
    BY <1>1, <1>2 DEF StopStands
  <1>4. shares \in Int /\ Qty \in Nat \ {0} /\ shares <= Qty
    BY <1>1, NoMoreThanOneTrade, LiveAssumption DEF LiveInductive, LiveTypeOK
  <1>5. CASE \E level \in Levels : SubmitBracket(level)
    <2>1. PICK level \in Levels : SubmitBracket(level)
      BY <1>5
    <2>2. /\ orders' = orders \cup BracketOrders(sent + 1, level)
          /\ pc' = "await" /\ hand' = sent + 1 /\ row' = NoRow
      BY <1>1, <2>1 DEF SubmitBracket, MayEnter
    <2>3. n = sent + 1
      BY <1>0, <2>2 DEF InPlay
    <2>4. Order("stop", n, n, level) \in orders'
      BY <2>2, <2>3 DEF BracketOrders
    <2> QED BY <2>4 DEF Order
  <1>6. CASE InPlay(n) /\ ~Selling /\ UNCHANGED <<shares, filled>> /\ StopIn(orders, n)
             /\ MirrorStop
    <2>1. CASE UNCHANGED orders
      BY <1>6, <2>1
    <2>2. CASE \E o \in Replaceable : orders' = Moved(o, MirroredLevel)
      <3>1. PICK o \in Replaceable : orders' = Moved(o, MirroredLevel)
        BY <2>2
      <3> DEFINE p == [o EXCEPT !.level = MirroredLevel]
      <3>2. o \in orders /\ p.kind = o.kind /\ p.n = o.n
        BY DEF Replaceable, LiveInductive, LiveTypeOK
      <3>3. orders' = (orders \ {o}) \cup {p}
        BY <3>1 DEF Moved
      <3> HIDE DEF p
      <3> QED BY <1>6, <3>2, <3>3
    <2> QED BY <1>1, <1>6, <2>1, <2>2 DEF MirrorStop
  <1>7. CASE Venue
    <2>1. UNCHANGED <<row, process>> /\ InPlay(n) /\ ~Selling /\ ~Close
      <3>1. UNCHANGED <<row, process>>
        BY <1>7, VenueSteps
      <3>2. ~Close
        BY <1>0, <1>1 DEF Close
      <3> QED BY <1>0, <3>1, <3>2 DEF process, InPlay, Entering, Selling
    <2>2. ASSUME NEW o \in orders, EntryFillsInPart(o)
          PROVE  StopIn(orders', n) \/ shares' <= (Bought(n) - Qty)'
      BY <1>3, <2>1, <2>2 DEF EntryFillsInPart, Bought
    <2>3. ASSUME NEW o \in orders, EntryFills(o)
          PROVE  StopIn(orders', n) \/ shares' <= (Bought(n) - Qty)'
      <3>1. o.n = n /\ n \notin filled
        BY <1>0, <1>1, <2>1, <2>3, EntryFillsInPlay, OneInPlay
      <3>2. CASE StopIn(orders, n)
        BY <2>3, <3>2 DEF EntryFills
      <3>3. CASE shares <= Bought(n) - Qty
        <4>1. Bought(n) = 0 /\ Bought(n)' = Qty /\ shares' = shares + Qty
          BY <2>3, <3>1 DEF EntryFills, Bought
        <4> QED BY <1>4, <3>3, <4>1
      <3> QED BY <1>3, <2>1, <3>2, <3>3
    <2>4. ASSUME NEW o \in orders, LegFills(o)
          PROVE  StopIn(orders', n) \/ shares' <= (Bought(n) - Qty)'
      <3>1. o.n \in filled /\ UNCHANGED filled /\ shares' = shares - Qty
        BY <2>4 DEF LegFills, Sells, LiveInductive, OrderShape
      <3>2. CASE o.n = n
        BY <1>4, <3>1, <3>2 DEF Bought
      <3>3. CASE o.n # n /\ StopIn(orders, n)
        BY <2>4, <3>3 DEF LegFills
      <3>4. CASE shares <= Bought(n) - Qty
        BY <1>4, <3>1, <3>4 DEF Bought
      <3> QED BY <1>3, <2>1, <3>2, <3>3, <3>4
    <2>5. ASSUME NEW o \in orders, ExitFills(o)
          PROVE  StopIn(orders', n) \/ shares' <= (Bought(n) - Qty)'
      <3>1. UNCHANGED filled /\ shares' = shares - Qty /\ orders' = orders \ {o}
        BY <2>5 DEF ExitFills, Sells
      <3>2. CASE StopIn(orders, n)
        BY <2>5, <3>1, <3>2 DEF ExitFills
      <3>3. CASE shares <= Bought(n) - Qty
        BY <1>4, <3>1, <3>3 DEF Bought
      <3> QED BY <1>3, <2>1, <3>2, <3>3
    <2> QED BY <1>7, <2>1, <2>2, <2>3, <2>4, <2>5 DEF Venue
  <1>8. CASE UNCHANGED venue /\ ~Selling /\ InPlay(n)
    BY <1>3, <1>8 DEF venue, Bought
  <1>9. CASE UNCHANGED liveVars
    <2>1. InPlay(n) /\ ~Selling
      BY <1>0, <1>9 DEF liveVars, process, InPlay, Entering, Selling
    <2> QED BY <1>8, <1>9, <2>1 DEF liveVars
  <1>10. CASE QuietStep
    <2>1. InPlay(n) /\ ~Selling
      BY <1>0, <1>10, QuietFacts DEF InPlay
    <2> QED BY <1>8, <1>10, <2>1, QuietFacts
  <1>11. CASE (StartDay \/ SyncBrokerExits \/ Trail \/ RecordEntry \/ MirrorStop)
              /\ (InPlay(n) \/ \E level \in Levels : SubmitBracket(level))
    <2>1. ~Selling /\ pc # "signals" /\ UNCHANGED <<shares, filled>>
      BY <1>11 DEF StartDay, SyncBrokerExits, Trail, RecordEntry, MirrorStop, Selling, venue
    <2>2. InPlay(n)
      BY <1>11, <2>1 DEF SubmitBracket
    <2>3. CASE MirrorStop
      BY <1>3, <1>6, <2>1, <2>2, <2>3 DEF Bought
    <2>4. CASE ~MirrorStop
      BY <1>8, <1>11, <2>1, <2>2, <2>4 DEF StartDay, SyncBrokerExits, Trail, RecordEntry
    <2> QED BY <2>3, <2>4
  <1>12. ~(CancelEntry \/ CancelSymbolOrders \/ FillMarket \/ RecordExit)
    <2>1. ~CancelEntry
      BY <1>0 DEF CancelEntry, InPlay, Entering, LiveInductive, JobShape
    <2>2. ~CancelSymbolOrders /\ ~FillMarket
      BY <1>0, <1>1 DEF CancelSymbolOrders, FillMarket, GoTo, Selling
    <2>3. ~RecordExit
      BY <1>0 DEF RecordExit, JobEnds, InPlay, Entering
    <2> QED BY <2>1, <2>2, <2>3
  <1> QED
    BY <1>0, <1>5, <1>7, <1>9, <1>10, <1>11, <1>12, InPlayWas
       DEF LiveNext, JobStep, Entry, Manage, ClosePosition, QuietStep

-----------------------------------------------------------------------------
(* The account and the trade in play.                                      *)

\* The venue buys and sells the trade in play only.
LEMMA VenueSettles ==
    ASSUME LiveInductive, ExitsComeLast, Untroubled, Settlement, Venue, Untroubled'
    PROVE  Settlement'
  <1>1. UNCHANGED <<row, process, sent, known>> /\ orders' \subseteq orders
    BY VenueSteps
  <1>2. /\ Entering' <=> Entering
        /\ \A n : InPlay(n)' <=> InPlay(n)
    BY <1>1 DEF process, InPlay, Entering
  <1>3. shares \in Int /\ Qty \in Nat \ {0} /\ \A o \in orders : o.n \in 1..sent
    BY LiveAssumption DEF LiveInductive, LiveTypeOK
  <1>4. ASSUME UNCHANGED <<shares, filled, sold>>
        PROVE  Settlement'
    BY <1>1, <1>2, <1>4 DEF Settlement, InHand, Bought
  <1>5. ASSUME NEW o \in orders, EntryFills(o)
        PROVE  Settlement'
    <2>1. InPlay(o.n) /\ o.n \notin filled
      BY <1>5, EntryFillsInPlay DEF Untroubled
    <2>2. UNCHANGED sold /\ filled' = filled \cup {o.n} /\ shares' = shares + Qty
      BY <1>5 DEF EntryFills
    <2>3. \A n : InPlay(n) => n = o.n
      BY <2>1, OneInPlay
    <2>4. shares = InHand(o.n)
      BY <1>3, <2>1 DEF Settlement
    <2>5. \A n \in 1..sent : InPlay(n) => shares' = InHand(n)'
      BY <1>3, <2>1, <2>2, <2>3, <2>4 DEF InHand, Bought
    <2>6. Entering \/ row # NoRow
      BY <2>1 DEF InPlay
    <2> QED BY <1>1, <1>2, <2>1, <2>2, <2>5, <2>6 DEF Settlement
  <1>6. ASSUME NEW n \in 1..sent, n \in filled \cup known, n \notin sold, Sells(n), UNCHANGED filled,
               \A p \in orders' : p.kind # "exit" => p.n # n
        PROVE  Settlement'
    <2>1. InPlay(n)
      BY <1>6 DEF Settlement
    <2>2. \A m : InPlay(m) => m = n
      BY <2>1, OneInPlay
    <2>3. shares = InHand(n) /\ sold' = sold \cup {n} /\ shares' = shares - Qty
      BY <1>6, <2>1 DEF Settlement, Sells
    <2>4. \A m \in 1..sent : InPlay(m) => shares' = InHand(m)'
      BY <1>3, <1>6, <2>2, <2>3 DEF InHand, Bought
    <2>5. Entering \/ row # NoRow
      BY <2>1 DEF InPlay
    <2> QED BY <1>1, <1>2, <1>6, <2>3, <2>4, <2>5 DEF Settlement
  <1>7. ASSUME NEW o \in orders, LegFills(o)
        PROVE  Settlement'
    <2>1. o.n \in filled /\ o.n \notin sold
      BY <1>7 DEF LegFills, LiveInductive, OrderShape, Settlement
    <2>2. Sells(o.n) /\ UNCHANGED filled /\ \A p \in orders' : p.kind # "exit" => p.n # o.n
      BY <1>7 DEF LegFills
    <2> QED BY <1>3, <1>6, <2>1, <2>2
  <1>8. ASSUME NEW o \in orders, ExitFills(o)
        PROVE  Settlement'
    <2>1. Sells(o.n) /\ UNCHANGED filled /\ o.n \in known
      BY <1>8 DEF ExitFills, LiveInductive, OrderShape
    <2>2. o.n \notin sold
      BY <2>1 DEF Sells, Untroubled
    <2>3. \A p \in orders' : p.kind # "exit" => p.n # o.n
      BY <1>1, <1>8 DEF ExitFills, ExitsComeLast, Untroubled
    <2> QED BY <1>3, <1>6, <2>1, <2>2, <2>3
  <1>9. ASSUME NEW o \in orders, EntryFillsInPart(o)
        PROVE  Settlement'
    BY <1>4, <1>9 DEF EntryFillsInPart
  <1>10. CASE Close
    BY <1>4, <1>10 DEF Close
  <1> QED BY <1>5, <1>7, <1>8, <1>9, <1>10 DEF Venue

\* An entry that is given up has not bought anything, or it is astray.
LEMMA EntryGivenUp ==
    ASSUME LiveInductive, Untroubled, Settlement, Entering, ~Entering', FilledStray' = {},
           UNCHANGED <<shares, partly, filled, sold, row, sent, known>>, orders' \subseteq orders
    PROVE  Settlement'
  <1>1. row = NoRow /\ hand \in 1..sent /\ hand \notin known
    BY DEF LiveInductive, JobShape
  <1>2. hand \notin filled \cup partly
    BY <1>1 DEF FilledStray
  <1>3. hand \notin sold
    BY <1>2 DEF LiveInductive, LiveTypeOK
  <1>4. shares = 0
    BY <1>1, <1>2, <1>3 DEF Settlement, InPlay, InHand, Bought
  <1>5. \A n : ~InPlay(n)' /\ (InPlay(n) => n = hand)
    BY <1>1 DEF InPlay
  <1> QED BY <1>1, <1>2, <1>4, <1>5 DEF Settlement

\* A row that is closed was sold whole.
LEMMA RowSettles ==
    ASSUME LiveInductive, Untroubled, Settlement, ~Entering, ~Entering', cut' = {}, MarkCut,
           UNCHANGED <<venue, sent, known>>, row # NoRow, row' = NoRow,
           Held # Qty \/ row.n \in sold
    PROVE  Settlement'
  <1>1. partly = {} /\ Held = shares
    BY NoPartsLeft DEF Untroubled
  <1>2. row.n \in filled /\ row.n \in 1..sent
    BY <1>1 DEF LiveInductive, LiveTypeOK, JobShape
  <1>3. shares = InHand(row.n)
    BY <1>2 DEF Settlement, InPlay
  <1>4. Qty \in Nat \ {0}
    BY LiveAssumption
  <1>5. row.n \in sold /\ shares = 0
    BY <1>1, <1>2, <1>3, <1>4 DEF InHand, Bought
  <1>6. \A n : ~InPlay(n)' /\ (InPlay(n) => n = row.n)
    BY DEF InPlay
  <1> QED BY <1>2, <1>5, <1>6 DEF Settlement, venue

\* Whatever the step, the account settles or something goes wrong.
LEMMA SettledStep ==
    ASSUME LiveInductive, Settled, ExitsComeLast, ExitsSell, [LiveNext]_liveVars
    PROVE  Settled'
  <1>0. SUFFICES ASSUME Untroubled' PROVE Settlement'
    BY DEF Settled
  <1>1. Untroubled /\ Settlement
    BY <1>0, TroubleStays DEF Settled, Untroubled
  <1>2. ~Raises /\ errors' = 0 /\ FilledStray' = {} /\ cut' = {}
    BY <1>0, ErrorsCount DEF Untroubled, LiveInductive
  <1>3. ASSUME UNCHANGED <<shares, filled, sold, sent>>, known' \subseteq known \cup {hand},
               Entering' <=> (Entering /\ row' = NoRow), row # NoRow => row' # NoRow,
               \A n : InPlay(n)' <=> InPlay(n),
               Entering \/ known' = known,
               \A o \in orders' : o.kind = "exit" \/ \E p \in orders : p.kind = o.kind /\ p.n = o.n
        PROVE  Settlement'
    <2>1. Entering => InPlay(hand)
      BY DEF InPlay
    <2>2. Entering \/ row # NoRow => Entering' \/ row' # NoRow
      BY <1>3
    <2> QED BY <1>1, <1>3, <2>1, <2>2 DEF Settlement, InHand, Bought
  <1>4. CASE UNCHANGED liveVars
    BY <1>1, <1>4 DEF liveVars, venue, process, Settlement, InHand, Bought, InPlay, Entering
  <1>5. CASE Venue
    BY <1>0, <1>1, <1>5, VenueSettles
  <1>6. CASE QuietStep
    <2>1. CASE Entering /\ ~Entering'
      BY <1>1, <1>2, <1>6, <2>1, EntryGivenUp, QuietFacts DEF venue
    <2>2. CASE Entering' <=> Entering
      <3>1. \A n : InPlay(n)' <=> InPlay(n)
        BY <1>6, <2>2, QuietFacts DEF InPlay
      <3>2. Entering => row = NoRow
        BY DEF LiveInductive, JobShape
      <3> QED BY <1>3, <1>6, <2>2, <3>1, <3>2, QuietFacts DEF venue
    <2> QED BY <1>6, <2>1, <2>2, QuietFacts
  <1>7. CASE \E level \in Levels : SubmitBracket(level)
    <2>1. PICK level \in Levels : SubmitBracket(level)
      BY <1>7
    <2>0. PICK n \in Nat : n = sent + 1
      BY DEF LiveInductive, LiveTypeOK
    <2>2. /\ orders' = orders \cup BracketOrders(n, level)
          /\ Entering' /\ hand' = n /\ row = NoRow /\ row' = NoRow /\ ~Entering
          /\ UNCHANGED <<shares, filled, sold, known>> /\ sent' = n
      BY <1>2, <2>0, <2>1 DEF SubmitBracket, MayEnter, Entering
    <2>3. n \notin filled \cup sold
      BY <2>0 DEF LiveInductive, LiveTypeOK
    <2>4. \A o \in BracketOrders(n, level) : o.n = n
      BY DEF BracketOrders, Order
    <2>5. \A m : ~InPlay(m) /\ (InPlay(m)' <=> m = n)
      BY <2>2 DEF InPlay
    <2>6. shares' = InHand(n)'
      BY <1>1, <2>2, <2>3 DEF Settlement, InHand, Bought
    <2> QED BY <1>1, <2>2, <2>3, <2>4, <2>5, <2>6 DEF Settlement
  <1>8. CASE CancelEntry
    <2>1. /\ Entering /\ ~Entering' /\ orders' \subseteq orders
          /\ UNCHANGED <<shares, partly, filled, sold, row, sent, known>>
      BY <1>8 DEF CancelEntry, Without, Entering
    <2> QED BY <1>1, <1>2, <2>1, EntryGivenUp
  <1>9. CASE StartDay \/ SyncBrokerExits \/ RecordExit
    <2>1. /\ ~Entering /\ ~Entering' /\ MarkCut /\ UNCHANGED <<venue, sent, known>>
          /\ row' \in {row, NoRow}
      BY <1>9 DEF StartDay, Reconciled, SyncBrokerExits, RecordExit, GoTo, JobEnds, Entering
    <2>2. CASE row' = row
      <3>1. \A n : InPlay(n)' <=> InPlay(n)
        BY <2>1, <2>2 DEF InPlay
      <3> QED BY <1>3, <2>1, <2>2, <3>1 DEF venue
    <2>3. CASE row # NoRow /\ row' = NoRow
      <3>1. Held # Qty \/ row.n \in sold
        <4>1. CASE StartDay
          BY <1>2, <2>3, <4>1 DEF StartDay, Reconciled
        <4>2. CASE SyncBrokerExits
          BY <1>2, <2>3, <4>2, LiveAssumption DEF SyncBrokerExits, ExitedAtBroker
        <4>3. CASE RecordExit
          BY <1>1, <4>3 DEF RecordExit, ExitsSell, Untroubled
        <4> QED BY <1>9, <4>1, <4>2, <4>3
      <3> QED BY <1>1, <1>2, <2>1, <2>3, <3>1, RowSettles
    <2> QED BY <2>1, <2>2, <2>3
  <1>10. CASE RecordEntry
    <2>1. /\ row' = [n |-> hand, stop |-> stop] /\ Entering /\ ~Entering' /\ row = NoRow
          /\ known' = known \cup {hand} /\ UNCHANGED <<venue, sent>>
          /\ hand \in 1..sent /\ stop \in Levels
      BY <1>10 DEF RecordEntry, Entering, LiveInductive, JobShape
    <2>2. row' # NoRow
      <3>1. row' \in [n : Nat, stop : Nat]
        BY <2>1 DEF Levels, LiveInductive, LiveTypeOK
      <3> QED BY <3>1, LiveAssumption
    <2>3. \A n : InPlay(n)' <=> InPlay(n)
      BY <2>1, <2>2 DEF InPlay
    <2> QED BY <1>3, <2>1, <2>2, <2>3 DEF venue
  <1>11. CASE Trail
    <2>1. row # NoRow /\ row \in [n : 1..sent, stop : Levels]
      BY <1>11 DEF Trail, LiveInductive, LiveTypeOK, JobShape
    <2>2. /\ row' \in [n : 1..sent, stop : Levels] /\ row'.n = row.n
          /\ ~Entering /\ ~Entering' /\ UNCHANGED <<venue, sent, known>>
      BY <1>11, <2>1 DEF Trail, GoTo, Entering
    <2>3. row' # NoRow
      <3>1. row' \in [n : Nat, stop : Nat]
        BY <2>2 DEF Levels, LiveInductive, LiveTypeOK
      <3> QED BY <3>1, LiveAssumption
    <2>4. \A n : InPlay(n)' <=> InPlay(n)
      BY <2>1, <2>2, <2>3 DEF InPlay
    <2> QED BY <1>3, <2>1, <2>2, <2>3, <2>4 DEF venue
  <1>12. CASE MirrorStop \/ CancelSymbolOrders \/ FillMarket
    <2>1. /\ ~Entering /\ ~Entering' /\ UNCHANGED <<shares, filled, sold, row, known>>
      BY <1>2, <1>12 DEF MirrorStop, CancelSymbolOrders, FillMarket, GoTo, Entering
    <2>2. \A n : InPlay(n)' <=> InPlay(n)
      BY <2>1 DEF InPlay
    <2>3. \A o \in orders' : o.kind = "exit" \/ \E p \in orders : p.kind = o.kind /\ p.n = o.n
      <3>1. CASE MirrorStop
        <4>1. SUFFICES ASSUME NEW o \in Replaceable, orders' = Moved(o, MirroredLevel)
                       PROVE  \A q \in orders' : \E p \in orders : p.kind = q.kind /\ p.n = q.n
          BY <1>2, <3>1 DEF MirrorStop
        <4> DEFINE p == [o EXCEPT !.level = MirroredLevel]
        <4>2. o \in orders /\ p.kind = o.kind /\ p.n = o.n
          BY DEF Replaceable, LiveInductive, LiveTypeOK
        <4>3. orders' = (orders \ {o}) \cup {p}
          BY <4>1 DEF Moved
        <4> HIDE DEF p
        <4> QED BY <4>2, <4>3
      <3>2. CASE CancelSymbolOrders
        BY <1>2, <3>2 DEF CancelSymbolOrders, Left
      <3>3. CASE FillMarket
        BY <1>2, <3>3 DEF FillMarket, Order
      <3> QED BY <1>12, <3>1, <3>2, <3>3
    <2>4. CASE UNCHANGED sent
      BY <1>3, <2>1, <2>2, <2>3, <2>4
    <2>5. CASE FillMarket
      <3>1. \A n : InPlay(n) => n \in 1..sent
        BY <2>1 DEF InPlay, LiveInductive, LiveTypeOK, JobShape
      <3> QED BY <1>1, <2>1, <2>2, <2>3, <3>1 DEF Settlement, InHand, Bought
    <2> QED BY <1>12, <2>4, <2>5 DEF MirrorStop, CancelSymbolOrders
  <1> QED
    BY <1>4, <1>5, <1>6, <1>7, <1>8, <1>9, <1>10, <1>11, <1>12
       DEF LiveNext, JobStep, Entry, Manage, ClosePosition, QuietStep

-----------------------------------------------------------------------------
(* The theorems.                                                           *)

\* The beginning is orderly.
LEMMA LiveInitOrderly ==
    ASSUME LiveInit
    PROVE  LiveOrderly
  BY DEF LiveInit, LiveOrderly, Settled, Settlement, InPlay, Entering, ExitsComeLast, ExitsSell,
         PartsStay, StopStands, Selling

\* Both invariants hold of live trading, whatever fails, dies or expires.
THEOREM LiveOrderlyInvariant == LiveSpec => [](LiveInductive /\ LiveOrderly)
  <1>1. LiveInit => LiveInductive /\ LiveOrderly
    BY LiveInitInductive, LiveInitOrderly
  <1>2. LiveInductive /\ LiveOrderly /\ [LiveNext]_liveVars => (LiveInductive /\ LiveOrderly)'
    <2>1. SUFFICES ASSUME LiveInductive, LiveOrderly, [LiveNext]_liveVars
                   PROVE  LiveInductive' /\ LiveOrderly'
      OBVIOUS
    <2>2. LiveInductive'
      BY <2>1, LiveStepInductive
    <2>3. Settled' /\ ExitsComeLast' /\ ExitsSell' /\ PartsStay' /\ StopStands'
      BY <2>1, SettledStep, ExitsComeLastStep, ExitsSellStep, PartsStayStep, StopStandsStep
         DEF LiveOrderly
    <2> QED BY <2>2, <2>3 DEF LiveOrderly
  <1> QED BY <1>1, <1>2, PTL DEF LiveSpec

\* No leg outlives its position: when the engine has neither a row nor a job, the
\* venue has no order left but market exits, even over crashes and closes, unless
\* a call failed, an entry went astray, a position was sold twice, an exit
\* outlasted its polls or a row was closed on a part (cancel_symbol_orders,
\* _sync_broker_exits, _reconcile_with_broker).
THEOREM NoOrdersOutlive == LiveSpec => []NoOrphanOrders
  <1>1. LiveInductive /\ LiveOrderly => NoOrphanOrders
    <2>1. SUFFICES ASSUME LiveInductive, LiveOrderly, pc \in {"idle", "down"}, row = NoRow,
                          errors = 0, Stray = {}, cut = {}, soldTwice = {}, late = 0,
                          NEW o \in orders, o.kind # "exit"
                   PROVE  FALSE
      BY DEF NoOrphanOrders
    <2>2. ~Entering /\ \A n : ~InPlay(n)
      BY <2>1 DEF Entering, InPlay
    <2>3. FilledStray = {}
      BY <2>1 DEF FilledStray, Stray, Entering, LiveInductive, LiveTypeOK
    <2>4. /\ \A n \in filled \cup known : n \in filled \cap sold
          /\ o.n \notin sold
      BY <2>1, <2>2, <2>3 DEF LiveOrderly, Settled, Settlement, Untroubled
    <2>5. o.n \notin filled \cup known /\ o.n \in 1..sent
      BY <2>1, <2>4 DEF LiveInductive, LiveTypeOK
    <2>6. Working(o.n)
      <3>1. o.kind \in {"entry", "stop", "target"}
        BY <2>1 DEF LiveInductive, LiveTypeOK
      <3> QED BY <2>1, <2>5, <3>1 DEF LiveInductive, OrderShape, Resting, Working
    <2> QED BY <2>1, <2>2, <2>5, <2>6 DEF Stray, Entering
  <1> QED BY <1>1, LiveOrderlyInvariant, PTL

\* As long as nothing has failed, died, gone astray, outlasted its polls or stayed
\* overnight, and no entry is filled in part, held shares have a stop resting at
\* the venue unless they are being sold (submit_bracket, replace_stop,
\* cancel_symbol_orders, fill_market).
THEOREM NeverNakedUntroubled == LiveSpec => []NakedOnlyInTrouble
  <1>1. LiveInductive /\ LiveOrderly => NakedOnlyInTrouble
    <2>1. SUFFICES ASSUME LiveInductive, LiveOrderly,
                          errors = 0, crashes = 0, expiries = 0, late = 0,
                          Stray = {}, partly = {}, Held > 0, ~Exiting
                   PROVE  Covered
      BY DEF NakedOnlyInTrouble
    <2>2. FilledStray = {}
      BY <2>1 DEF FilledStray, Stray, Entering, LiveInductive, LiveTypeOK
    <2>3. cut = {}
      BY <2>1, <2>2 DEF LiveOrderly, PartsStay
    <2>4. shares > 0 /\ shares \in Int /\ shares <= HeldAtMost
      BY <2>1, <2>2, <2>3, PartsHeld DEF LiveInductive, LiveTypeOK, SharesBounded
    <2> DEFINE n == IF Entering THEN hand ELSE row.n
    <2>5. Entering \/ row # NoRow
      BY <2>4 DEF HeldAtMost
    <2>6. /\ n \in 1..sent /\ InPlay(n)
          /\ HeldAtMost = IF Exited THEN Bought(n) - Qty ELSE Bought(n)
      BY <2>1, <2>5 DEF InPlay, HeldAtMost, Exited, Entering, LiveInductive, LiveTypeOK, JobShape
    <2> HIDE DEF n
    <2>7. n \in filled /\ ~Exited
      BY <2>4, <2>6, LiveAssumption DEF Bought
    <2>8. ~Selling /\ Bought(n) = Qty
      BY <2>1, <2>7 DEF Selling, Exiting, Exited, Bought
    <2>9. PICK o \in orders : o.kind = "stop" /\ o.n = n
      BY <2>1, <2>2, <2>3, <2>4, <2>6, <2>8, LiveAssumption DEF LiveOrderly, StopStands
    <2>10. Resting(o)
      BY <2>1, <2>7, <2>9 DEF Resting, LiveInductive, OrderShape
    <2> QED BY <2>9, <2>10 DEF Covered
  <1> QED BY <1>1, LiveOrderlyInvariant, PTL
=============================================================================
