------------------------ MODULE TradingEngineProofs ------------------------
(***************************************************************************)
(* Proofs about TradingEngine.  For any number of callers whose cycles     *)
(* overlap, and whatever happens between their awaits: the types, and that *)
(* the books of a paused fund stand still.  For one cycle at a time,       *)
(* undisturbed: the wallet backs the books, a position is sold once, and   *)
(* the exposure is bounded, for every size, price and amount.              *)
(***************************************************************************)
EXTENDS TradingEngine, SumTheorems, SequenceTheorems

-----------------------------------------------------------------------------
(* Types *)

\* Cycle is what TypeOK says a suspended cycle holds.
Cycle == [step: {"idle", "deciding", "buying", "booking", "selling", "recording"},
          pool: Nat, amount: Nat, todo: SUBSET Position]

\* The sale loop holds a position exactly while it sells.
WellFormed(k) == k \in Cycle /\ (k.step \in {"selling", "recording"}) = (k.todo # {})

\* What a cycle that read positions and bought an amount may hold; it is what
\* later steps need of the ids and amounts they write into the tables.
Sound(k) ==
    /\ \A p \in k.todo : p.id < nextId
    /\ k.step \in {"buying", "booking"} => k.amount > 0

EngineInv == TypeOK /\ IsFiniteSet(positions) /\ nextId > 0 /\ \A c \in Caller : Sound(cycle[c])

\* One caller's cycle moves to a state of its types, the others stay.
LEMMA CycleMoves ==
  ASSUME TypeOK, NEW c \in Caller, NEW k, WellFormed(k), cycle' = [cycle EXCEPT ![c] = k]
  PROVE  /\ cycle' \in [Caller -> Cycle]
         /\ \A d \in Caller : (cycle'[d].step \in {"selling", "recording"}) = (cycle'[d].todo # {})
         /\ cycle'[c] = k /\ \A d \in Caller \ {c} : cycle'[d] = cycle[d]
<1>1. cycle \in [Caller -> Cycle]
  BY DEF TypeOK, Cycle
<1>2. cycle' \in [Caller -> Cycle] /\ cycle'[c] = k /\ \A d \in Caller \ {c} : cycle'[d] = cycle[d]
  BY <1>1 DEF WellFormed
<1>3. \A d \in Caller : (cycle'[d].step \in {"selling", "recording"}) = (cycle'[d].todo # {})
  BY <1>2 DEF WellFormed, TypeOK
<1>. QED  BY <1>2, <1>3

\* The table of trades is a sequence of round trips.
LEMMA TradeTable ==
  ASSUME TypeOK
  PROVE  /\ trades \in Seq([position: Nat, pnl: Int])
         /\ Len(trades) \in Nat /\ DOMAIN trades = 1 .. Len(trades)
         /\ \A i \in DOMAIN trades : /\ trades[i] \in [position: Nat, pnl: Int]
                                     /\ trades[i].position \in Nat /\ trades[i].position < nextId
<1>1. PICK Trade : Trade = [position: Nat, pnl: Int]
  OBVIOUS
<1>2. trades \in Seq(Trade) /\ \A i \in DOMAIN trades : trades[i].position < nextId
  BY <1>1 DEF TypeOK
<1>3. Len(trades) \in Nat /\ DOMAIN trades = 1 .. Len(trades)
  BY <1>2, LenProperties
<1>4. \A i \in DOMAIN trades : trades[i] \in Trade
  BY <1>2, <1>3, ElementOfSeq
<1>. QED  BY <1>1, <1>2, <1>3, <1>4

LEMMA CycleWellFormed ==
  ASSUME TypeOK, NEW c \in Caller
  PROVE  WellFormed(cycle[c])
  BY DEF TypeOK, WellFormed, Cycle

LEMMA IdleWellFormed == WellFormed(Idle) /\ Idle.step = "idle" /\ Idle.todo = {} /\ Idle.amount = 0
  BY DEF WellFormed, Cycle, Idle

\* What the loop goes on with once it is done with a position.
LEMMA NextPositionSound ==
  ASSUME TypeOK, NEW c \in Caller, NEW p, Current(c, p),
         \A q \in cycle[c].todo : q.id < nextId
  PROVE  /\ WellFormed(NextPosition(c, p))
         /\ NextPosition(c, p).todo \subseteq cycle[c].todo \ {p}
         /\ NextPosition(c, p).step \in {"idle", "selling"}
<1>1. CASE cycle[c].todo = {p}
  BY <1>1, IdleWellFormed DEF NextPosition
<1>2. CASE cycle[c].todo # {p}
  <2>1. cycle[c] \in Cycle
    BY CycleWellFormed DEF WellFormed
  <2>2. NextPosition(c, p) = [cycle[c] EXCEPT !.step = "selling", !.amount = 0,
                                              !.todo = cycle[c].todo \ {p}]
    BY <1>2 DEF NextPosition
  <2>3. PICK t \in SUBSET Position : t = cycle[c].todo \ {p}
    BY <2>1 DEF Cycle
  <2>4. NextPosition(c, p) = [cycle[c] EXCEPT !.step = "selling", !.amount = 0, !.todo = t]
    BY <2>2, <2>3
  <2>5. PICK k \in Cycle : k = cycle[c]
    BY <2>1
  <2>6. PICK n : n = [k EXCEPT !.step = "selling", !.amount = 0, !.todo = t]
    OBVIOUS
  <2>7. n \in Cycle /\ n.todo = t /\ n.step = "selling"
    BY <2>6 DEF Cycle
  <2>8. NextPosition(c, p) = n
    BY <2>4, <2>5, <2>6
  <2>9. t # {}
    BY <1>2, <2>3 DEF Current
  <2>. QED  BY <2>3, <2>7, <2>8, <2>9 DEF WellFormed
<1>. QED  BY <1>1, <1>2

\* Steps that touch nothing but one cycle and the wallet.
LEMMA OnlyCycle ==
  ASSUME EngineInv, NEW c \in Caller, NEW k, WellFormed(k), Sound(k),
         cycle' = [cycle EXCEPT ![c] = k],
         UNCHANGED <<books, paused, governed, today, bounds>>, cash' \in Nat, sol' \in Nat
  PROVE  EngineInv'
<1>1. UNCHANGED <<pool, positions, trades, paused, governed, today, nextId, moves>>
  BY DEF books, bounds
<1>2. /\ cycle' \in [Caller -> Cycle]
      /\ \A d \in Caller : (cycle'[d].step \in {"selling", "recording"}) = (cycle'[d].todo # {})
      /\ cycle'[c] = k /\ \A d \in Caller \ {c} : cycle'[d] = cycle[d]
  BY CycleMoves DEF EngineInv
<1>3. \A d \in Caller : Sound(cycle[d])'
  BY <1>1, <1>2 DEF EngineInv, Sound
<1>4. TypeOK'
  BY <1>1, <1>2 DEF EngineInv, TypeOK, Cycle
<1>. QED  BY <1>1, <1>3, <1>4 DEF EngineInv

LEMMA InitEngine == Init => EngineInv
<1>. SUFFICES ASSUME Init PROVE EngineInv
  OBVIOUS
<1>1. cycle = [c \in Caller |-> Idle] /\ Idle \in Cycle
  BY IdleWellFormed DEF Init, WellFormed
<1>2. /\ cycle \in [Caller -> Cycle]
      /\ \A c \in Caller : cycle[c].step = "idle" /\ cycle[c].todo = {}
  BY <1>1, IdleWellFormed
<1>3. trades = <<>> /\ trades \in Seq([position: Nat, pnl: Int]) /\ Len(trades) = 0 /\ DOMAIN trades = {}
  BY EmptySeq DEF Init
<1>4. TypeOK
  <2>1. cycle \in [Caller -> [step: {"idle", "deciding", "buying", "booking", "selling", "recording"},
                              pool: Nat, amount: Nat, todo: SUBSET Position]]
    BY <1>2 DEF Cycle
  <2>2. today \in 0 .. Len(trades) /\ moves \in 0 .. MaxMoves
    BY <1>3, BoundAssumption DEF Init
  <2>3. \A c \in Caller : (cycle[c].step \in {"selling", "recording"}) = (cycle[c].todo # {})
    BY <1>2
  <2>. QED  BY <1>3, <2>1, <2>2, <2>3 DEF Init, TypeOK
<1>5. IsFiniteSet(positions)
  BY FS_EmptySet DEF Init
<1>6. \A c \in Caller : Sound(cycle[c])
  BY <1>2 DEF Sound
<1>. QED  BY <1>4, <1>5, <1>6 DEF EngineInv, Init

-----------------------------------------------------------------------------
(* One lemma per step of a cycle *)

LEMMA StartCycleEngine ==
  ASSUME EngineInv, NEW c \in Caller, StartCycle(c)
  PROVE  EngineInv'
<1>1. PICK k : k = [Idle EXCEPT !.step = "deciding", !.pool = pool] /\ cycle' = [cycle EXCEPT ![c] = k]
  BY DEF StartCycle
<1>2. WellFormed(k) /\ Sound(k)
  <2>1. PICK i \in Cycle : i = Idle
    BY IdleWellFormed DEF WellFormed
  <2>2. pool \in Nat
    BY DEF EngineInv, TypeOK
  <2>3. k = [i EXCEPT !.step = "deciding", !.pool = pool]
    BY <1>1, <2>1
  <2>4. k \in Cycle /\ k.step = "deciding" /\ k.todo = i.todo
    BY <2>2, <2>3 DEF Cycle
  <2>. QED  BY <2>1, <2>4, IdleWellFormed DEF WellFormed, Sound
<1>3. UNCHANGED <<books, paused, governed, today, bounds>> /\ cash' \in Nat /\ sol' \in Nat
  BY DEF StartCycle, wallet, EngineInv, TypeOK
<1>. QED  BY <1>1, <1>2, <1>3, OnlyCycle

\* Holding, and a swap that fails: the cycle is over.
LEMMA CycleEnds ==
  ASSUME EngineInv, NEW c \in Caller, cycle' = [cycle EXCEPT ![c] = Idle],
         UNCHANGED <<books, paused, governed, today, wallet, bounds>>
  PROVE  EngineInv'
<1>1. WellFormed(Idle) /\ Sound(Idle)
  BY IdleWellFormed DEF Sound
<1>2. cash' \in Nat /\ sol' \in Nat
  BY DEF wallet, EngineInv, TypeOK
<1>. QED  BY <1>1, <1>2, OnlyCycle

\* The size stays between the hard limits.
LEMMA ClampType ==
  ASSUME NEW size \in Nat
  PROVE  ClampPositionSize(size) \in 5 .. 30
  BY DEF ClampPositionSize, MaxPositionSize, MinPositionSize

LEMMA DecideBuyEngine ==
  ASSUME EngineInv, NEW c \in Caller, NEW size \in Sizes, DecideBuy(c, size)
  PROVE  /\ EngineInv'
         /\ cycle'[c].amount * 100 <= 30 * cycle[c].pool
         /\ cycle'[c].pool = cycle[c].pool /\ cycle'[c].step = "buying"
<1>1. PICK amount : /\ amount = (cycle[c].pool * ClampPositionSize(size)) \div 100
                    /\ amount > 0 /\ cycle[c].step = "deciding"
                    /\ cycle' = [cycle EXCEPT ![c].step = "buying", ![c].amount = amount]
  BY DEF DecideBuy
<1>2. WellFormed(cycle[c]) /\ cycle[c] \in Cycle /\ cycle[c].pool \in Nat
  BY CycleWellFormed DEF EngineInv, WellFormed, Cycle
<1>3. amount \in Nat /\ amount * 100 <= 30 * cycle[c].pool
  <2>1. PICK size2 \in 5 .. 30 : size2 = ClampPositionSize(size)
    BY ClampType, SizeAssumption
  <2>2. PICK n \in Nat : n = cycle[c].pool
    BY <1>2
  <2>3. PICK m \in Nat : m = n * size2
    OBVIOUS
  <2>4. m <= 30 * n
    BY <2>3
  <2>5. amount = m \div 100
    BY <1>1, <2>1, <2>2, <2>3
  <2>. QED  BY <2>2, <2>4, <2>5
<1>4. PICK k : k = [cycle[c] EXCEPT !.step = "buying", !.amount = amount]
  OBVIOUS
<1>5. k \in Cycle /\ k.step = "buying" /\ k.amount = amount /\ k.todo = cycle[c].todo /\ k.pool = cycle[c].pool
  BY <1>2, <1>3, <1>4 DEF Cycle
<1>6. cycle' = [cycle EXCEPT ![c] = k]
  BY <1>1, <1>4 DEF EngineInv, TypeOK
<1>7. WellFormed(k)
  BY <1>1, <1>2, <1>5 DEF WellFormed
<1>8. Sound(k)
  BY <1>1, <1>5 DEF Sound, EngineInv
<1>9. UNCHANGED <<books, paused, governed, today, bounds>> /\ cash' \in Nat /\ sol' \in Nat
  BY DEF DecideBuy, wallet, EngineInv, TypeOK
<1>10. EngineInv'
  BY <1>6, <1>7, <1>8, <1>9, OnlyCycle
<1>11. cycle'[c] = k
  BY <1>6, <1>7, CycleMoves DEF EngineInv
<1>. QED  BY <1>3, <1>5, <1>10, <1>11
LEMMA SwapBuyEngine ==
  ASSUME EngineInv, NEW c \in Caller, SwapBuy(c)
  PROVE  EngineInv'
<1>1. PICK x \in Cycle : x = cycle[c] /\ WellFormed(x) /\ Sound(x) /\ x.step = "buying"
  BY CycleWellFormed DEF EngineInv, WellFormed, SwapBuy
<1>2. PICK k : k = [x EXCEPT !.step = "booking"]
  OBVIOUS
<1>3. k \in Cycle /\ k.step = "booking" /\ k.amount = x.amount /\ k.todo = x.todo
  BY <1>2 DEF Cycle
<1>4. cycle' = [cycle EXCEPT ![c] = k]
  BY <1>1, <1>2 DEF SwapBuy, EngineInv, TypeOK
<1>5. WellFormed(k) /\ Sound(k)
  BY <1>1, <1>3 DEF WellFormed, Sound
<1>6. cash \in Nat /\ sol \in Nat /\ x.amount \in Nat
  BY DEF EngineInv, TypeOK, Cycle
<1>7. cash' \in Nat /\ sol' \in Nat
  BY <1>1, <1>6 DEF SwapBuy
<1>. QED  BY <1>4, <1>5, <1>7, OnlyCycle DEF SwapBuy

\* The id of a new position is larger than every id in the tables and in the cycles.
LEMMA BookPositionEngine ==
  ASSUME EngineInv, NEW c \in Caller, BookPosition(c)
  PROVE  EngineInv'
<1>1. cycle' = [cycle EXCEPT ![c] = Idle] /\ cycle[c].step = "booking"
      /\ UNCHANGED <<pool, trades, paused, governed, today, wallet, moves>>
  BY DEF BookPosition
<1>2. CASE paused
  <2>1. UNCHANGED <<positions, nextId>>
    BY <1>2 DEF BookPosition
  <2>. QED  BY <1>1, <2>1, CycleEnds DEF books, bounds
<1>3. CASE ~paused
  <2>. DEFINE new == [id |-> nextId, amount |-> cycle[c].amount]
  <2>1. positions' = positions \cup {new} /\ nextId' = nextId + 1
    BY <1>3 DEF BookPosition
  <2>2. cycle[c].amount \in Nat \ {0} /\ nextId \in Nat \ {0}
    BY <1>1 DEF EngineInv, Sound, TypeOK
  <2>3. new \in Position
    BY <2>2 DEF Position
  <2>4. positions' \subseteq Position /\ \A p \in positions' : p.id < nextId'
    <3>1. positions \subseteq Position /\ \A p \in positions : p.id < nextId
      BY DEF EngineInv, TypeOK
    <3>2. \A p \in positions : p.id < nextId + 1
      BY <2>2, <3>1 DEF Position
    <3>3. new.id < nextId + 1
      BY <2>2
    <3>. HIDE DEF new
    <3>. QED  BY <2>1, <2>3, <3>1, <3>2, <3>3
  <2>5. \A i \in DOMAIN trades : trades[i].position < nextId'
    <3>1. \A i \in DOMAIN trades : trades[i].position \in Nat /\ trades[i].position < nextId
      BY TradeTable DEF EngineInv
    <3>. HIDE DEF new
    <3>. QED  BY <2>1, <2>2, <3>1
  <2>6. /\ cycle' \in [Caller -> Cycle]
        /\ \A d \in Caller : (cycle'[d].step \in {"selling", "recording"}) = (cycle'[d].todo # {})
        /\ cycle'[c] = Idle /\ \A d \in Caller \ {c} : cycle'[d] = cycle[d]
    BY <1>1, CycleMoves, IdleWellFormed DEF EngineInv
  <2>7. \A d \in Caller : Sound(cycle[d])'
    <3>1. \A d \in Caller \ {c} : Sound(cycle[d])'
      <4>. SUFFICES ASSUME NEW d \in Caller \ {c} PROVE Sound(cycle[d])'
        OBVIOUS
      <4>1. cycle[d].todo \subseteq Position /\ Sound(cycle[d])
        BY DEF EngineInv, TypeOK
      <4>2. \A p \in cycle[d].todo : p.id < nextId + 1
        BY <2>2, <4>1 DEF Sound, Position
      <4>. QED  BY <2>1, <2>6, <4>1, <4>2 DEF Sound
    <3>. QED  BY <2>6, <3>1, IdleWellFormed DEF Sound
  <2>8. IsFiniteSet(positions')
    BY <2>1, FS_AddElement DEF EngineInv
  <2>9. UNCHANGED <<cash, sol>>
    BY <1>1 DEF wallet
  <2>10. TypeOK'
    <3>1. /\ pool' \in Nat /\ cash' \in Nat /\ sol' \in Nat /\ paused' \in BOOLEAN
          /\ governed' \in GovernedSizes \cup {MaxPositionSize} /\ moves' \in 0 .. MaxMoves
          /\ trades' \in Seq([position: Nat, pnl: Int]) /\ today' \in 0 .. Len(trades')
      BY <1>1, <2>9 DEF EngineInv, TypeOK
    <3>2. nextId' \in Nat /\ \A i \in DOMAIN trades' : trades'[i].position < nextId'
      BY <1>1, <2>1, <2>2, <2>5
    <3>. HIDE DEF new
    <3>. QED  BY <2>4, <2>6, <3>1, <3>2 DEF TypeOK, Cycle
  <2>. QED  BY <2>1, <2>2, <2>7, <2>8, <2>10 DEF EngineInv
<1>. QED  BY <1>2, <1>3

LEMMA DecideSellEngine ==
  ASSUME EngineInv, NEW c \in Caller, DecideSell(c)
  PROVE  EngineInv' /\ cycle'[c].todo = positions /\ cycle'[c].step = "selling"
<1>1. PICK x \in Cycle : x = cycle[c]
  BY CycleWellFormed DEF EngineInv, WellFormed
<1>2. PICK t \in SUBSET Position : t = positions
  BY DEF EngineInv, TypeOK
<1>3. PICK k : k = [x EXCEPT !.step = "selling", !.todo = t]
  OBVIOUS
<1>4. k \in Cycle /\ k.step = "selling" /\ k.todo = t
  BY <1>3 DEF Cycle
<1>5. cycle' = [cycle EXCEPT ![c] = k]
  BY <1>1, <1>2, <1>3 DEF DecideSell, EngineInv, TypeOK
<1>6. WellFormed(k) /\ Sound(k)
  BY <1>2, <1>4 DEF WellFormed, Sound, DecideSell, EngineInv, TypeOK
<1>7. cash' \in Nat /\ sol' \in Nat
  BY DEF DecideSell, wallet, EngineInv, TypeOK
<1>8. EngineInv'
  BY <1>5, <1>6, <1>7, OnlyCycle DEF DecideSell
<1>9. cycle'[c] = k
  BY <1>5, <1>6, CycleMoves DEF EngineInv
<1>. QED  BY <1>2, <1>4, <1>8, <1>9

LEMMA SwapSellEngine ==
  ASSUME EngineInv, NEW c \in Caller, NEW p \in cycle[c].todo, NEW pnl \in PnLs, SwapSell(c, p, pnl)
  PROVE  /\ EngineInv' /\ cycle'[c].step = "recording" /\ cycle'[c].todo = cycle[c].todo
         /\ cycle'[c].amount = p.amount + pnl /\ p \in Position
<1>1. PICK x \in Cycle : x = cycle[c] /\ WellFormed(x) /\ Sound(x) /\ x.step = "selling"
  BY CycleWellFormed DEF EngineInv, WellFormed, SwapSell
<1>2. p \in Position /\ pnl \in Int
  BY <1>1, MoneyAssumption DEF Cycle
<1>3. PICK n \in Nat : n = p.amount + pnl
  BY <1>2 DEF SwapSell, Position
<1>4. PICK k : k = [x EXCEPT !.step = "recording", !.amount = n]
  OBVIOUS
<1>5. k \in Cycle /\ k.step = "recording" /\ k.amount = n /\ k.todo = x.todo
  BY <1>4 DEF Cycle
<1>6. cycle' = [cycle EXCEPT ![c] = k]
  BY <1>1, <1>3, <1>4 DEF SwapSell, EngineInv, TypeOK
<1>7. WellFormed(k) /\ Sound(k)
  BY <1>1, <1>5 DEF WellFormed, Sound
<1>8. cash' \in Nat /\ sol' \in Nat
  <2>1. cash \in Nat /\ sol \in Nat /\ p.amount \in Nat
    BY <1>2 DEF EngineInv, TypeOK, Position
  <2>2. sol >= p.amount /\ sol' = sol - p.amount /\ cash' = cash + p.amount + pnl
    BY DEF SwapSell
  <2>. QED  BY <1>2, <1>3, <2>1, <2>2
<1>9. EngineInv'
  BY <1>6, <1>7, <1>8, OnlyCycle DEF SwapSell
<1>10. cycle'[c] = k
  BY <1>6, <1>7, CycleMoves DEF EngineInv
<1>. QED  BY <1>1, <1>2, <1>3, <1>5, <1>9, <1>10

LEMMA SwapSellFailsEngine ==
  ASSUME EngineInv, NEW c \in Caller, NEW p \in cycle[c].todo, SwapSellFails(c, p)
  PROVE  EngineInv' /\ cycle'[c] = NextPosition(c, p)
<1>1. PICK k : k = NextPosition(c, p)
  OBVIOUS
<1>2. WellFormed(k) /\ k.todo \subseteq cycle[c].todo /\ k.step \in {"idle", "selling"}
  BY <1>1, NextPositionSound DEF SwapSellFails, EngineInv, Sound
<1>3. Sound(k)
  BY <1>2 DEF EngineInv, Sound
<1>4. cash' \in Nat /\ sol' \in Nat
  BY DEF SwapSellFails, wallet, EngineInv, TypeOK
<1>5. cycle' = [cycle EXCEPT ![c] = k]
  BY <1>1 DEF SwapSellFails
<1>6. EngineInv'
  BY <1>2, <1>3, <1>4, <1>5, OnlyCycle DEF SwapSellFails
<1>7. cycle'[c] = k
  BY <1>2, <1>5, CycleMoves DEF EngineInv
<1>. QED  BY <1>1, <1>6, <1>7
\* Whether recordTrade takes the result of selling p.
Recorded(c, p) ==
    ~paused /\ (cycle[c].amount - p.amount = 0
                \/ (pool > 0 /\ pool + (cycle[c].amount - p.amount) >= 0))

LEMMA RecordSaleEngine ==
  ASSUME EngineInv, NEW c \in Caller, NEW p \in cycle[c].todo, RecordSale(c, p)
  PROVE  /\ EngineInv'
         /\ Recorded(c, p) =>
              /\ trades' = Append(trades, [position |-> p.id, pnl |-> cycle[c].amount - p.amount])
              /\ pool' = pool + (cycle[c].amount - p.amount) /\ positions' = positions \ {p}
              /\ p \in positions => cycle'[c] = NextPosition(c, p)
         /\ ~Recorded(c, p) => UNCHANGED books
         /\ cycle'[c] \in {NextPosition(c, p), Idle}
<1>. DEFINE pnl == cycle[c].amount - p.amount
<1>1. cycle[c] \in Cycle /\ p \in Position /\ p.id < nextId /\ Current(c, p)
  BY CycleWellFormed DEF EngineInv, WellFormed, Cycle, Sound, RecordSale
<1>2. pnl \in Int /\ p.id \in Nat
  BY <1>1 DEF Cycle, Position
<1>3. /\ trades' = IF Recorded(c, p) THEN Append(trades, [position |-> p.id, pnl |-> pnl]) ELSE trades
      /\ pool' = IF Recorded(c, p) THEN pool + pnl ELSE pool
      /\ positions' = IF Recorded(c, p) THEN positions \ {p} ELSE positions
      /\ cycle' = [cycle EXCEPT ![c] = IF Recorded(c, p) /\ p \in positions THEN NextPosition(c, p) ELSE Idle]
      /\ UNCHANGED <<paused, governed, today, cash, sol, nextId, moves>>
  BY DEF RecordSale, Recorded, wallet, bounds
<1>4. PICK k : /\ k = IF Recorded(c, p) /\ p \in positions THEN NextPosition(c, p) ELSE Idle
               /\ cycle' = [cycle EXCEPT ![c] = k]
  BY <1>3
<1>5. WellFormed(k) /\ k.todo \subseteq cycle[c].todo /\ k.step \in {"idle", "selling"}
  <2>1. /\ WellFormed(NextPosition(c, p)) /\ NextPosition(c, p).todo \subseteq cycle[c].todo
        /\ NextPosition(c, p).step \in {"idle", "selling"}
    BY <1>1, NextPositionSound DEF EngineInv, Sound
  <2>. QED  BY <1>4, <2>1, IdleWellFormed
<1>6. /\ cycle' \in [Caller -> Cycle]
      /\ \A d \in Caller : (cycle'[d].step \in {"selling", "recording"}) = (cycle'[d].todo # {})
      /\ cycle'[c] = k /\ \A d \in Caller \ {c} : cycle'[d] = cycle[d]
  BY <1>4, <1>5, CycleMoves DEF EngineInv
<1>7. \A d \in Caller : Sound(cycle[d])'
  BY <1>3, <1>5, <1>6 DEF EngineInv, Sound
<1>8. pool' \in Nat
  <2>1. pool \in Nat
    BY DEF EngineInv, TypeOK
  <2>2. CASE Recorded(c, p)
    <3>1. pnl = 0 \/ pool + pnl >= 0
      BY <2>2 DEF Recorded
    <3>. HIDE DEF pnl
    <3>. QED  BY <1>2, <1>3, <2>1, <2>2, <3>1
  <2>3. CASE ~Recorded(c, p)
    BY <1>3, <2>1, <2>3
  <2>. QED  BY <2>2, <2>3
<1>9. /\ trades' \in Seq([position: Nat, pnl: Int]) /\ today \in 0 .. Len(trades')
      /\ \A i \in DOMAIN trades' : trades'[i].position < nextId
  <2>1. CASE Recorded(c, p)
    <3>. DEFINE trade == [position |-> p.id, pnl |-> pnl]
    <3>1. trade \in [position: Nat, pnl: Int] /\ trade.position < nextId
      BY <1>1, <1>2
    <3>2. trades' = Append(trades, trade)
      BY <1>3, <2>1
    <3>. HIDE DEF trade, pnl
    <3>3. /\ trades' \in Seq([position: Nat, pnl: Int]) /\ Len(trades') = Len(trades) + 1
          /\ trades'[Len(trades) + 1] = trade
          /\ \A i \in 1 .. Len(trades) : trades'[i] = trades[i]
      BY <3>1, <3>2, TradeTable, AppendProperties DEF EngineInv
    <3>4. DOMAIN trades' = 1 .. (Len(trades) + 1)
      BY <3>3, LenProperties
    <3>5. Len(trades) \in Nat /\ \A i \in 1 .. Len(trades) : trades[i].position < nextId
      BY TradeTable DEF EngineInv
    <3>6. \A i \in DOMAIN trades' : trades'[i].position < nextId
      <4>. SUFFICES ASSUME NEW i \in DOMAIN trades' PROVE trades'[i].position < nextId
        OBVIOUS
      <4>1. i \in 1 .. Len(trades) \/ i = Len(trades) + 1
        BY <3>4, <3>5
      <4>. QED  BY <3>1, <3>3, <3>5, <4>1
    <3>7. today \in 0 .. Len(trades')
      BY <3>3, <3>5 DEF EngineInv, TypeOK
    <3>. QED  BY <3>3, <3>6, <3>7
  <2>2. CASE ~Recorded(c, p)
    BY <1>3, <2>2 DEF EngineInv, TypeOK
  <2>. QED  BY <2>1, <2>2
<1>10. positions' \subseteq positions
  BY <1>3
<1>11. IsFiniteSet(positions')
  BY <1>10, FS_Subset DEF EngineInv
<1>12. EngineInv'
  <2>1. TypeOK'
    BY <1>3, <1>6, <1>8, <1>9, <1>10 DEF EngineInv, TypeOK, Cycle
  <2>. QED  BY <1>3, <1>7, <1>11, <2>1 DEF EngineInv
<1>. QED  BY <1>3, <1>4, <1>6, <1>12 DEF books

-----------------------------------------------------------------------------
(* Around a cycle *)

LEMMA SurroundingsEngine ==
  ASSUME EngineInv,
         \/ \E stake \in Stakes : Deposit(stake) \/ Withdraw(stake)
         \/ TogglePause
         \/ \E size \in GovernedSizes : SetMaxPositionSize(size)
         \/ NewDay
  PROVE  EngineInv'
<1>1. UNCHANGED <<positions, trades, cycle, nextId, sol>>
  BY DEF Deposit, Withdraw, TogglePause, SetMaxPositionSize, NewDay, books, wallet, bounds
<1>2. \A d \in Caller : Sound(cycle[d])'
  BY <1>1 DEF EngineInv, Sound
<1>3. Len(trades) \in Nat
  BY TradeTable DEF EngineInv
<1>4. pool \in Nat /\ cash \in Nat /\ moves \in 0 .. MaxMoves /\ today \in 0 .. Len(trades)
  BY DEF EngineInv, TypeOK
<1>5. ASSUME NEW stake \in Stakes, Deposit(stake) \/ Withdraw(stake)
      PROVE  pool' \in Nat /\ cash' \in Nat /\ moves' \in 0 .. MaxMoves /\ UNCHANGED <<paused, governed, today>>
  <2>1. stake \in Nat
    BY MoneyAssumption
  <2>2. moves' \in 0 .. MaxMoves
    BY <1>4, <1>5, BoundAssumption DEF Deposit, Withdraw
  <2>. QED  BY <1>4, <1>5, <2>1, <2>2 DEF Deposit, Withdraw
<1>6. TypeOK'
  <2>1. CASE \E stake \in Stakes : Deposit(stake) \/ Withdraw(stake)
    BY <1>1, <1>5, <2>1 DEF EngineInv, TypeOK
  <2>2. CASE TogglePause
    <3>1. paused' \in BOOLEAN /\ UNCHANGED <<pool, governed, today, cash, moves>>
      BY <2>2 DEF TogglePause, books, wallet, bounds
    <3>. QED  BY <1>1, <3>1 DEF EngineInv, TypeOK
  <2>3. CASE \E size \in GovernedSizes : SetMaxPositionSize(size)
    <3>1. governed' \in GovernedSizes /\ UNCHANGED <<pool, paused, today, cash, moves>>
      BY <2>3 DEF SetMaxPositionSize, books, wallet, bounds
    <3>. QED  BY <1>1, <3>1 DEF EngineInv, TypeOK
  <2>4. CASE NewDay
    <3>1. today' \in 0 .. Len(trades) /\ UNCHANGED <<pool, paused, governed, cash, moves>>
      BY <1>3, <2>4 DEF NewDay, books, wallet, bounds
    <3>. QED  BY <1>1, <3>1 DEF EngineInv, TypeOK
  <2>. QED  BY <2>1, <2>2, <2>3, <2>4
<1>. QED  BY <1>1, <1>2, <1>6 DEF EngineInv

\* Every step of any number of overlapping cycles keeps the types, with ids that
\* only grow and amounts that are not zero.
THEOREM EngineInvariant == Spec => []EngineInv
<1>1. EngineInv /\ [Next]_vars => EngineInv'
  <2>. SUFFICES ASSUME EngineInv, [Next]_vars PROVE EngineInv'
    OBVIOUS
  <2>1. ASSUME NEW c \in Caller, StartCycle(c) \/ Proceed(c) PROVE EngineInv'
    <3>1. CASE DecideNothing(c) \/ SwapBuyFails(c)
      BY <3>1, CycleEnds DEF DecideNothing, SwapBuyFails
    <3>. QED  BY <2>1, <3>1, StartCycleEngine, DecideBuyEngine, DecideSellEngine, SwapBuyEngine,
              BookPositionEngine, SwapSellEngine, SwapSellFailsEngine, RecordSaleEngine DEF Proceed
  <2>2. CASE UNCHANGED vars
    <3>1. \A d \in Caller : Sound(cycle[d])'
      BY <2>2 DEF vars, EngineInv, Sound
    <3>. QED  BY <2>2, <3>1 DEF vars, EngineInv, TypeOK
  <2>. QED  BY <2>1, <2>2, SurroundingsEngine DEF Next
<1>. QED  BY <1>1, InitEngine, PTL DEF Spec

\* The tables, the wallet and every suspended cycle keep their types, also with
\* several overlapping cycles that work on stale reads.
THEOREM EngineTypes == Spec => []TypeOK
<1>1. EngineInv => TypeOK
  BY DEF EngineInv
<1>. QED  BY <1>1, EngineInvariant, PTL

\* While the fund is paused neither pool, positions nor trades change, although
\* cycles that were under way go on selling.
THEOREM PausedStandsStill == Spec => PausedBooksStandStill
<1>1. [Next]_vars => (paused => UNCHANGED books)
  <2>. SUFFICES ASSUME [Next]_vars, paused PROVE UNCHANGED books
    OBVIOUS
  <2>1. ASSUME NEW c \in Caller, StartCycle(c) \/ Proceed(c) PROVE UNCHANGED books
    <3>1. CASE StartCycle(c) \/ DecideNothing(c) \/ DecideSell(c) \/ SwapBuy(c) \/ SwapBuyFails(c)
      BY <3>1 DEF StartCycle, DecideNothing, DecideSell, SwapBuy, SwapBuyFails
    <3>2. CASE BookPosition(c)
      BY <3>2 DEF BookPosition, books
    <3>3. CASE \E size \in Sizes : DecideBuy(c, size)
      BY <3>3 DEF DecideBuy
    <3>4. ASSUME NEW p \in cycle[c].todo,
                 (\E pnl \in PnLs : SwapSell(c, p, pnl)) \/ SwapSellFails(c, p) \/ RecordSale(c, p)
          PROVE  UNCHANGED books
      BY <3>4 DEF SwapSell, SwapSellFails, RecordSale, books
    <3>. QED  BY <2>1, <3>1, <3>2, <3>3, <3>4 DEF Proceed
  <2>2. CASE UNCHANGED vars
    BY <2>2 DEF vars, books
  <2>3. CASE \/ \E stake \in Stakes : Deposit(stake) \/ Withdraw(stake)
             \/ TogglePause \/ (\E size \in GovernedSizes : SetMaxPositionSize(size)) \/ NewDay
    BY <2>3 DEF Deposit, Withdraw, TogglePause, SetMaxPositionSize, NewDay, books
  <2>. QED  BY <2>1, <2>2, <2>3 DEF Next
<1>. QED  BY <1>1, PTL DEF Spec, PausedBooksStandStill
-----------------------------------------------------------------------------
(* Costs of positions *)

LEMMA CostsType ==
  ASSUME NEW T \in SUBSET Position, IsFiniteSet(T)
  PROVE  Costs(T) \in Nat
<1>. DEFINE amounts == [p \in T |-> p.amount]
<1>1. \A p \in T : amounts[p] \in Int /\ amounts[p] >= 0
  BY DEF Position
<1>2. SumFunctionOnSet(amounts, T) \in Int /\ SumFunctionOnSet(amounts, T) >= 0
  <2>. HIDE DEF amounts
  <2>. QED  BY <1>1, SumType, SumNonNegative
<1>. QED  BY <1>2 DEF Costs

LEMMA CostsEmpty == Costs({}) = 0
  BY SumEmpty DEF Costs

\* Closing a position takes its cost out of the sum.
LEMMA CostsRemove ==
  ASSUME NEW T \in SUBSET Position, IsFiniteSet(T), NEW p \in T
  PROVE  Costs(T) = p.amount + Costs(T \ {p})
<1>. DEFINE amounts == [q \in T |-> q.amount]
            rest    == [q \in T \ {p} |-> q.amount]
<1>1. \A q \in T : amounts[q] \in Int
  BY DEF Position
<1>2. amounts[p] = p.amount /\ \A q \in T \ {p} : amounts[q] \in Int /\ rest[q] = amounts[q]
  BY <1>1
<1>3. IsFiniteSet(T \ {p})
  BY FS_RemoveElement
<1>. HIDE DEF amounts, rest
<1>4. SumFunctionOnSet(amounts, T) = amounts[p] + SumFunctionOnSet(amounts, T \ {p})
  BY <1>1, SumRemove
<1>5. SumFunctionOnSet(rest, T \ {p}) = SumFunctionOnSet(amounts, T \ {p})
  BY <1>2, <1>3, SumExt
<1>. QED  BY <1>2, <1>4, <1>5 DEF Costs, amounts, rest

\* Opening a position adds its cost.
LEMMA CostsAdd ==
  ASSUME NEW T \in SUBSET Position, IsFiniteSet(T), NEW p \in Position, p \notin T
  PROVE  Costs(T \cup {p}) = p.amount + Costs(T)
<1>1. T \cup {p} \in SUBSET Position /\ IsFiniteSet(T \cup {p}) /\ (T \cup {p}) \ {p} = T
  BY FS_AddElement
<1>. QED  BY <1>1, CostsRemove

-----------------------------------------------------------------------------
(* One cycle at a time *)

\* What the wallet holds next to the books, at each step of a cycle.
Backed(k) ==
    /\ k.step \notin {"booking", "recording"} => cash + Costs(positions) = pool /\ sol = Costs(positions)
    /\ k.step = "booking" => /\ cash + k.amount + Costs(positions) = pool
                             /\ sol = Costs(positions) + k.amount
    /\ k.step = "recording" => k.amount <= cash
    /\ k.step = "recording" =>
         \A p \in k.todo : (\A q \in k.todo : q.id <= p.id) =>
            cash + Costs(positions) = pool + k.amount /\ sol = Costs(positions) - p.amount

\* What a cycle read still holds when it goes on.
Fresh(k) ==
    /\ k.step # "idle" => ~paused
    /\ k.todo \subseteq positions
    /\ k.step \in {"deciding", "buying", "booking"} => k.pool = pool
    /\ k.step \in {"buying", "booking"} => Costs(positions) * 100 < 30 * pool /\ k.amount * 100 <= 30 * pool

\* Ids tell open and sold positions apart.
Distinct ==
    /\ \A p, q \in positions : p.id = q.id => p = q
    /\ \A i \in DOMAIN trades, p \in positions : trades[i].position # p.id
    /\ PositionSoldOnce

AloneInv == EngineInv /\ Distinct /\ \A c \in Caller : Fresh(cycle[c]) /\ Backed(cycle[c])

LEMMA InitAlone == Init => AloneInv
<1>. SUFFICES ASSUME Init PROVE AloneInv
  OBVIOUS
<1>1. EngineInv
  BY InitEngine
<1>2. positions = {} /\ DOMAIN trades = {} /\ Costs(positions) = 0
  BY EmptySeq, CostsEmpty DEF Init
<1>3. Distinct
  BY <1>2 DEF Distinct, PositionSoldOnce
<1>4. \A c \in Caller : cycle[c].step = "idle" /\ cycle[c].todo = {}
  BY IdleWellFormed DEF Init
<1>. QED  BY <1>1, <1>2, <1>3, <1>4 DEF Init, AloneInv, Fresh, Backed

\* With the one cycle idle nobody has read anything.
LEMMA QuietAlone ==
  ASSUME AloneInv, EngineInv', Distinct', NEW me, Caller = {me}, cycle'[me].step = "idle",
         cash' + Costs(positions') = pool' /\ sol' = Costs(positions')
  PROVE  AloneInv'
<1>1. cycle'[me].todo = {}
  BY DEF EngineInv, TypeOK
<1>. QED  BY <1>1 DEF AloneInv, Fresh, Backed

\* The tables stay, and with them the ids.
LEMMA SameTables ==
  ASSUME Distinct, UNCHANGED <<positions, trades>>
  PROVE  Distinct'
  BY DEF Distinct, PositionSoldOnce
LEMMA AloneFacts ==
  ASSUME AloneInv
  PROVE  /\ EngineInv /\ TypeOK /\ IsFiniteSet(positions) /\ positions \in SUBSET Position
         /\ pool \in Nat /\ cash \in Nat /\ sol \in Nat /\ Costs(positions) \in Nat
         /\ cycle \in [Caller -> Cycle]
         /\ \A c \in Caller : cycle[c].amount \in Nat /\ cycle[c].pool \in Nat
<1>1. EngineInv /\ TypeOK /\ IsFiniteSet(positions) /\ positions \in SUBSET Position
  BY DEF AloneInv, EngineInv, TypeOK
<1>2. cycle \in [Caller -> Cycle] /\ pool \in Nat /\ cash \in Nat /\ sol \in Nat
  BY <1>1 DEF TypeOK, Cycle
<1>3. \A c \in Caller : cycle[c].amount \in Nat /\ cycle[c].pool \in Nat
  BY <1>2 DEF Cycle
<1>. QED  BY <1>1, <1>2, <1>3, CostsType

LEMMA StartCycleAlone ==
  ASSUME AloneInv, NEW me, Caller = {me}, StartCycle(me)
  PROVE  AloneInv'
<1>1. PICK i \in Cycle : i = Idle
  BY IdleWellFormed DEF WellFormed
<1>2. PICK k : k = [i EXCEPT !.step = "deciding", !.pool = pool]
  OBVIOUS
<1>3. k.step = "deciding" /\ k.pool = pool /\ k.todo = {}
  BY <1>1, <1>2, IdleWellFormed DEF Cycle
<1>4. cycle'[me] = k
  BY <1>1, <1>2, AloneFacts DEF StartCycle
<1>5. UNCHANGED <<pool, positions, trades, paused, cash, sol>> /\ ~paused /\ cycle[me].step = "idle"
  BY DEF StartCycle, books, wallet
<1>6. EngineInv'
  BY StartCycleEngine, AloneFacts
<1>7. cash + Costs(positions) = pool /\ sol = Costs(positions)
  BY <1>5 DEF AloneInv, Backed
<1>8. (Fresh(cycle[me]) /\ Backed(cycle[me]))'
  BY <1>3, <1>4, <1>5, <1>7 DEF Fresh, Backed
<1>. QED  BY <1>5, <1>6, <1>8, SameTables DEF AloneInv

LEMMA CycleEndsAlone ==
  ASSUME AloneInv, NEW me, Caller = {me}, DecideNothing(me) \/ SwapBuyFails(me)
  PROVE  AloneInv'
<1>1. /\ cycle' = [cycle EXCEPT ![me] = Idle] /\ cycle[me].step \in {"deciding", "buying"}
      /\ UNCHANGED <<books, paused, governed, today, wallet, bounds>>
  BY DEF DecideNothing, SwapBuyFails
<1>2. EngineInv'
  BY <1>1, CycleEnds, AloneFacts
<1>3. UNCHANGED <<pool, positions, trades, cash, sol>>
  BY <1>1 DEF books, wallet
<1>4. cycle'[me].step = "idle"
  BY <1>1, AloneFacts, IdleWellFormed
<1>5. cash + Costs(positions) = pool /\ sol = Costs(positions)
  BY <1>1 DEF AloneInv, Backed
<1>6. Distinct'
  BY <1>3, SameTables DEF AloneInv
<1>. QED  BY <1>2, <1>3, <1>4, <1>5, <1>6, QuietAlone

\* There is exposure room only below the hard limit, whatever limit governance sets.
LEMMA ExposureRoom ==
  ASSUME AloneInv, NEW c \in Caller, HasExposureRoom(c)
  PROVE  Costs(positions) * 100 < 30 * cycle[c].pool
<1>1. PICK n \in Nat : n = cycle[c].pool
  BY AloneFacts
<1>2. PICK g \in Nat : g = Minimum(governed, MaxPositionSize) /\ g <= 30
  <2>1. governed \in Nat
    <3>1. governed \in GovernedSizes \cup {30}
      BY DEF AloneInv, EngineInv, TypeOK, MaxPositionSize
    <3>. QED  BY <3>1, SizeAssumption
  <2>. QED  BY <2>1 DEF Minimum, MaxPositionSize
<1>3. PICK m \in Nat : m = g * n
  OBVIOUS
<1>4. m <= 30 * n
  BY <1>2, <1>3
<1>5. Costs(positions) * 100 < m
  BY <1>1, <1>2, <1>3 DEF HasExposureRoom
<1>6. PICK s \in Nat : s = Costs(positions)
  BY AloneFacts
<1>7. s * 100 < m
  BY <1>5, <1>6
<1>8. s * 100 < 30 * n
  BY <1>4, <1>7
<1>. QED  BY <1>1, <1>6, <1>8

LEMMA DecideBuyAlone ==
  ASSUME AloneInv, NEW me, Caller = {me}, NEW size \in Sizes, DecideBuy(me, size)
  PROVE  AloneInv'
<1>1. /\ EngineInv' /\ cycle'[me].step = "buying" /\ cycle'[me].pool = cycle[me].pool
      /\ cycle'[me].amount * 100 <= 30 * cycle[me].pool
  BY DecideBuyEngine, AloneFacts
<1>2. UNCHANGED <<pool, positions, trades, paused, cash, sol>> /\ cycle[me].step = "deciding"
      /\ HasExposureRoom(me)
  BY DEF DecideBuy, books, wallet
<1>3. cycle'[me].todo = {}
  BY <1>1 DEF EngineInv, TypeOK
<1>4. Costs(positions) * 100 < 30 * cycle[me].pool
  BY <1>2, ExposureRoom
<1>5. cycle[me].pool = pool /\ ~paused /\ cash + Costs(positions) = pool /\ sol = Costs(positions)
  BY <1>2 DEF AloneInv, Fresh, Backed
<1>6. (Fresh(cycle[me]) /\ Backed(cycle[me]))'
  BY <1>1, <1>2, <1>3, <1>4, <1>5 DEF Fresh, Backed
<1>. QED  BY <1>1, <1>2, <1>6, SameTables DEF AloneInv

LEMMA SwapBuyAlone ==
  ASSUME AloneInv, NEW me, Caller = {me}, SwapBuy(me)
  PROVE  AloneInv'
<1>1. PICK x \in Cycle : x = cycle[me] /\ x.step = "buying"
  BY AloneFacts DEF SwapBuy
<1>2. PICK k : k = [x EXCEPT !.step = "booking"]
  OBVIOUS
<1>3. k.step = "booking" /\ k.amount = x.amount /\ k.pool = x.pool /\ k.todo = x.todo
  BY <1>2 DEF Cycle
<1>4. cycle'[me] = k
  BY <1>1, <1>2, AloneFacts DEF SwapBuy
<1>5. /\ UNCHANGED <<pool, positions, trades, paused>>
      /\ cash' = cash - x.amount /\ sol' = sol + x.amount
  BY <1>1 DEF SwapBuy, books
<1>6. EngineInv'
  BY SwapBuyEngine, AloneFacts
<1>7. Fresh(x) /\ cash + Costs(positions) = pool /\ sol = Costs(positions)
  BY <1>1 DEF AloneInv, Backed
<1>8. Fresh(k)'
  BY <1>1, <1>3, <1>5, <1>7 DEF Fresh
<1>9. Backed(k)'
  <2>1. cash \in Nat /\ pool \in Nat /\ sol \in Nat /\ Costs(positions) \in Nat /\ x.amount \in Nat
    BY <1>1, AloneFacts
  <2>2. Costs(positions') = Costs(positions)
    BY <1>5
  <2>3. cash' + x.amount + Costs(positions') = pool' /\ sol' = Costs(positions') + x.amount
    BY <1>5, <1>7, <2>1, <2>2
  <2>. QED  BY <1>3, <2>3 DEF Backed
<1>. QED  BY <1>4, <1>5, <1>6, <1>8, <1>9, SameTables DEF AloneInv

\* A position is opened under a new id, and its cost was taken from the wallet.
LEMMA BookPositionAlone ==
  ASSUME AloneInv, NEW me, Caller = {me}, BookPosition(me)
  PROVE  /\ AloneInv'
         /\ Costs(positions') * 100 < 60 * pool
<1>. DEFINE new == [id |-> nextId, amount |-> cycle[me].amount]
<1>1. cycle[me].step = "booking" /\ ~paused
  BY DEF BookPosition, AloneInv, Fresh
<1>2. /\ positions' = positions \cup {new} /\ nextId' = nextId + 1
      /\ cycle' = [cycle EXCEPT ![me] = Idle] /\ UNCHANGED <<pool, trades, cash, sol>>
  BY <1>1 DEF BookPosition, wallet
<1>3. EngineInv'
  BY BookPositionEngine, AloneFacts
<1>4. \A p \in positions : p.id < nextId
  BY AloneFacts DEF TypeOK
<1>5. nextId \in Nat \ {0} /\ cycle[me].amount \in Nat \ {0} /\ new \in Position /\ new.id = nextId
  BY <1>1, AloneFacts DEF EngineInv, TypeOK, Sound, Position
<1>6. new \notin positions
  BY <1>4, <1>5
<1>7. Costs(positions') = cycle[me].amount + Costs(positions)
  <2>. HIDE DEF new
  <2>1. Costs(positions \cup {new}) = new.amount + Costs(positions)
    BY <1>5, <1>6, CostsAdd, AloneFacts
  <2>. QED  BY <1>2, <2>1 DEF new
<1>8. Distinct'
  <2>1. \A i \in DOMAIN trades : trades[i].position \in Nat /\ trades[i].position < nextId
    BY TradeTable, AloneFacts
  <2>2. \A p \in positions : p.id \in Nat
    BY AloneFacts DEF Position
  <2>. HIDE DEF new
  <2>3. \A p, q \in positions' : p.id = q.id => p = q
    BY <1>2, <1>4, <1>5, <2>2 DEF AloneInv, Distinct
  <2>4. \A i \in DOMAIN trades', p \in positions' : trades'[i].position # p.id
    BY <1>2, <1>5, <2>1 DEF AloneInv, Distinct
  <2>. QED  BY <1>2, <2>3, <2>4 DEF AloneInv, Distinct, PositionSoldOnce
<1>9. cash' + Costs(positions') = pool' /\ sol' = Costs(positions')
  <2>1. cash + cycle[me].amount + Costs(positions) = pool /\ sol = Costs(positions) + cycle[me].amount
    BY <1>1 DEF AloneInv, Backed
  <2>. QED  BY <1>2, <1>5, <1>7, <2>1, AloneFacts
<1>10. cycle'[me].step = "idle"
  BY <1>2, AloneFacts, IdleWellFormed
<1>11. Costs(positions') * 100 < 60 * pool
  <2>1. Costs(positions) * 100 < 30 * pool /\ cycle[me].amount * 100 <= 30 * pool
    BY <1>1 DEF AloneInv, Fresh
  <2>. QED  BY <1>5, <1>7, <2>1, AloneFacts
<1>. QED  BY <1>3, <1>8, <1>9, <1>10, <1>11, QuietAlone
LEMMA DecideSellAlone ==
  ASSUME AloneInv, NEW me, Caller = {me}, DecideSell(me)
  PROVE  AloneInv'
<1>1. EngineInv' /\ cycle'[me].todo = positions /\ cycle'[me].step = "selling"
  BY DecideSellEngine, AloneFacts
<1>2. UNCHANGED <<pool, positions, trades, paused, cash, sol>> /\ cycle[me].step = "deciding"
  BY DEF DecideSell, books, wallet
<1>3. ~paused /\ cash + Costs(positions) = pool /\ sol = Costs(positions)
  BY <1>2 DEF AloneInv, Fresh, Backed
<1>4. (Fresh(cycle[me]) /\ Backed(cycle[me]))'
  BY <1>1, <1>2, <1>3 DEF Fresh, Backed
<1>. QED  BY <1>1, <1>2, <1>4, SameTables DEF AloneInv

\* The loop is at one position: ids are distinct.
LEMMA OneCurrent ==
  ASSUME AloneInv, NEW c \in Caller, NEW p \in cycle[c].todo, Current(c, p),
         NEW q \in cycle[c].todo, \A r \in cycle[c].todo : r.id <= q.id
  PROVE  q = p
<1>1. p \in positions /\ q \in positions
  BY DEF AloneInv, Fresh
<1>2. p.id \in Nat /\ q.id \in Nat
  BY <1>1, AloneFacts DEF Position
<1>3. q.id <= p.id /\ p.id <= q.id
  BY DEF Current
<1>. QED  BY <1>1, <1>2, <1>3 DEF AloneInv, Distinct

LEMMA SwapSellAlone ==
  ASSUME AloneInv, NEW me, Caller = {me}, NEW p \in cycle[me].todo, NEW pnl \in PnLs,
         SwapSell(me, p, pnl)
  PROVE  AloneInv'
<1>1. /\ EngineInv' /\ cycle'[me].step = "recording" /\ cycle'[me].todo = cycle[me].todo
      /\ cycle'[me].amount = p.amount + pnl /\ p \in Position
  BY SwapSellEngine, AloneFacts
<1>2. /\ UNCHANGED <<pool, positions, trades, paused>> /\ cycle[me].step = "selling" /\ Current(me, p)
      /\ cash' = cash + p.amount + pnl /\ sol' = sol - p.amount
  BY DEF SwapSell, books
<1>3. Fresh(cycle[me]) /\ cash + Costs(positions) = pool /\ sol = Costs(positions)
  BY <1>2 DEF AloneInv, Backed
<1>4. Fresh(cycle[me])'
  BY <1>1, <1>2, <1>3 DEF Fresh
<1>5. p.amount \in Nat /\ pnl \in Int
  BY <1>1, MoneyAssumption DEF Position
<1>6. /\ cash' + Costs(positions') = pool' + (p.amount + pnl) /\ sol' = Costs(positions') - p.amount
      /\ p.amount + pnl <= cash'
  <2>1. cash \in Nat /\ pool \in Nat /\ sol \in Nat /\ Costs(positions) \in Nat
    BY AloneFacts
  <2>2. Costs(positions') = Costs(positions) /\ pool' = pool
    BY <1>2
  <2>. QED  BY <1>2, <1>3, <1>5, <2>1, <2>2
<1>7. Backed(cycle[me])'
  <2>1. \A q \in cycle[me].todo : (\A r \in cycle[me].todo : r.id <= q.id) => q = p
    BY <1>2, OneCurrent
  <2>. QED  BY <1>1, <1>6, <2>1 DEF Backed
<1>. QED  BY <1>1, <1>2, <1>4, <1>7, SameTables DEF AloneInv

\* A swap that fails leaves its position open and the books alone.
LEMMA SwapSellFailsAlone ==
  ASSUME AloneInv, NEW me, Caller = {me}, NEW p \in cycle[me].todo, SwapSellFails(me, p)
  PROVE  AloneInv'
<1>1. EngineInv' /\ cycle'[me] = NextPosition(me, p)
  BY SwapSellFailsEngine, AloneFacts
<1>2. /\ UNCHANGED <<pool, positions, trades, paused, cash, sol>> /\ cycle[me].step = "selling"
      /\ Current(me, p)
  BY DEF SwapSellFails, books, wallet
<1>3. cycle'[me].todo \subseteq cycle[me].todo /\ cycle'[me].step \in {"idle", "selling"}
  BY <1>1, <1>2, NextPositionSound, AloneFacts DEF EngineInv, Sound
<1>4. Fresh(cycle[me]) /\ cash + Costs(positions) = pool /\ sol = Costs(positions)
  BY <1>2 DEF AloneInv, Backed
<1>5. (Fresh(cycle[me]) /\ Backed(cycle[me]))'
  BY <1>2, <1>3, <1>4 DEF Fresh, Backed
<1>. QED  BY <1>1, <1>2, <1>5, SameTables DEF AloneInv

\* The record takes the position and its result into the books; nothing makes
\* recordTrade throw, so the wallet and the books agree again.
LEMMA RecordSaleAlone ==
  ASSUME AloneInv, NEW me, Caller = {me}, NEW p \in cycle[me].todo, RecordSale(me, p)
  PROVE  AloneInv'
<1>. DEFINE pnl == cycle[me].amount - p.amount
<1>1. cycle[me].step = "recording" /\ Current(me, p) /\ UNCHANGED <<paused, cash, sol>>
  BY DEF RecordSale, wallet
<1>2. /\ p \in positions /\ ~paused
      /\ cash + Costs(positions) = pool + cycle[me].amount /\ sol = Costs(positions) - p.amount
  BY <1>1 DEF AloneInv, Fresh, Backed, Current
<1>3. p \in Position /\ p.amount \in Nat \ {0} /\ cycle[me].amount \in Nat /\ cash \in Nat /\ pool \in Nat
  BY <1>2, AloneFacts DEF Position
<1>4. Costs(positions) = p.amount + Costs(positions \ {p}) /\ Costs(positions \ {p}) \in Nat
  <2>1. positions \ {p} \in SUBSET Position /\ IsFiniteSet(positions \ {p})
    BY FS_RemoveElement, AloneFacts
  <2>. QED  BY <1>2, <2>1, CostsRemove, CostsType, AloneFacts
<1>5. Recorded(me, p)
  <2>1. cycle[me].amount <= cash
    BY <1>1 DEF AloneInv, Backed
  <2>2. PICK costs \in Nat, amount \in Nat :
          /\ costs = Costs(positions \ {p}) /\ amount = cycle[me].amount /\ amount <= cash
          /\ cash + (p.amount + costs) = pool + amount
    <3>1. cash + Costs(positions) = pool + cycle[me].amount
      BY <1>2
    <3>. QED  BY <1>3, <1>4, <2>1, <3>1
  <2>3. pool > 0 /\ pool + (amount - p.amount) >= 0
    <3>1. PICK price \in Nat, funds \in Nat, paid \in Nat :
            price = p.amount /\ price > 0 /\ funds = pool /\ paid = cash
      BY <1>3
    <3>2. paid + (price + costs) = funds + amount /\ amount <= paid
      BY <2>2, <3>1
    <3>3. funds > 0 /\ funds + (amount - price) >= 0
      BY <3>1, <3>2
    <3>. QED  BY <3>1, <3>3
  <2>. QED  BY <1>2, <2>2, <2>3 DEF Recorded
<1>6. /\ EngineInv'
      /\ trades' = Append(trades, [position |-> p.id, pnl |-> pnl])
      /\ pool' = pool + pnl /\ positions' = positions \ {p}
      /\ cycle'[me] = NextPosition(me, p)
  BY <1>2, <1>5, RecordSaleEngine, AloneFacts
<1>7. cycle'[me].todo \subseteq cycle[me].todo \ {p} /\ cycle'[me].step \in {"idle", "selling"}
  BY <1>1, <1>6, NextPositionSound, AloneFacts DEF EngineInv, Sound
<1>8. cash' + Costs(positions') = pool' /\ sol' = Costs(positions')
  <2>1. PICK costs \in Nat, amount \in Nat, before \in Nat :
          /\ costs = Costs(positions \ {p}) /\ amount = cycle[me].amount /\ before = Costs(positions)
          /\ before = p.amount + costs
    BY <1>3, <1>4, AloneFacts
  <2>2. cash' = cash /\ sol' = before - p.amount /\ cash + before = pool + amount
    BY <1>1, <1>2, <2>1
  <2>3. pool' = pool + (amount - p.amount) /\ Costs(positions') = costs
    BY <1>6, <2>1
  <2>. QED  BY <1>3, <2>1, <2>2, <2>3
<1>9. Distinct'
  <2>1. Len(trades) \in Nat /\ DOMAIN trades = 1 .. Len(trades)
    BY TradeTable, AloneFacts
  <2>2. /\ DOMAIN trades' = 1 .. (Len(trades) + 1)
        /\ trades'[Len(trades) + 1].position = p.id
        /\ \A i \in 1 .. Len(trades) : trades'[i] = trades[i]
    <3>1. [position |-> p.id, pnl |-> pnl] \in [position: Nat, pnl: Int]
      BY <1>3 DEF Position
    <3>. QED  BY <1>6, <3>1, <2>1, TradeTable, AloneFacts, AppendProperties, LenProperties
  <2>3. \A q \in positions : q.id = p.id => q = p
    BY <1>2 DEF AloneInv, Distinct
  <2>4. \A i \in 1 .. Len(trades) : trades[i].position # p.id
    BY <1>2, <2>1 DEF AloneInv, Distinct
  <2>5. \A i \in DOMAIN trades', q \in positions' : trades'[i].position # q.id
    <3>. SUFFICES ASSUME NEW i \in DOMAIN trades', NEW q \in positions' PROVE trades'[i].position # q.id
      OBVIOUS
    <3>1. CASE i \in 1 .. Len(trades)
      BY <1>6, <2>1, <2>2, <3>1 DEF AloneInv, Distinct
    <3>2. CASE i = Len(trades) + 1
      BY <1>6, <2>2, <2>3, <3>2
    <3>. QED  BY <2>1, <2>2, <3>1, <3>2
  <2>6. \A i, j \in 1 .. Len(trades) : trades[i].position = trades[j].position => i = j
    BY <2>1 DEF AloneInv, Distinct, PositionSoldOnce
  <2>7. PositionSoldOnce'
    <3>. SUFFICES ASSUME NEW i \in DOMAIN trades', NEW j \in DOMAIN trades',
                         trades'[i].position = trades'[j].position
                  PROVE  i = j
      BY DEF PositionSoldOnce
    <3>1. CASE i \in 1 .. Len(trades) /\ j \in 1 .. Len(trades)
      BY <2>2, <2>6, <3>1
    <3>2. CASE i = Len(trades) + 1 /\ j \in 1 .. Len(trades)
      BY <2>2, <2>4, <3>2
    <3>3. CASE j = Len(trades) + 1 /\ i \in 1 .. Len(trades)
      BY <2>2, <2>4, <3>3
    <3>. QED  BY <2>1, <2>2, <3>1, <3>2, <3>3
  <2>. QED  BY <1>6, <2>5, <2>7 DEF AloneInv, Distinct
<1>10. Fresh(cycle[me])'
  <2>1. cycle[me].todo \subseteq positions
    BY DEF AloneInv, Fresh
  <2>. QED  BY <1>1, <1>2, <1>6, <1>7, <2>1 DEF Fresh
<1>11. Backed(cycle[me])'
  BY <1>7, <1>8 DEF Backed
<1>. QED  BY <1>6, <1>9, <1>10, <1>11 DEF AloneInv
\* What happens around the cycle: money moves only while it is idle, both in
\* the pool and in the wallet.
LEMMA SurroundingsAlone ==
  ASSUME AloneInv, NEW me, Caller = {me}, ~Interference,
         \/ \E stake \in Stakes : Deposit(stake) \/ Withdraw(stake)
         \/ TogglePause
         \/ \E size \in GovernedSizes : SetMaxPositionSize(size)
         \/ NewDay
  PROVE  AloneInv'
<1>1. EngineInv'
  BY SurroundingsEngine, AloneFacts
<1>2. UNCHANGED <<positions, trades, cycle, sol>>
  BY DEF Deposit, Withdraw, TogglePause, SetMaxPositionSize, NewDay, books, wallet
<1>3. Distinct'
  BY <1>2, SameTables DEF AloneInv
<1>4. CASE \E stake \in Stakes : Deposit(stake) \/ Withdraw(stake)
  <2>1. PICK stake \in Stakes : Deposit(stake) \/ Withdraw(stake)
    BY <1>4
  <2>2. stake \in Nat /\ cycle[me].step = "idle"
    BY <2>1, MoneyAssumption DEF Deposit, Withdraw, MayInterfere, Quiet
  <2>3. cash + Costs(positions) = pool /\ sol = Costs(positions)
    BY <2>2 DEF AloneInv, Backed
  <2>4. Costs(positions') = Costs(positions)
    BY <1>2
  <2>5. cash' + Costs(positions') = pool'
    BY <2>1, <2>2, <2>3, <2>4, AloneFacts DEF Deposit, Withdraw
  <2>. QED  BY <1>1, <1>2, <1>3, <2>2, <2>3, <2>4, <2>5, QuietAlone
<1>5. CASE TogglePause
  <2>1. UNCHANGED <<pool, cash>> /\ cycle[me].step = "idle"
    BY <1>5 DEF TogglePause, MayInterfere, Quiet, books, wallet
  <2>2. cash + Costs(positions) = pool /\ sol = Costs(positions)
    BY <2>1 DEF AloneInv, Backed
  <2>. QED  BY <1>1, <1>2, <1>3, <2>1, <2>2, QuietAlone
<1>6. CASE NewDay \/ \E size \in GovernedSizes : SetMaxPositionSize(size)
  <2>1. UNCHANGED <<pool, cash, paused>>
    BY <1>6 DEF NewDay, SetMaxPositionSize, books, wallet
  <2>2. (Fresh(cycle[me]) /\ Backed(cycle[me]))'
    BY <1>2, <2>1 DEF AloneInv, Fresh, Backed
  <2>. QED  BY <1>1, <1>3, <2>2 DEF AloneInv
<1>. QED  BY <1>4, <1>5, <1>6

LEMMA NextAlone ==
  ASSUME AloneInv, NEW me, Caller = {me}, ~Interference, [Next]_vars
  PROVE  AloneInv'
<1>1. CASE StartCycle(me) \/ Proceed(me)
  BY <1>1, StartCycleAlone, CycleEndsAlone, DecideBuyAlone, DecideSellAlone, SwapBuyAlone,
     BookPositionAlone, SwapSellAlone, SwapSellFailsAlone, RecordSaleAlone DEF Proceed
<1>2. CASE UNCHANGED vars
  <2>1. UNCHANGED <<pool, paused, governed, positions, trades, today, cash, sol, cycle, nextId, moves>>
    BY <1>2 DEF vars
  <2>2. \A d \in Caller : (Sound(cycle[d]) /\ Fresh(cycle[d]) /\ Backed(cycle[d]))'
    BY <2>1 DEF AloneInv, EngineInv, Sound, Fresh, Backed
  <2>3. TypeOK'
    BY <2>1 DEF AloneInv, EngineInv, TypeOK
  <2>. QED  BY <2>1, <2>2, <2>3, SameTables DEF AloneInv, EngineInv
<1>. QED  BY <1>1, <1>2, SurroundingsAlone DEF Next

\* One undisturbed cycle at a time: between its awaits the wallet and the books
\* differ by what the cycle has in its hands, and by nothing else.
THEOREM AloneInvariant ==
  ASSUME NEW me, Caller = {me}, ~Interference
  PROVE  Spec => []AloneInv
<1>1. AloneInv /\ [Next]_vars => AloneInv'
  BY NextAlone
<1>. QED  BY <1>1, InitAlone, PTL DEF Spec

\* Between cycles the wallet holds exactly the cash and the SOL the books say,
\* whatever swaps fail or lose.
THEOREM WalletBacks ==
  ASSUME NEW me, Caller = {me}, ~Interference
  PROVE  Spec => []WalletBacksBooks
<1>1. AloneInv => WalletBacksBooks
  BY DEF AloneInv, WalletBacksBooks, Quiet, Backed
<1>2. Spec => []AloneInv
  BY AloneInvariant
<1>. QED  BY <1>1, <1>2, PTL

\* A position is sold once, and no other position ever has its id.
THEOREM SoldOnce ==
  ASSUME NEW me, Caller = {me}, ~Interference
  PROVE  Spec => []PositionSoldOnce
<1>1. AloneInv => PositionSoldOnce
  BY DEF AloneInv, Distinct
<1>2. Spec => []AloneInv
  BY AloneInvariant
<1>. QED  BY <1>1, <1>2, PTL

\* Opening a position leaves the exposure below twice the limit on one trade,
\* for every size a strategy asks for and every limit of governance.
THEOREM ExposureStaysBounded ==
  ASSUME NEW me, Caller = {me}, ~Interference
  PROVE  Spec => ExposureBounded
<1>1. AloneInv /\ [Next]_vars => (nextId' # nextId => Costs(positions') * 100 < 2 * MaxPositionSize * pool)
  <2>. SUFFICES ASSUME AloneInv, [Next]_vars, nextId' # nextId
                PROVE  Costs(positions') * 100 < 2 * MaxPositionSize * pool
    OBVIOUS
  <2>1. BookPosition(me)
    <3>1. ASSUME NEW c \in Caller, StartCycle(c) \/ Proceed(c)
          PROVE  BookPosition(c)
      <4>1. ASSUME NEW p \in cycle[c].todo,
                   (\E pnl \in PnLs : SwapSell(c, p, pnl)) \/ SwapSellFails(c, p) \/ RecordSale(c, p)
            PROVE  FALSE
        BY <4>1 DEF SwapSell, SwapSellFails, RecordSale, bounds
      <4>2. StartCycle(c) \/ DecideNothing(c) \/ (\E size \in Sizes : DecideBuy(c, size)) => FALSE
        BY DEF StartCycle, DecideNothing, DecideBuy, bounds
      <4>3. DecideSell(c) \/ SwapBuy(c) \/ SwapBuyFails(c) => FALSE
        BY DEF DecideSell, SwapBuy, SwapBuyFails, bounds
      <4>. QED  BY <3>1, <4>1, <4>2, <4>3 DEF Proceed
    <3>2. nextId' = nextId \/ \E c \in Caller : StartCycle(c) \/ Proceed(c)
      BY DEF Next, Deposit, Withdraw, TogglePause, SetMaxPositionSize, NewDay, bounds, vars
    <3>. QED  BY <3>1, <3>2
  <2>2. Costs(positions') * 100 < 60 * pool
    BY <2>1, BookPositionAlone
  <2>. QED  BY <2>2 DEF MaxPositionSize
<1>2. Spec => []AloneInv
  BY AloneInvariant
<1>. QED  BY <1>1, <1>2, PTL DEF Spec, ExposureBounded
=============================================================================
