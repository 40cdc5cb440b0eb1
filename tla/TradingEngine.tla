--------------------------- MODULE TradingEngine ---------------------------
(***************************************************************************)
(* The trading cycle of panthers-fund/src/agent/trading-engine.ts, as the  *)
(* interleaving of its callers: the 4-hour job of cron.ts and the tool     *)
(* run_trading_cycle, with no lock between them.  A cycle suspends at each *)
(* await (market data, a Jupiter swap, the price), and what it read before *)
(* may be stale when it goes on: every await ends an action.               *)
(*                                                                         *)
(* Jupiter and the wallet are outside the program: cash and sol are what   *)
(* the fund's wallet really holds.  SOL is counted by what it cost, so a   *)
(* sale brings its cost plus a profit or loss.  The ledger's part is taken *)
(* from FundLedger: recordTrade commits if somebody's money is in the pool *)
(* and the loss does not exceed it, and throws otherwise.                  *)
(***************************************************************************)
EXTENDS Integers, Sequences, FiniteSets, Functions

CONSTANTS
    Caller,          \* who runs cycles
    Interference,    \* TRUE: accounts move and the fund is paused also during a cycle
    Sizes,           \* the position sizes strategies ask for, in percent
    GovernedSizes,   \* values governance gives to the trading limit maxPositionSize
    PnLs,            \* profit or loss of a sale, in cents
    Stakes,          \* amounts investors bring and take
    MaxDailyTrades,  \* HARD_LIMITS.maxDailyTrades (10)
    MaxMoves,        \* bound: deposits and withdrawals
    MaxPositions     \* bound: ids of open_positions

ASSUME InterferenceAssumption == Interference \in BOOLEAN
ASSUME MoneyAssumption == Stakes \subseteq Nat \ {0} /\ PnLs \subseteq Int
ASSUME SizeAssumption == Sizes \subseteq Nat /\ GovernedSizes \subseteq Nat
ASSUME BoundAssumption == MaxDailyTrades \in Nat /\ MaxMoves \in Nat /\ MaxPositions \in Nat

\* HARD_LIMITS
MaxPositionSize == 30
MinPositionSize == 5
DailyLossLimit == 10

VARIABLES
    pool,       \* fund_state.total_pool_balance
    paused,     \* fund_state.is_paused
    governed,   \* maxPositionSize in config trading_limits (30 when never set)
    positions,  \* table open_positions: [id, amount]
    trades,     \* table trades: [position, pnl]
    today,      \* number of trades before today
    cash,       \* USDC in the wallet, in cents
    sol,        \* SOL in the wallet, by its cost in cents
    cycle,      \* where each caller's cycle stands
    nextId,     \* AUTOINCREMENT of open_positions
    moves       \* deposits and withdrawals so far

books == <<pool, positions, trades>>
wallet == <<cash, sol>>
bounds == <<nextId, moves>>
vars == <<pool, paused, governed, positions, trades, today, cash, sol, cycle, nextId, moves>>

Position == [id: Nat \ {0}, amount: Nat \ {0}]

\* step: what the cycle waits for.  pool: the balance it read at its start.
\* amount: the position it buys, or the proceeds of the sale it records.
\* todo: the positions it read and still has to sell, the current one included.
Idle == [step |-> "idle", pool |-> 0, amount |-> 0, todo |-> {}]

Quiet == \A c \in Caller : cycle[c].step = "idle"

\* What others may do to the fund while a cycle is suspended.
MayInterfere == Interference \/ Quiet

Costs(set) == SumFunctionOnSet([p \in set |-> p.amount], set)

TradesToday == SubSeq(trades, today + 1, Len(trades))
PnLToday == SumFunction([i \in DOMAIN TradesToday |-> TradesToday[i].pnl])

Minimum(a, b) == IF a < b THEN a ELSE b

-----------------------------------------------------------------------------
(* Limits *)

\* checkDailyLimits
DailyLimitsAllow ==
    /\ Len(TradesToday) < MaxDailyTrades
    /\ ~ (PnLToday < 0 /\ -PnLToday * 100 >= DailyLossLimit * pool)

\* Bug: the size is not clamped to the hard limits.
ClampNothing(size) == size

\* clampPositionSize
ClampPositionSize(size) ==
    IF size > MaxPositionSize THEN MaxPositionSize
    ELSE IF size < MinPositionSize THEN MinPositionSize ELSE size

\* handleBuy: what is open already leaves room under the (governed) limit, as
\* a share of the pool read at the start.
HasExposureRoom(c) ==
    Costs(positions) * 100 < Minimum(governed, MaxPositionSize) * cycle[c].pool

-----------------------------------------------------------------------------
(* A cycle *)

\* runTradingCycle up to its first await: the pre-checks.
StartCycle(c) ==
    /\ cycle[c].step = "idle"
    /\ ~paused
    /\ pool > 0
    /\ DailyLimitsAllow
    /\ cycle' = [cycle EXCEPT ![c] = [Idle EXCEPT !.step = "deciding", !.pool = pool]]
    /\ UNCHANGED <<books, paused, governed, today, wallet, bounds>>

\* After market data and sentiment: hold, an error, or a check that ends it.
DecideNothing(c) ==
    /\ cycle[c].step = "deciding"
    /\ cycle' = [cycle EXCEPT ![c] = Idle]
    /\ UNCHANGED <<books, paused, governed, today, wallet, bounds>>

DecideBuy(c, size) ==
    LET amount == (cycle[c].pool * ClampPositionSize(size)) \div 100
    IN  /\ cycle[c].step = "deciding"
        /\ HasExposureRoom(c)
        /\ amount > 0
        /\ nextId <= MaxPositions
        /\ cycle' = [cycle EXCEPT ![c].step = "buying", ![c].amount = amount]
        /\ UNCHANGED <<books, paused, governed, today, wallet, bounds>>

\* getOpenPositions, whose order is newest first.
DecideSell(c) ==
    /\ cycle[c].step = "deciding"
    /\ positions # {}
    /\ cycle' = [cycle EXCEPT ![c].step = "selling", ![c].todo = positions]
    /\ UNCHANGED <<books, paused, governed, today, wallet, bounds>>

\* The position the loop is at.
Current(c, p) == p \in cycle[c].todo /\ \A q \in cycle[c].todo : q.id <= p.id

\* The swap USDC -> SOL, then the wait for the price.
SwapBuy(c) ==
    /\ cycle[c].step = "buying"
    /\ cash >= cycle[c].amount
    /\ cash' = cash - cycle[c].amount
    /\ sol' = sol + cycle[c].amount
    /\ cycle' = [cycle EXCEPT ![c].step = "booking"]
    /\ UNCHANGED <<books, paused, governed, today, bounds>>

SwapBuyFails(c) ==
    /\ cycle[c].step = "buying"
    /\ cycle' = [cycle EXCEPT ![c] = Idle]
    /\ UNCHANGED <<books, paused, governed, today, wallet, bounds>>

\* openPosition; it throws when the fund was paused meanwhile.
BookPosition(c) ==
    /\ cycle[c].step = "booking"
    /\ IF paused
       THEN UNCHANGED <<positions, nextId>>
       ELSE /\ positions' = positions \cup {[id |-> nextId, amount |-> cycle[c].amount]}
            /\ nextId' = nextId + 1
    /\ cycle' = [cycle EXCEPT ![c] = Idle]
    /\ UNCHANGED <<pool, trades, paused, governed, today, wallet, moves>>

\* Bug: what is kept for the record is the profit, not the proceeds.
SwapSellKeepsProfit(c, p, pnl) ==
    /\ cycle[c].step = "selling" /\ Current(c, p)
    /\ sol >= p.amount /\ p.amount + pnl >= 0
    /\ sol' = sol - p.amount
    /\ cash' = cash + p.amount + pnl
    /\ cycle' = [cycle EXCEPT ![c].step = "recording", ![c].amount = pnl]
    /\ UNCHANGED <<books, paused, governed, today, bounds>>

\* The swap SOL -> USDC of the next position, then the wait for the price.
SwapSell(c, p, pnl) ==
    /\ cycle[c].step = "selling" /\ Current(c, p)
    /\ sol >= p.amount /\ p.amount + pnl >= 0
    /\ sol' = sol - p.amount
    /\ cash' = cash + p.amount + pnl
    /\ cycle' = [cycle EXCEPT ![c].step = "recording", ![c].amount = p.amount + pnl]
    /\ UNCHANGED <<books, paused, governed, today, bounds>>

\* Bug: a position that cannot be sold is tried again.
NextPositionIsTheSame(c, p) == [cycle[c] EXCEPT !.step = "selling", !.amount = 0]

NextPosition(c, p) ==
    IF cycle[c].todo = {p} THEN Idle
    ELSE [cycle[c] EXCEPT !.step = "selling", !.amount = 0, !.todo = @ \ {p}]

\* The position is left open and the next one is tried.
SwapSellFails(c, p) ==
    /\ cycle[c].step = "selling" /\ Current(c, p)
    /\ cycle' = [cycle EXCEPT ![c] = NextPosition(c, p)]
    /\ UNCHANGED <<books, paused, governed, today, wallet, bounds>>

\* Bug: the position record is not removed.
RecordSaleKeepsPosition(c, p) ==
    LET pnl == cycle[c].amount - p.amount
    IN  /\ cycle[c].step = "recording" /\ Current(c, p)
        /\ trades' = Append(trades, [position |-> p.id, pnl |-> pnl])
        /\ pool' = pool + pnl
        /\ cycle' = [cycle EXCEPT ![c] = NextPosition(c, p)]
        /\ UNCHANGED <<positions, paused, governed, today, wallet, bounds>>

\* Bug: recordTrade does not check is_paused.
RecordSaleWhilePaused(c, p) ==
    LET pnl == cycle[c].amount - p.amount
    IN  /\ cycle[c].step = "recording" /\ Current(c, p)
        /\ trades' = Append(trades, [position |-> p.id, pnl |-> pnl])
        /\ pool' = pool + pnl
        /\ positions' = positions \ {p}
        /\ cycle' = [cycle EXCEPT ![c] = NextPosition(c, p)]
        /\ UNCHANGED <<paused, governed, today, wallet, bounds>>

\* recordTrade, then closePosition.  recordTrade throws when the fund is paused
\* or its pool cannot take the result; closePosition throws when another cycle
\* closed the position already, with the trade recorded.  A throw ends the
\* cycle and the positions it had not come to stay open.
RecordSale(c, p) ==
    LET pnl      == cycle[c].amount - p.amount
        recorded == ~paused /\ (pnl = 0 \/ (pool > 0 /\ pool + pnl >= 0))
    IN  /\ cycle[c].step = "recording" /\ Current(c, p)
        /\ trades' = IF recorded THEN Append(trades, [position |-> p.id, pnl |-> pnl]) ELSE trades
        /\ pool' = IF recorded THEN pool + pnl ELSE pool
        /\ positions' = IF recorded THEN positions \ {p} ELSE positions
        /\ cycle' = [cycle EXCEPT ![c] = IF recorded /\ p \in positions THEN NextPosition(c, p) ELSE Idle]
        /\ UNCHANGED <<paused, governed, today, wallet, bounds>>

-----------------------------------------------------------------------------
(* What happens around a cycle *)

\* createNFTAccount or addFundsToNFT: the money is in the wallet when it is booked.
Deposit(stake) ==
    /\ MayInterfere
    /\ ~paused
    /\ moves < MaxMoves
    /\ moves' = moves + 1
    /\ pool' = pool + stake
    /\ cash' = cash + stake
    /\ UNCHANGED <<positions, trades, paused, governed, today, sol, cycle, nextId>>

\* recordWithdrawal: what an account leaves with, paid out of the wallet's cash.
Withdraw(stake) ==
    /\ MayInterfere
    /\ ~paused
    /\ moves < MaxMoves
    /\ stake <= pool
    /\ stake <= cash
    /\ moves' = moves + 1
    /\ pool' = pool - stake
    /\ cash' = cash - stake
    /\ UNCHANGED <<positions, trades, paused, governed, today, sol, cycle, nextId>>

\* pauseFund and unpauseFund.
TogglePause ==
    /\ MayInterfere
    /\ paused' = ~paused
    /\ UNCHANGED <<books, governed, today, wallet, cycle, bounds>>

\* handleTradingLimits of config-api.ts.
SetMaxPositionSize(size) ==
    /\ governed' = size
    /\ UNCHANGED <<books, paused, today, wallet, cycle, bounds>>

NewDay ==
    /\ today # Len(trades)
    /\ today' = Len(trades)
    /\ UNCHANGED <<books, paused, governed, wallet, cycle, bounds>>

-----------------------------------------------------------------------------
Init ==
    /\ pool = 0 /\ cash = 0 /\ sol = 0
    /\ paused = FALSE
    /\ governed = MaxPositionSize
    /\ positions = {}
    /\ trades = <<>>
    /\ today = 0
    /\ cycle = [c \in Caller |-> Idle]
    /\ nextId = 1 /\ moves = 0

\* What a started cycle does next; it never waits for ever.
Proceed(c) ==
    \/ DecideNothing(c)
    \/ \E size \in Sizes : DecideBuy(c, size)
    \/ DecideSell(c)
    \/ SwapBuy(c)
    \/ SwapBuyFails(c)
    \/ BookPosition(c)
    \/ \E p \in cycle[c].todo : \/ \E pnl \in PnLs : SwapSell(c, p, pnl)
                               \/ SwapSellFails(c, p)
                               \/ RecordSale(c, p)

Next ==
    \/ \E c \in Caller : StartCycle(c) \/ Proceed(c)
    \/ \E stake \in Stakes : Deposit(stake) \/ Withdraw(stake)
    \/ TogglePause
    \/ \E size \in GovernedSizes : SetMaxPositionSize(size)
    \/ NewDay

Spec == Init /\ [][Next]_vars /\ \A c \in Caller : WF_vars(Proceed(c))

-----------------------------------------------------------------------------
(* Properties *)

\* The state is what the tables, the wallet and a suspended cycle can hold.
TypeOK ==
    /\ pool \in Nat /\ cash \in Nat /\ sol \in Nat
    /\ paused \in BOOLEAN
    /\ governed \in GovernedSizes \cup {MaxPositionSize}
    /\ positions \subseteq Position /\ \A p \in positions : p.id < nextId
    /\ trades \in Seq([position: Nat, pnl: Int]) /\ \A i \in DOMAIN trades : trades[i].position < nextId
    /\ today \in 0 .. Len(trades)
    /\ cycle \in [Caller -> [step: {"idle", "deciding", "buying", "booking", "selling", "recording"},
                             pool: Nat, amount: Nat, todo: SUBSET Position]]
    /\ \A c \in Caller : (cycle[c].step \in {"selling", "recording"}) = (cycle[c].todo # {})
    /\ nextId \in Nat /\ moves \in 0 .. MaxMoves

\* Between cycles the wallet holds exactly what the books say: the cash that is
\* not in positions, and the SOL of every open position.  It is what lets every
\* investor be paid, and no check of the program compares the two.
WalletBacksBooks ==
    Quiet => cash + Costs(positions) = pool /\ sol = Costs(positions)

\* A position is sold once: trades are round trips, one for each position.
PositionSoldOnce ==
    \A i, j \in DOMAIN trades : trades[i].position = trades[j].position => i = j

\* The exposure check keeps the open positions below twice the limit on one
\* trade (a position may be opened while less than the limit is out).
ExposureBounded ==
    [][nextId' # nextId => Costs(positions') * 100 < 2 * MaxPositionSize * pool]_vars

\* While the fund is paused the books stand still, whatever cycles were under
\* way when the pause came.
PausedBooksStandStill == [][paused => UNCHANGED books]_vars

\* Every cycle ends: failed swaps, throws and other cycles never keep one going.
CyclesEnd == \A c \in Caller : cycle[c].step # "idle" ~> cycle[c].step = "idle"
=============================================================================
