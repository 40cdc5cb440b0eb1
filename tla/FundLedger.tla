----------------------------- MODULE FundLedger -----------------------------
(***************************************************************************)
(* The money of the fund: class DatabaseLedger of                          *)
(* panthers-fund/src/database/ledger.ts over the tables of schema.sql.     *)
(* Investors hold NFT accounts (table nft_accounts) whose balances add up  *)
(* to the trading pool (fund_state.total_pool_balance); a closed trade's   *)
(* profit or loss and the 2% fee of a withdrawal are spread over the       *)
(* active accounts.                                                        *)
(*                                                                         *)
(* Every operation of the class that moves money is one SQLite transaction *)
(* that ends in verifyInvariants, so one operation is one action: it       *)
(* builds the rows the transaction would leave and Transact commits them   *)
(* or rolls them back.  All amounts are integer cents.                     *)
(***************************************************************************)
EXTENDS Integers, Sequences, FiniteSets, Functions

CONSTANTS
    MaxNfts,     \* MAX_NFTS: token ids run from 1 to it
    Deposits,    \* the amounts createNFTAccount and addFundsToNFT are called with
    PnLs,        \* the profit_loss values trades close with
    MaxTrades,   \* bound: the number of rows of table trades
    MaxDeposit   \* bound: initial_deposit of one account

ASSUME MaxNftsAssumption == MaxNfts \in Nat
ASSUME AmountsAssumption == Deposits \subseteq Nat \ {0} /\ PnLs \subseteq Int
ASSUME BoundsAssumption == MaxTrades \in Nat /\ MaxDeposit \in Nat

VARIABLES
    ledger,      \* the money tables
    paused,      \* fund_state.is_paused
    result       \* how the last operation ended

vars == <<ledger, paused, result>>

-----------------------------------------------------------------------------
(* The tables *)

Token == 1 .. MaxNfts

\* A row of nft_accounts.  "absent": no row; "withdrawn": is_active = 0, which
\* only recordWithdrawal sets, and a row is never deleted.
Account == [state: {"absent", "active", "withdrawn"}, deposit: Int, balance: Int, pnl: Int]
NoAccount == [state |-> "absent", deposit |-> 0, balance |-> 0, pnl |-> 0]

\* A row of trades with its rows of trade_allocations (pnl_share by token).
Trade == [pnl: Int, share: [Token -> Int]]

\* A token's row of withdrawals; it has at most one, a withdrawn account is final.
Withdrawal == [amount: Int, fee: Int, net: Int]
NoWithdrawal == [amount |-> 0, fee |-> 0, net |-> 0]

Ledger == [account: [Token -> Account],
           pool: Int,                      \* fund_state.total_pool_balance
           nftsActive: Int,                \* fund_state.total_nfts_active
           trades: Seq(Trade),
           withdrawal: [Token -> Withdrawal],
           stranded: Int]                  \* fees no account received (no table holds them)

Results == {"none", "ok", "constraint", "violation"}

ActiveTokens(account) == {t \in Token : account[t].state = "active"}

Balances(account) == [t \in Token |-> account[t].balance]

\* SUM(current_balance) of the active rows.
SumBalances(account) == SumFunctionOnSet(Balances(account), ActiveTokens(account))

-----------------------------------------------------------------------------
(* Spreading an amount over the active accounts *)

\* Math.trunc(a / b) for b > 0.
Trunc(a, b) == IF a >= 0 THEN a \div b ELSE -((-a) \div b)

Sign(n) == IF n > 0 THEN 1 ELSE -1

\* Bugs: the remainder starts at the smallest account, or in table order.
RankSmallestFirst(account, t) ==
    LET before(u) == \/ account[u].balance < account[t].balance
                     \/ account[u].balance = account[t].balance /\ u < t
    IN  Cardinality({u \in ActiveTokens(account) : before(u)})
RankUnsorted(account, t) == Cardinality({u \in ActiveTokens(account) : u < t})

\* shares.sort(...): position (from 0) by descending balance, then by token id.
Rank(account, t) ==
    LET before(u) == \/ account[u].balance > account[t].balance
                     \/ account[u].balance = account[t].balance /\ u < t
    IN  Cardinality({u \in ActiveTokens(account) : before(u)})

\* acct.current_balance * amount / totalPool, truncated; 0 for who gets no row.
Truncated(account, pool, amount) ==
    [t \in Token |-> IF account[t].state = "active"
                     THEN Trunc(account[t].balance * amount, pool) ELSE 0]

\* What truncation left over, counted in units of the amount's sign.
Remainder(account, pool, amount) ==
    Sign(amount) * (amount - SumFunctionOnSet(Truncated(account, pool, amount), ActiveTokens(account)))

\* The share of every account: its truncated share, plus one unit of the
\* remainder for each time the round robin reaches its position.
Shares(account, pool, amount) ==
    LET n     == Cardinality(ActiveTokens(account))
        extra == [t \in Token |-> (Remainder(account, pool, amount) + n - 1 - Rank(account, t)) \div n]
    IN  [t \in Token |-> IF account[t].state = "active"
                         THEN Truncated(account, pool, amount)[t] + Sign(amount) * extra[t]
                         ELSE 0]

\* Both distributions return early when there is nobody or nothing to share with.
CanDistribute(account, pool, amount) ==
    amount # 0 /\ ActiveTokens(account) # {} /\ pool # 0

\* A row after money was put in and a share of a profit or loss was booked.
Booked(row, money, share) ==
    [state |-> row.state, deposit |-> row.deposit + money,
     balance |-> row.balance + money + share, pnl |-> row.pnl + share]

\* UPDATE nft_accounts SET current_balance += share, total_pnl += share.
Credit(account, share) == [t \in Token |-> Booked(account[t], 0, share[t])]

NoShares == [t \in Token |-> 0]

-----------------------------------------------------------------------------
(* Transactions *)

\* The CHECK constraints of schema.sql on the rows the operations write.
ChecksHold(l) ==
    /\ \A t \in Token : /\ l.account[t].balance >= 0
                        /\ l.account[t].state # "absent" => l.account[t].deposit > 0
                        /\ l.account[t].state = "withdrawn" => /\ l.withdrawal[t].amount > 0
                                                               /\ l.withdrawal[t].fee >= 0
                                                               /\ l.withdrawal[t].net >= 0
    /\ l.pool >= 0
    /\ l.nftsActive >= 0

\* Bug: trades are not compared with their allocations.
InvariantsIgnoreTrades(l) ==
    /\ SumBalances(l.account) = l.pool
    /\ \A t \in ActiveTokens(l.account) : l.account[t].balance = l.account[t].deposit + l.account[t].pnl

\* verifyInvariants: POOL_BALANCE, ACCOUNT_BALANCE and TRADE_ALLOCATION.
InvariantsHold(l) ==
    /\ SumBalances(l.account) = l.pool
    /\ \A t \in ActiveTokens(l.account) : l.account[t].balance = l.account[t].deposit + l.account[t].pnl
    /\ \A i \in DOMAIN l.trades : SumFunctionOnSet(l.trades[i].share, Token) = l.trades[i].pnl

\* Bug: verifyInvariants is not called before the commit.
OutcomeUnverified(l) == IF ChecksHold(l) THEN "ok" ELSE "constraint"

\* How a transaction that would leave tables l ends.
Outcome(l) == CASE ~ChecksHold(l)    -> "constraint"
                [] ~InvariantsHold(l) -> "violation"
                [] OTHER              -> "ok"

\* db.transaction(...): commit, or throw and roll everything back - including
\* the is_paused = 1 that a failed verifyInvariants writes before it throws.
Transact(l) ==
    /\ result' = Outcome(l)
    /\ ledger' = IF Outcome(l) = "ok" THEN l ELSE ledger
    /\ UNCHANGED paused

\* createNFTAccount
AfterCreate(t, deposit) ==
    LET row == [state |-> "active", deposit |-> deposit, balance |-> deposit, pnl |-> 0]
    IN  [account    |-> [ledger.account EXCEPT ![t] = row],
         pool       |-> ledger.pool + deposit,
         nftsActive |-> ledger.nftsActive + 1,
         trades     |-> ledger.trades,
         withdrawal |-> ledger.withdrawal,
         stranded   |-> ledger.stranded]

\* addFundsToNFT
AfterAddFunds(t, amount) ==
    [account    |-> [ledger.account EXCEPT ![t] = Booked(@, amount, 0)],
     pool       |-> ledger.pool + amount,
     nftsActive |-> ledger.nftsActive,
     trades     |-> ledger.trades,
     withdrawal |-> ledger.withdrawal,
     stranded   |-> ledger.stranded]

\* recordTrade with distributeTradePnL: the trade row is written first, so a
\* distribution that returns early leaves a trade without allocations.
AfterTrade(pnl) ==
    LET spread == CanDistribute(ledger.account, ledger.pool, pnl)
        share  == IF spread THEN Shares(ledger.account, ledger.pool, pnl) ELSE NoShares
    IN  [account    |-> Credit(ledger.account, share),
         pool       |-> IF spread THEN ledger.pool + pnl ELSE ledger.pool,
         nftsActive |-> ledger.nftsActive,
         trades     |-> Append(ledger.trades, [pnl |-> pnl, share |-> share]),
         withdrawal |-> ledger.withdrawal,
         stranded   |-> ledger.stranded]

WithdrawalFee(balance) == Trunc(balance * 2, 100)

\* Bug: closing an account also resets its profit.
ClosedForgetsPnL(row) == [state |-> "withdrawn", deposit |-> row.deposit, balance |-> 0, pnl |-> 0]

\* UPDATE nft_accounts SET current_balance = 0, is_active = 0.
Closed(row) == [state |-> "withdrawn", deposit |-> row.deposit, balance |-> 0, pnl |-> row.pnl]

\* recordWithdrawal with distributeWithdrawalFee: the account is closed and
\* leaves the pool first, then its fee returns to whoever is left.
AfterWithdrawal(t) ==
    LET balance == ledger.account[t].balance
        fee     == WithdrawalFee(balance)
        closed  == [ledger.account EXCEPT ![t] = Closed(@)]
        left    == ledger.pool - balance
        spread  == CanDistribute(closed, left, fee)
        share   == IF spread THEN Shares(closed, left, fee) ELSE NoShares
        paid    == [amount |-> balance, fee |-> fee, net |-> balance - fee]
    IN  [account    |-> Credit(closed, share),
         pool       |-> IF spread THEN left + fee ELSE left,
         nftsActive |-> ledger.nftsActive - 1,
         trades     |-> ledger.trades,
         withdrawal |-> [ledger.withdrawal EXCEPT ![t] = paid],
         stranded   |-> IF spread THEN ledger.stranded ELSE ledger.stranded + fee]

-----------------------------------------------------------------------------
(* The operations *)

\* Bug: INSERT OR REPLACE.
CreateReplacesAccount(t, deposit) ==
    /\ ~paused
    /\ deposit <= MaxDeposit
    /\ Transact(AfterCreate(t, deposit))

CreateNFTAccount(t, deposit) ==
    /\ ~paused
    /\ ledger.account[t].state = "absent"      \* PRIMARY KEY on token_id
    /\ deposit <= MaxDeposit
    /\ Transact(AfterCreate(t, deposit))

AddFundsToNFT(t, amount) ==
    /\ ~paused
    /\ ledger.account[t].state = "active"
    /\ ledger.account[t].deposit + amount <= MaxDeposit
    /\ Transact(AfterAddFunds(t, amount))

\* A trade closes a position that some account's money had opened, so it never
\* comes before the first deposit; the account may have left since.
RecordTrade(pnl) ==
    /\ ~paused
    /\ \E t \in Token : ledger.account[t].state # "absent"
    /\ Len(ledger.trades) < MaxTrades
    /\ Transact(AfterTrade(pnl))

\* Bug: guardNotPaused is missing.
WithdrawWhilePaused(t) ==
    /\ ledger.account[t].state = "active"
    /\ Transact(AfterWithdrawal(t))

RecordWithdrawal(t) ==
    /\ ~paused
    /\ ledger.account[t].state = "active"
    /\ Transact(AfterWithdrawal(t))

\* verifyInvariants outside a transaction: the health check of cron.ts, every ten minutes
\* and the verify_invariants tool.  Here the pause sticks.
VerifyInvariants ==
    /\ result' = IF InvariantsHold(ledger) THEN "ok" ELSE "violation"
    /\ paused' = (paused \/ ~InvariantsHold(ledger))
    /\ UNCHANGED ledger

\* pauseFund by an executed governance proposal; a no-op when already paused.
PauseFund ==
    /\ paused' = TRUE
    /\ UNCHANGED <<ledger, result>>

\* unpauseFund by the unpause_fund tool or a proposal: nothing is re-verified.
UnpauseFund ==
    /\ paused' = FALSE
    /\ UNCHANGED <<ledger, result>>

Init ==
    /\ ledger = [account |-> [t \in Token |-> NoAccount], pool |-> 0, nftsActive |-> 0,
                 trades |-> <<>>, withdrawal |-> [t \in Token |-> NoWithdrawal], stranded |-> 0]
    /\ paused = FALSE
    /\ result = "none"

Next ==
    \/ \E t \in Token, amount \in Deposits : CreateNFTAccount(t, amount)
    \/ \E t \in Token, amount \in Deposits : AddFundsToNFT(t, amount)
    \/ \E pnl \in PnLs : RecordTrade(pnl)
    \/ \E t \in Token : RecordWithdrawal(t)
    \/ VerifyInvariants
    \/ PauseFund
    \/ UnpauseFund

Spec == Init /\ [][Next]_vars

-----------------------------------------------------------------------------
(* Properties *)

\* The state is what the tables can hold.
TypeOK ==
    /\ ledger \in Ledger
    /\ paused \in BOOLEAN
    /\ result \in Results

\* fund_state.total_nfts_active, which every operation adjusts by one and
\* verifyInvariants never looks at, is the number of active accounts.
ActiveCountIsExact == ledger.nftsActive = Cardinality(ActiveTokens(ledger.account))

\* verifyInvariants holds of every committed state, so the health check of
\* cron.ts and the verify_invariants tool never find a violation of the code's
\* own making.
LedgerInvariants == InvariantsHold(ledger)

\* What an investor was paid out (with the fee) is what the account was worth:
\* all deposits plus all profit shares, across any trades, additions and fees.
PayoutIsWholeClaim ==
    \A t \in Token : ledger.account[t].state = "withdrawn" =>
        /\ ledger.withdrawal[t].amount = ledger.account[t].deposit + ledger.account[t].pnl
        /\ ledger.withdrawal[t].net + ledger.withdrawal[t].fee = ledger.withdrawal[t].amount

\* No cent appears or disappears: what came in and what the trades earned is in
\* the pool, was paid out, or is a fee nobody was left to receive.
BooksBalance ==
    LET deposits == [t \in Token |-> ledger.account[t].deposit]
        paid     == [t \in Token |-> ledger.withdrawal[t].net]
        earned   == [i \in DOMAIN ledger.trades |-> ledger.trades[i].pnl]
    IN  SumFunction(deposits) + SumFunction(earned)
            = ledger.pool + SumFunction(paid) + ledger.stranded

\* The transactions that should commit do: any trade whose loss the pool covers
\* (rounding a loss never takes an account below zero, and never leaves a
\* remainder), the withdrawal of any account that is worth something, and every
\* deposit.
LegitimateOperationsCommit ==
    /\ \A pnl \in PnLs : ledger.pool > 0 /\ pnl >= -ledger.pool => Outcome(AfterTrade(pnl)) = "ok"
    /\ \A t \in ActiveTokens(ledger.account) :
           /\ ledger.account[t].balance > 0 => Outcome(AfterWithdrawal(t)) = "ok"
           /\ \A amount \in Deposits : Outcome(AfterAddFunds(t, amount)) = "ok"
    /\ \A t \in Token, amount \in Deposits :
           ledger.account[t].state = "absent" => Outcome(AfterCreate(t, amount)) = "ok"

\* The distribution is fair: a larger balance never gets the smaller part of a
\* profit or loss, every part is within a cent of the exact proportion, and an
\* empty account neither gains nor pays.
SharesAreFair ==
    \A pnl \in PnLs : CanDistribute(ledger.account, ledger.pool, pnl) =>
        LET balance == Balances(ledger.account)
            share   == Shares(ledger.account, ledger.pool, pnl)
            part(t) == Sign(pnl) * share[t]
        IN  \A t, u \in ActiveTokens(ledger.account) :
                /\ balance[t] > balance[u] => part(t) >= part(u)
                /\ part(t) * ledger.pool - balance[t] * Sign(pnl) * pnl
                       \in -ledger.pool + 1 .. ledger.pool
                /\ balance[t] = 0 => part(t) = 0

\* An exit is final: nothing ever changes the account or the withdrawal of a
\* token that was withdrawn (no later fee, trade or sale of the same id).
WithdrawnIsFinal ==
    [][\A t \in Token : ledger.account[t].state = "withdrawn" =>
           /\ ledger'.account[t] = ledger.account[t]
           /\ ledger'.withdrawal[t] = ledger.withdrawal[t]]_vars

\* The ledger implements the promise of PooledFund.
Promise == INSTANCE PooledFund
    WITH Investor   <- Token,
         claim      <- Balances(ledger.account),
         membership <- [t \in Token |-> ledger.account[t].state],
         frozen     <- paused

ImplementsPooledFund == Promise!PooledSpec
=============================================================================
