-------------------------- MODULE FundLedgerProofs --------------------------
(***************************************************************************)
(* Theorems of FundLedger, for any number of accounts, any amounts and any *)
(* bounds.                                                                 *)
(***************************************************************************)
EXTENDS FundLedger, SumTheorems

\* What the tables say of tokens nobody bought or sold yet; verifyInvariants
\* looks at active accounts only, and the books need the others too.
Untouched(l) ==
    \A t \in Token : /\ l.account[t].state = "absent" => l.account[t].deposit = 0
                     /\ l.account[t].state # "withdrawn" => l.withdrawal[t].net = 0

\* PayoutIsWholeClaim and BooksBalance, of any tables.
PaidWhole(l) ==
    \A t \in Token : l.account[t].state = "withdrawn" =>
        /\ l.withdrawal[t].amount = l.account[t].deposit + l.account[t].pnl
        /\ l.withdrawal[t].net + l.withdrawal[t].fee = l.withdrawal[t].amount

DepositOf(l) == [t \in Token |-> l.account[t].deposit]
PaidTo(l)    == [t \in Token |-> l.withdrawal[t].net]
Earned(l)    == [i \in DOMAIN l.trades |-> l.trades[i].pnl]

Books(l) ==
    SumFunctionOnSet(DepositOf(l), Token) + SumFunctionOnSet(Earned(l), DOMAIN l.trades)
        = l.pool + SumFunctionOnSet(PaidTo(l), Token) + l.stranded

\* What every operation has to establish of the tables it leaves; the other
\* part is checked by the transaction itself.
Kept(l) ==
    /\ l \in Ledger
    /\ l.nftsActive = Cardinality(ActiveTokens(l.account))
    /\ PaidWhole(l)
    /\ Untouched(l)
    /\ Books(l)

Checked(l) == ChecksHold(l) /\ InvariantsHold(l)

\* The inductive invariant.
FundInv ==
    /\ paused \in BOOLEAN
    /\ result \in Results
    /\ Kept(ledger)
    /\ Checked(ledger)

-----------------------------------------------------------------------------
(* Operators *)

LEMMA TokenFinite == Token \subseteq Int /\ IsFiniteSet(Token)
<1>1. Token = 1 .. MaxNfts
  BY DEF Token
<1> QED
  BY <1>1, MaxNftsAssumption, FS_Interval

LEMMA ActiveFinite ==
    ASSUME NEW account
    PROVE  /\ ActiveTokens(account) \subseteq Token
           /\ IsFiniteSet(ActiveTokens(account))
           /\ Cardinality(ActiveTokens(account)) \in Nat
           /\ ActiveTokens(account) # {} => Cardinality(ActiveTokens(account)) > 0
<1>1. ActiveTokens(account) \subseteq Token
  BY DEF ActiveTokens
<1>2. IsFiniteSet(ActiveTokens(account))
  BY <1>1, TokenFinite, FS_Subset
<1>3. Cardinality(ActiveTokens(account)) \in Nat
  BY <1>2, FS_CardinalityType
<1>4. Cardinality(ActiveTokens(account)) = 0 <=> ActiveTokens(account) = {}
  BY <1>2, FS_EmptySet
<1> QED
  BY <1>1, <1>2, <1>3, <1>4

LEMMA TruncType ==
    ASSUME NEW a \in Int, NEW b \in Int, b > 0
    PROVE  Trunc(a, b) \in Int
BY DEF Trunc

(* A distribution gives every account an integer share, and no share to an *)
(* account that is not active.                                             *)
LEMMA SharesType ==
    ASSUME NEW account \in [Token -> Account], NEW pool \in Int, pool > 0,
           NEW amount \in Int, ActiveTokens(account) # {}
    PROVE  /\ Shares(account, pool, amount) \in [Token -> Int]
           /\ \A t \in Token : account[t].state # "active" => Shares(account, pool, amount)[t] = 0
<1> DEFINE trunc == Truncated(account, pool, amount)
           n     == Cardinality(ActiveTokens(account))
           rem   == Remainder(account, pool, amount)
<1>1. trunc \in [Token -> Int]
  <2>1. ASSUME NEW t \in Token
        PROVE  Trunc(account[t].balance * amount, pool) \in Int
    <3>1. account[t].balance \in Int
      BY DEF Account
    <3>2. account[t].balance * amount \in Int
      BY <3>1
    <3> QED
      BY <3>2, TruncType
  <2> QED
    BY <2>1 DEF Truncated
<1>2. n \in Nat /\ n > 0
  BY ActiveFinite
<1>3. rem \in Int
  <2>1. SumFunctionOnSet(trunc, ActiveTokens(account)) \in Int
    <3>1. \A t \in ActiveTokens(account) : trunc[t] \in Int
      BY <1>1, ActiveFinite
    <3> HIDE DEF trunc
    <3> QED
      BY <3>1, ActiveFinite, SumType
  <2> HIDE DEF trunc
  <2>2. Sign(amount) \in Int
    BY DEF Sign
  <2>3. rem = Sign(amount) * (amount - SumFunctionOnSet(trunc, ActiveTokens(account)))
    BY DEF Remainder, trunc
  <2> HIDE DEF rem
  <2> QED
    BY <2>1, <2>2, <2>3
<1>4. \A t \in Token : Rank(account, t) \in Nat
  <2> TAKE t \in Token
  <2> DEFINE before == {u \in ActiveTokens(account) :
                           \/ account[u].balance > account[t].balance
                           \/ account[u].balance = account[t].balance /\ u < t}
  <2>1. IsFiniteSet(before)
    BY ActiveFinite, FS_Subset
  <2>2. Cardinality(before) \in Nat
    <3> HIDE DEF before
    <3> QED BY <2>1, FS_CardinalityType
  <2> QED
    BY <2>2 DEF Rank
<1> DEFINE extra == [t \in Token |-> (rem + n - 1 - Rank(account, t)) \div n]
<1>5. extra \in [Token -> Int]
  <2> HIDE DEF rem, n
  <2> QED BY <1>2, <1>3, <1>4
<1>6. Shares(account, pool, amount) =
         [t \in Token |-> IF account[t].state = "active" THEN trunc[t] + Sign(amount) * extra[t] ELSE 0]
  BY DEF Shares
<1>7. Sign(amount) \in {1, -1}
  BY DEF Sign
<1> HIDE DEF trunc, extra
<1> QED
  BY <1>1, <1>5, <1>6, <1>7

(* The tables are typed field by field. *)
LEMMA LedgerFields ==
    ASSUME NEW l \in Ledger
    PROVE  /\ l = [account |-> l.account, pool |-> l.pool, nftsActive |-> l.nftsActive,
                   trades |-> l.trades, withdrawal |-> l.withdrawal, stranded |-> l.stranded]
           /\ l.account \in [Token -> Account]
           /\ l.pool \in Int /\ l.nftsActive \in Int /\ l.stranded \in Int
           /\ l.trades \in Seq(Trade)
           /\ l.withdrawal \in [Token -> Withdrawal]
BY DEF Ledger

(* Booking an amount keeps a row a row; booking nothing changes nothing. *)
LEMMA BookedRow ==
    ASSUME NEW row \in Account, NEW money \in Int, NEW share \in Int
    PROVE  /\ Booked(row, money, share) \in Account
           /\ Booked(row, money, share).state = row.state
           /\ Booked(row, money, share).deposit = row.deposit + money
           /\ Booked(row, money, share).pnl = row.pnl + share
           /\ Booked(row, 0, 0) = row
<1>1. /\ row = [state |-> row.state, deposit |-> row.deposit, balance |-> row.balance, pnl |-> row.pnl]
      /\ row.state \in {"absent", "active", "withdrawn"}
      /\ row.deposit \in Int /\ row.balance \in Int /\ row.pnl \in Int
  BY DEF Account
<1>2. Booked(row, 0, 0) = row
  <2>1. row.deposit + 0 = row.deposit /\ row.balance + 0 + 0 = row.balance /\ row.pnl + 0 = row.pnl
    BY <1>1
  <2> QED
    BY <1>1, <2>1 DEF Booked
<1> QED
  BY <1>1, <1>2 DEF Booked, Account

-----------------------------------------------------------------------------
(* The invariant implies the properties *)

LEMMA InvImplies ==
    FundInv => /\ TypeOK
               /\ ActiveCountIsExact
               /\ LedgerInvariants
               /\ PayoutIsWholeClaim
               /\ BooksBalance
<1> SUFFICES ASSUME FundInv PROVE TypeOK /\ ActiveCountIsExact /\ LedgerInvariants /\ PayoutIsWholeClaim /\ BooksBalance
  OBVIOUS
<1>1. TypeOK /\ ActiveCountIsExact
  BY DEF FundInv, Kept, TypeOK, ActiveCountIsExact
<1>2. LedgerInvariants
  BY DEF FundInv, Checked, LedgerInvariants
<1>3. PayoutIsWholeClaim
  BY DEF FundInv, Kept, PaidWhole, PayoutIsWholeClaim
<1>4. BooksBalance
  <2>1. Books(ledger)
    BY DEF FundInv, Kept
  <2>2. DOMAIN DepositOf(ledger) = Token /\ DOMAIN PaidTo(ledger) = Token /\ DOMAIN Earned(ledger) = DOMAIN ledger.trades
    BY DEF DepositOf, PaidTo, Earned
  <2> QED
    BY <2>1, <2>2 DEF BooksBalance, Books, SumFunction, DepositOf, PaidTo, Earned
<1> QED
  BY <1>1, <1>2, <1>3, <1>4

-----------------------------------------------------------------------------
(* Sums over the tables *)

LEMMA SumsType ==
    ASSUME NEW l \in Ledger
    PROVE  /\ SumFunctionOnSet(DepositOf(l), Token) \in Int
           /\ SumFunctionOnSet(PaidTo(l), Token) \in Int
           /\ SumFunctionOnSet(Earned(l), DOMAIN l.trades) \in Int
<1>1. DepositOf(l) \in [Token -> Int] /\ PaidTo(l) \in [Token -> Int]
  BY DEF DepositOf, PaidTo, Ledger, Account, Withdrawal
<1>2. Earned(l) \in [DOMAIN l.trades -> Int]
  <2>1. l.trades \in Seq(Trade)
    BY DEF Ledger
  <2>2. \A i \in DOMAIN l.trades : l.trades[i] \in Trade
    BY <2>1
  <2>3. \A i \in DOMAIN l.trades : l.trades[i].pnl \in Int
    BY <2>2 DEF Trade
  <2> QED
    BY <2>3 DEF Earned
<1>3. IsFiniteSet(DOMAIN l.trades)
  <2>1. l.trades \in Seq(Trade)
    BY DEF Ledger
  <2>2. DOMAIN l.trades = 1 .. Len(l.trades) /\ Len(l.trades) \in Nat
    BY <2>1
  <2> QED
    BY <2>2, FS_Interval
<1> QED
  BY <1>1, <1>2, <1>3, TokenFinite, SumType

(* Changing the deposit of one account. *)
LEMMA DepositChanges ==
    ASSUME NEW l \in Ledger, NEW k \in Ledger, NEW t \in Token,
           \A u \in Token \ {t} : k.account[u].deposit = l.account[u].deposit
    PROVE  SumFunctionOnSet(DepositOf(k), Token)
               = SumFunctionOnSet(DepositOf(l), Token) + k.account[t].deposit - l.account[t].deposit
<1> DEFINE f == DepositOf(l)
           g == DepositOf(k)
<1>1. \A u \in Token : f[u] = l.account[u].deposit /\ g[u] = k.account[u].deposit /\ f[u] \in Int /\ g[u] \in Int
  BY DEF DepositOf, Ledger, Account
<1>2. \A u \in Token \ {t} : g[u] = f[u]
  BY <1>1
<1>3. IsFiniteSet(Token) /\ \A u \in Token : f[u] \in Int /\ g[u] \in Int
  BY <1>1, TokenFinite
<1> HIDE DEF f, g
<1>4. SumFunctionOnSet(g, Token) = SumFunctionOnSet(f, Token) + g[t] - f[t]
  BY <1>2, <1>3, SumChangeOne
<1> QED
  BY <1>1, <1>4 DEF f, g

(* Paying out one account. *)
LEMMA PaidChanges ==
    ASSUME NEW l \in Ledger, NEW k \in Ledger, NEW t \in Token,
           \A u \in Token \ {t} : k.withdrawal[u].net = l.withdrawal[u].net
    PROVE  SumFunctionOnSet(PaidTo(k), Token)
               = SumFunctionOnSet(PaidTo(l), Token) + k.withdrawal[t].net - l.withdrawal[t].net
<1> DEFINE f == PaidTo(l)
           g == PaidTo(k)
<1>1. \A u \in Token : f[u] = l.withdrawal[u].net /\ g[u] = k.withdrawal[u].net /\ f[u] \in Int /\ g[u] \in Int
  BY DEF PaidTo, Ledger, Withdrawal
<1>2. \A u \in Token \ {t} : g[u] = f[u]
  BY <1>1
<1>3. IsFiniteSet(Token) /\ \A u \in Token : f[u] \in Int /\ g[u] \in Int
  BY <1>1, TokenFinite
<1> HIDE DEF f, g
<1>4. SumFunctionOnSet(g, Token) = SumFunctionOnSet(f, Token) + g[t] - f[t]
  BY <1>2, <1>3, SumChangeOne
<1> QED
  BY <1>1, <1>4 DEF f, g

(* Nothing changes a sum whose values stay. *)
LEMMA SameDeposits ==
    ASSUME NEW l \in Ledger, NEW k \in Ledger,
           \A u \in Token : k.account[u].deposit = l.account[u].deposit
    PROVE  DepositOf(k) = DepositOf(l)
BY DEF DepositOf

LEMMA SamePaid ==
    ASSUME NEW l \in Ledger, NEW k \in Ledger, k.withdrawal = l.withdrawal
    PROVE  PaidTo(k) = PaidTo(l)
BY DEF PaidTo

LEMMA SameEarned ==
    ASSUME NEW l, NEW k, k.trades = l.trades
    PROVE  /\ Earned(k) = Earned(l)
           /\ DOMAIN k.trades = DOMAIN l.trades
BY DEF Earned

(* One more trade adds its profit or loss. *)
LEMMA EarnedGrows ==
    ASSUME NEW l \in Ledger, NEW k \in Ledger, NEW trade \in Trade,
           k.trades = Append(l.trades, trade)
    PROVE  SumFunctionOnSet(Earned(k), DOMAIN k.trades)
               = SumFunctionOnSet(Earned(l), DOMAIN l.trades) + trade.pnl
<1> DEFINE n == Len(l.trades)
           f == Earned(l)
           g == Earned(k)
<1>1. l.trades \in Seq(Trade)
  BY DEF Ledger
<1>2. n \in Nat /\ DOMAIN l.trades = 1 .. n /\ DOMAIN k.trades = 1 .. n + 1
  BY <1>1
<1>3. \A i \in 1 .. n : k.trades[i] = l.trades[i] /\ l.trades[i] \in Trade
  BY <1>1
<1>4. k.trades[n + 1] = trade
  BY <1>1
<1>5. \A i \in 1 .. n : f[i] \in Int /\ g[i] = f[i]
  BY <1>2, <1>3 DEF Earned, Trade
<1>6. g[n + 1] = trade.pnl /\ trade.pnl \in Int
  BY <1>2, <1>4 DEF Earned, Trade
<1>7. IsFiniteSet(1 .. n)
  BY <1>2, FS_Interval
<1>8. 1 .. n + 1 = (1 .. n) \cup {n + 1} /\ n + 1 \notin 1 .. n
  BY <1>2
<1> HIDE DEF n, f, g
<1>9. SumFunctionOnSet(g, 1 .. n) = SumFunctionOnSet(f, 1 .. n)
  BY <1>5, <1>7, SumExt
<1>10. SumFunctionOnSet(g, (1 .. n) \cup {n + 1}) = g[n + 1] + SumFunctionOnSet(g, 1 .. n)
  <2>1. \A i \in (1 .. n) \cup {n + 1} : g[i] \in Int
    BY <1>5, <1>6
  <2> QED
    BY <2>1, <1>7, <1>8, SumAdd
<1>11. SumFunctionOnSet(f, 1 .. n) \in Int
  BY <1>5, <1>7, SumType
<1>12. SumFunctionOnSet(g, DOMAIN k.trades) = SumFunctionOnSet(g, (1 .. n) \cup {n + 1})
  BY <1>2, <1>8
<1>13. SumFunctionOnSet(f, DOMAIN l.trades) = SumFunctionOnSet(f, 1 .. n)
  BY <1>2
<1>14. SumFunctionOnSet(g, DOMAIN k.trades) = SumFunctionOnSet(f, DOMAIN l.trades) + trade.pnl
  BY <1>6, <1>9, <1>10, <1>11, <1>12, <1>13
<1> QED
  BY <1>14 DEF f, g

-----------------------------------------------------------------------------
(* Every operation keeps the invariant *)

(* A new account; the number of active accounts grows by one. *)
LEMMA CreateKeeps ==
    ASSUME FundInv, NEW t \in Token, NEW deposit \in Int,
           ledger.account[t].state = "absent"
    PROVE  Kept(AfterCreate(t, deposit))
<1> DEFINE k == AfterCreate(t, deposit)
<1>1. ledger \in Ledger /\ Untouched(ledger) /\ PaidWhole(ledger) /\ Books(ledger)
      /\ ledger.nftsActive = Cardinality(ActiveTokens(ledger.account))
  BY DEF FundInv, Kept
<1>2. k \in Ledger
  <2> DEFINE row     == [state |-> "active", deposit |-> deposit, balance |-> deposit, pnl |-> 0]
             account == [ledger.account EXCEPT ![t] = row]
  <2>1. k = [account |-> account, pool |-> ledger.pool + deposit, nftsActive |-> ledger.nftsActive + 1,
             trades |-> ledger.trades, withdrawal |-> ledger.withdrawal, stranded |-> ledger.stranded]
    BY DEF AfterCreate
  <2>2. account \in [Token -> Account]
    <3>1. row \in Account
      BY DEF Account
    <3> QED
      BY <1>1, <3>1, LedgerFields
  <2>3. ledger.pool + deposit \in Int /\ ledger.nftsActive + 1 \in Int
    BY <1>1, LedgerFields
  <2> HIDE DEF k, account
  <2> QED
    BY <1>1, <2>1, <2>2, <2>3, LedgerFields DEF Ledger
<1>3. /\ k.account[t] = [state |-> "active", deposit |-> deposit, balance |-> deposit, pnl |-> 0]
      /\ \A u \in Token \ {t} : k.account[u] = ledger.account[u]
      /\ k.pool = ledger.pool + deposit
      /\ k.nftsActive = ledger.nftsActive + 1
      /\ k.trades = ledger.trades
      /\ k.withdrawal = ledger.withdrawal
      /\ k.stranded = ledger.stranded
  BY <1>1 DEF AfterCreate, Ledger
<1>4. ActiveTokens(k.account) = ActiveTokens(ledger.account) \cup {t} /\ t \notin ActiveTokens(ledger.account)
  <2> HIDE DEF k
  <2> QED BY <1>3 DEF ActiveTokens
<1> HIDE DEF k
<1>5. k.nftsActive = Cardinality(ActiveTokens(k.account))
  <2>1. Cardinality(ActiveTokens(ledger.account) \cup {t}) = Cardinality(ActiveTokens(ledger.account)) + 1
    BY <1>4, ActiveFinite, FS_AddElement
  <2> QED
    BY <1>1, <1>3, <1>4, <2>1
<1>6. PaidWhole(k) /\ Untouched(k)
  BY <1>1, <1>3 DEF PaidWhole, Untouched
<1>7. Books(k)
  <2>1. SumFunctionOnSet(DepositOf(k), Token) = SumFunctionOnSet(DepositOf(ledger), Token) + deposit - 0
    <3>1. \A u \in Token \ {t} : k.account[u].deposit = ledger.account[u].deposit
      BY <1>3
    <3>2. k.account[t].deposit = deposit /\ ledger.account[t].deposit = 0
      BY <1>1, <1>3 DEF Untouched
    <3> QED
      BY <1>1, <1>2, <3>1, <3>2, DepositChanges
  <2>2. PaidTo(k) = PaidTo(ledger) /\ Earned(k) = Earned(ledger) /\ DOMAIN k.trades = DOMAIN ledger.trades
    BY <1>1, <1>2, <1>3, SamePaid, SameEarned
  <2>3. ledger.pool \in Int /\ ledger.stranded \in Int
    BY <1>1 DEF Ledger
  <2> DEFINE D == SumFunctionOnSet(DepositOf(ledger), Token)
             E == SumFunctionOnSet(Earned(ledger), DOMAIN ledger.trades)
             P == SumFunctionOnSet(PaidTo(ledger), Token)
  <2>4. D \in Int /\ E \in Int /\ P \in Int
    BY <1>1, SumsType
  <2>5. D + E = ledger.pool + P + ledger.stranded
    BY <1>1 DEF Books
  <2>6. (D + deposit) + E = k.pool + P + k.stranded
    <3> HIDE DEF D, E, P
    <3> QED BY <1>3, <2>3, <2>4, <2>5
  <2>7. SumFunctionOnSet(DepositOf(k), Token) = D + deposit
    <3> HIDE DEF E, P
    <3>1. SumFunctionOnSet(DepositOf(k), Token) \in Int
      BY <1>2, SumsType
    <3>2. D \in Int
      BY <2>4
    <3> HIDE DEF D
    <3> QED BY <2>1, <2>3, <3>2 DEF D
  <2> QED
    BY <2>2, <2>6, <2>7 DEF Books
<1> QED
  BY <1>2, <1>5, <1>6, <1>7 DEF Kept, k

(* More money on an account. *)
LEMMA AddFundsKeeps ==
    ASSUME FundInv, NEW t \in Token, NEW amount \in Int,
           ledger.account[t].state = "active"
    PROVE  Kept(AfterAddFunds(t, amount))
<1> DEFINE k == AfterAddFunds(t, amount)
<1>1. ledger \in Ledger /\ Untouched(ledger) /\ PaidWhole(ledger) /\ Books(ledger)
      /\ ledger.nftsActive = Cardinality(ActiveTokens(ledger.account))
  BY DEF FundInv, Kept
<1>2. k \in Ledger
  <2> DEFINE account == [ledger.account EXCEPT ![t] = Booked(ledger.account[t], amount, 0)]
  <2>1. k = [account |-> account, pool |-> ledger.pool + amount, nftsActive |-> ledger.nftsActive,
             trades |-> ledger.trades, withdrawal |-> ledger.withdrawal, stranded |-> ledger.stranded]
    BY DEF AfterAddFunds
  <2>2. account \in [Token -> Account]
    BY <1>1, LedgerFields, BookedRow
  <2>3. ledger.pool + amount \in Int
    BY <1>1, LedgerFields
  <2> HIDE DEF k, account
  <2> QED
    BY <1>1, <2>1, <2>2, <2>3, LedgerFields DEF Ledger
<1>3. /\ k.account[t].state = "active"
      /\ k.account[t].deposit = ledger.account[t].deposit + amount
      /\ \A u \in Token \ {t} : k.account[u] = ledger.account[u]
      /\ k.pool = ledger.pool + amount
      /\ k.nftsActive = ledger.nftsActive
      /\ k.trades = ledger.trades
      /\ k.withdrawal = ledger.withdrawal
      /\ k.stranded = ledger.stranded
  BY <1>1 DEF AfterAddFunds, Booked, Ledger, Account
<1> HIDE DEF k
<1>4. ActiveTokens(k.account) = ActiveTokens(ledger.account)
  BY <1>3 DEF ActiveTokens
<1>6. PaidWhole(k) /\ Untouched(k)
  BY <1>1, <1>3 DEF PaidWhole, Untouched
<1>7. Books(k)
  <2>1. SumFunctionOnSet(DepositOf(k), Token) = SumFunctionOnSet(DepositOf(ledger), Token) + (ledger.account[t].deposit + amount) - ledger.account[t].deposit
    <3>1. \A u \in Token \ {t} : k.account[u].deposit = ledger.account[u].deposit
      BY <1>3
    <3> QED
      BY <1>1, <1>2, <1>3, <3>1, DepositChanges
  <2>2. PaidTo(k) = PaidTo(ledger) /\ Earned(k) = Earned(ledger) /\ DOMAIN k.trades = DOMAIN ledger.trades
    BY <1>1, <1>2, <1>3, SamePaid, SameEarned
  <2>3. ledger.pool \in Int /\ ledger.stranded \in Int /\ ledger.account[t].deposit \in Int
    BY <1>1 DEF Ledger, Account
  <2> DEFINE D == SumFunctionOnSet(DepositOf(ledger), Token)
             E == SumFunctionOnSet(Earned(ledger), DOMAIN ledger.trades)
             P == SumFunctionOnSet(PaidTo(ledger), Token)
  <2>4. D \in Int /\ E \in Int /\ P \in Int
    BY <1>1, SumsType
  <2>5. D + E = ledger.pool + P + ledger.stranded
    BY <1>1 DEF Books
  <2>6. (D + amount) + E = k.pool + P + k.stranded
    <3> HIDE DEF D, E, P
    <3> QED BY <1>3, <2>3, <2>4, <2>5
  <2>7. SumFunctionOnSet(DepositOf(k), Token) = D + amount
    <3> HIDE DEF E, P
    <3>1. SumFunctionOnSet(DepositOf(k), Token) \in Int
      BY <1>2, SumsType
    <3>2. D \in Int
      BY <2>4
    <3> HIDE DEF D
    <3> QED BY <2>1, <2>3, <3>2 DEF D
  <2> QED
    BY <2>2, <2>6, <2>7 DEF Books
<1> QED
  BY <1>1, <1>2, <1>3, <1>4, <1>6, <1>7 DEF Kept, k

(* What crediting a share to every account leaves alone. *)
LEMMA CreditKeeps ==
    ASSUME NEW account \in [Token -> Account], NEW share \in [Token -> Int]
    PROVE  /\ Credit(account, share) \in [Token -> Account]
           /\ ActiveTokens(Credit(account, share)) = ActiveTokens(account)
           /\ \A t \in Token :
                 /\ Credit(account, share)[t].state = account[t].state
                 /\ Credit(account, share)[t].deposit = account[t].deposit
                 /\ Credit(account, share)[t].pnl = account[t].pnl + share[t]
                 /\ share[t] = 0 => Credit(account, share)[t] = account[t]
<1>1. ASSUME NEW t \in Token
      PROVE  /\ Credit(account, share)[t] \in Account
             /\ Credit(account, share)[t].state = account[t].state
             /\ Credit(account, share)[t].deposit = account[t].deposit
             /\ Credit(account, share)[t].pnl = account[t].pnl + share[t]
             /\ share[t] = 0 => Credit(account, share)[t] = account[t]
  <2>1. Credit(account, share)[t] = Booked(account[t], 0, share[t])
    BY DEF Credit
  <2>2. account[t] \in Account /\ share[t] \in Int /\ account[t].deposit \in Int
    BY DEF Account
  <2>3. account[t].deposit + 0 = account[t].deposit
    BY <2>2
  <2> QED
    BY <2>1, <2>2, <2>3, BookedRow
<1>4. Credit(account, share) \in [Token -> Account]
  BY <1>1 DEF Credit
<1>5. ActiveTokens(Credit(account, share)) = ActiveTokens(account)
  BY <1>1 DEF ActiveTokens
<1> QED
  BY <1>1, <1>4, <1>5

(* What recordTrade and recordWithdrawal distribute, when they do. *)
LEMMA SpreadType ==
    ASSUME NEW account \in [Token -> Account], NEW pool \in Int, pool >= 0, NEW amount \in Int,
           NEW share,
           share = IF CanDistribute(account, pool, amount) THEN Shares(account, pool, amount) ELSE NoShares
    PROVE  /\ share \in [Token -> Int]
           /\ \A t \in Token : account[t].state # "active" => share[t] = 0
<1>1. CASE CanDistribute(account, pool, amount)
  <2>1. pool > 0 /\ ActiveTokens(account) # {}
    BY <1>1 DEF CanDistribute
  <2> QED
    BY <1>1, <2>1, SharesType
<1>2. CASE ~ CanDistribute(account, pool, amount)
  BY <1>2 DEF NoShares
<1> QED
  BY <1>1, <1>2

(* A closed trade; the books take its profit or loss. *)
LEMMA TradeKeeps ==
    ASSUME FundInv, NEW pnl \in Int, Checked(AfterTrade(pnl))
    PROVE  /\ Kept(AfterTrade(pnl))
           /\ \A t \in Token : ledger.account[t].state = "withdrawn" =>
                 /\ AfterTrade(pnl).account[t] = ledger.account[t]
                 /\ AfterTrade(pnl).withdrawal[t] = ledger.withdrawal[t]
<1> DEFINE spread == CanDistribute(ledger.account, ledger.pool, pnl)
           share  == IF spread THEN Shares(ledger.account, ledger.pool, pnl) ELSE NoShares
           trade  == [pnl |-> pnl, share |-> share]
           k      == AfterTrade(pnl)
<1>1. ledger \in Ledger /\ Untouched(ledger) /\ PaidWhole(ledger) /\ Books(ledger)
      /\ ledger.nftsActive = Cardinality(ActiveTokens(ledger.account))
  BY DEF FundInv, Kept
<1>2. k = [account |-> Credit(ledger.account, share),
           pool |-> IF spread THEN ledger.pool + pnl ELSE ledger.pool,
           nftsActive |-> ledger.nftsActive,
           trades |-> Append(ledger.trades, trade),
           withdrawal |-> ledger.withdrawal, stranded |-> ledger.stranded]
  BY DEF AfterTrade
<1>3. ledger.pool \in Int /\ ledger.pool >= 0 /\ ledger.account \in [Token -> Account]
  BY <1>1, LedgerFields DEF FundInv, Checked, ChecksHold
<1>4. /\ share \in [Token -> Int]
      /\ \A t \in Token : ledger.account[t].state # "active" => share[t] = 0
  <2> HIDE DEF spread
  <2>1. share = IF CanDistribute(ledger.account, ledger.pool, pnl) THEN Shares(ledger.account, ledger.pool, pnl) ELSE NoShares
    BY DEF spread
  <2> HIDE DEF share
  <2> QED BY <1>3, <2>1, SpreadType
<1>5. trade \in Trade
  <2> HIDE DEF share
  <2> QED BY <1>4 DEF Trade
<1>6. ~ spread => pnl = 0
  <2>1. SUFFICES ASSUME ~ spread PROVE pnl = 0
    OBVIOUS
  <2> DEFINE n == Len(ledger.trades)
  <2>2. trade = [pnl |-> pnl, share |-> NoShares]
    BY <2>1
  <2>3. ledger.trades \in Seq(Trade)
    BY <1>1, LedgerFields
  <2>4. n + 1 \in DOMAIN k.trades /\ k.trades[n + 1] = trade
    <3> HIDE DEF trade, share, spread, k
    <3> QED BY <1>2, <1>5, <2>3
  <2>5. SumFunctionOnSet(NoShares, Token) = pnl
    <3>1. SumFunctionOnSet(k.trades[n + 1].share, Token) = k.trades[n + 1].pnl
      <4> HIDE DEF k, n
      <4> QED BY <2>4 DEF Checked, InvariantsHold, k
    <3>2. k.trades[n + 1].share = NoShares /\ k.trades[n + 1].pnl = pnl
      BY <2>2, <2>4
    <3> QED
      BY <3>1, <3>2
  <2>6. SumFunctionOnSet(NoShares, Token) = 0
    <3>1. \A t \in Token : NoShares[t] = 0
      BY DEF NoShares
    <3> QED
      BY <3>1, TokenFinite, SumZero
  <2> QED
    BY <2>5, <2>6
<1>7. /\ Credit(ledger.account, share) \in [Token -> Account]
      /\ ActiveTokens(Credit(ledger.account, share)) = ActiveTokens(ledger.account)
      /\ \A t \in Token :
           /\ Credit(ledger.account, share)[t].state = ledger.account[t].state
           /\ Credit(ledger.account, share)[t].deposit = ledger.account[t].deposit
           /\ Credit(ledger.account, share)[t].pnl = ledger.account[t].pnl + share[t]
           /\ share[t] = 0 => Credit(ledger.account, share)[t] = ledger.account[t]
  <2> HIDE DEF share
  <2> QED BY <1>3, <1>4, CreditKeeps
<1> HIDE DEF share, trade, k
<1>8. /\ k.account = Credit(ledger.account, share)
      /\ k.pool = IF spread THEN ledger.pool + pnl ELSE ledger.pool
      /\ k.nftsActive = ledger.nftsActive
      /\ k.trades = Append(ledger.trades, trade)
      /\ k.withdrawal = ledger.withdrawal
      /\ k.stranded = ledger.stranded
  BY <1>2
<1> HIDE DEF spread
<1>9. k.pool = ledger.pool + pnl
  BY <1>3, <1>6, <1>8
<1>10. k \in Ledger
  <2>1. Append(ledger.trades, trade) \in Seq(Trade)
    BY <1>1, <1>5, LedgerFields
  <2>2. (IF spread THEN ledger.pool + pnl ELSE ledger.pool) \in Int
    BY <1>3
  <2> QED
    BY <1>1, <1>2, <1>7, <2>1, <2>2, LedgerFields DEF Ledger
<1>11. \A t \in Token : ledger.account[t].state = "withdrawn" =>
          k.account[t] = ledger.account[t] /\ k.withdrawal[t] = ledger.withdrawal[t]
  BY <1>4, <1>7, <1>8
<1>12. \A t \in Token : k.account[t].state = ledger.account[t].state /\ k.account[t].deposit = ledger.account[t].deposit
  BY <1>7, <1>8
<1>13. PaidWhole(k) /\ Untouched(k)
  BY <1>1, <1>8, <1>11, <1>12 DEF PaidWhole, Untouched
<1>14. k.nftsActive = Cardinality(ActiveTokens(k.account))
  BY <1>1, <1>7, <1>8
<1>15. Books(k)
  <2>1. DepositOf(k) = DepositOf(ledger) /\ PaidTo(k) = PaidTo(ledger)
    BY <1>1, <1>8, <1>10, <1>12, SameDeposits, SamePaid
  <2>2. SumFunctionOnSet(Earned(k), DOMAIN k.trades) = SumFunctionOnSet(Earned(ledger), DOMAIN ledger.trades) + pnl
    <3>1. SumFunctionOnSet(Earned(k), DOMAIN k.trades) = SumFunctionOnSet(Earned(ledger), DOMAIN ledger.trades) + trade.pnl
      BY <1>1, <1>5, <1>8, <1>10, EarnedGrows
    <3> QED
      BY <3>1 DEF trade
  <2> DEFINE D == SumFunctionOnSet(DepositOf(ledger), Token)
             E == SumFunctionOnSet(Earned(ledger), DOMAIN ledger.trades)
             P == SumFunctionOnSet(PaidTo(ledger), Token)
  <2>3. D \in Int /\ E \in Int /\ P \in Int /\ ledger.stranded \in Int
    BY <1>1, SumsType, LedgerFields
  <2>4. D + E = ledger.pool + P + ledger.stranded
    BY <1>1 DEF Books
  <2>5. D + (E + pnl) = k.pool + P + k.stranded
    <3>1. k.stranded = ledger.stranded
      BY <1>8
    <3> HIDE DEF D, E, P
    <3> QED BY <1>3, <1>9, <2>3, <2>4, <3>1
  <2> QED
    BY <2>1, <2>2, <2>5 DEF Books
<1> QED
  BY <1>10, <1>11, <1>13, <1>14, <1>15 DEF Kept, k

(* Emptying a row. *)
LEMMA ClosedRow ==
    ASSUME NEW row \in Account
    PROVE  /\ Closed(row) \in Account
           /\ Closed(row).state = "withdrawn"
           /\ Closed(row).deposit = row.deposit
           /\ Closed(row).pnl = row.pnl
BY DEF Closed, Account

(* No account is worth more than the pool. *)
LEMMA BalanceInPool ==
    ASSUME FundInv, NEW t \in ActiveTokens(ledger.account)
    PROVE  /\ ledger.account[t].balance \in Int
           /\ ledger.pool - ledger.account[t].balance >= 0
<1> DEFINE A == ActiveTokens(ledger.account)
           f == Balances(ledger.account)
<1>1. ledger \in Ledger /\ ledger.account \in [Token -> Account] /\ ledger.pool \in Int
  BY LedgerFields DEF FundInv, Kept
<1>2. \A u \in Token : f[u] = ledger.account[u].balance /\ f[u] \in Int /\ f[u] >= 0
  <2>1. \A u \in Token : ledger.account[u].balance \in Int
    BY <1>1 DEF Account
  <2>2. \A u \in Token : ledger.account[u].balance >= 0
    BY DEF FundInv, Checked, ChecksHold
  <2> QED
    BY <2>1, <2>2 DEF Balances
<1>3. SumFunctionOnSet(f, A) = ledger.pool
  BY DEF FundInv, Checked, InvariantsHold, SumBalances
<1>4. A \subseteq Token /\ IsFiniteSet(A) /\ t \in A
  BY ActiveFinite
<1> HIDE DEF A, f
<1>5. IsFiniteSet(A \ {t}) /\ (\A u \in A \ {t} : f[u] \in Int /\ f[u] >= 0) /\ (\A u \in A \ {t} : f[u] \in Int) /\ (\A u \in A : f[u] \in Int)
  BY <1>2, <1>4, FS_Subset
<1>6. SumFunctionOnSet(f, A) = f[t] + SumFunctionOnSet(f, A \ {t})
  BY <1>4, <1>5, SumRemove
<1>7. SumFunctionOnSet(f, A \ {t}) >= 0 /\ SumFunctionOnSet(f, A \ {t}) \in Int
  BY <1>5, SumNonNegative, SumType
<1> QED
  BY <1>1, <1>2, <1>3, <1>4, <1>6, <1>7

(* An exit; what was paid leaves the books. *)
LEMMA WithdrawalKeeps ==
    ASSUME FundInv, NEW t \in Token, ledger.account[t].state = "active"
    PROVE  /\ Kept(AfterWithdrawal(t))
           /\ \A u \in Token : ledger.account[u].state = "withdrawn" =>
                 /\ AfterWithdrawal(t).account[u] = ledger.account[u]
                 /\ AfterWithdrawal(t).withdrawal[u] = ledger.withdrawal[u]
<1> DEFINE balance == ledger.account[t].balance
           fee     == WithdrawalFee(balance)
           closed  == [ledger.account EXCEPT ![t] = Closed(ledger.account[t])]
           left    == ledger.pool - balance
           spread  == CanDistribute(closed, left, fee)
           share   == IF spread THEN Shares(closed, left, fee) ELSE NoShares
           paid    == [amount |-> balance, fee |-> fee, net |-> balance - fee]
           k       == AfterWithdrawal(t)
<1>1. ledger \in Ledger /\ Untouched(ledger) /\ PaidWhole(ledger) /\ Books(ledger)
      /\ ledger.nftsActive = Cardinality(ActiveTokens(ledger.account))
  BY DEF FundInv, Kept
<1>2. k = [account |-> Credit(closed, share),
           pool |-> IF spread THEN left + fee ELSE left,
           nftsActive |-> ledger.nftsActive - 1,
           trades |-> ledger.trades,
           withdrawal |-> [ledger.withdrawal EXCEPT ![t] = paid],
           stranded |-> IF spread THEN ledger.stranded ELSE ledger.stranded + fee]
  BY DEF AfterWithdrawal
<1>3. t \in ActiveTokens(ledger.account)
  BY DEF ActiveTokens
<1>4. balance \in Int /\ left \in Int /\ left >= 0 /\ ledger.pool \in Int
      /\ ledger.account \in [Token -> Account] /\ ledger.account[t] \in Account
  BY <1>1, <1>3, BalanceInPool, LedgerFields
<1>5. fee \in Int
  <2>1. balance * 2 \in Int
    BY <1>4
  <2> QED
    BY <2>1, TruncType DEF WithdrawalFee
<1> HIDE DEF balance, fee
<1>6. /\ closed \in [Token -> Account]
      /\ closed[t] = Closed(ledger.account[t])
      /\ \A u \in Token \ {t} : closed[u] = ledger.account[u]
  BY <1>4, ClosedRow
<1>7. ActiveTokens(closed) = ActiveTokens(ledger.account) \ {t}
  <2> HIDE DEF closed
  <2> QED BY <1>4, <1>6, ClosedRow DEF ActiveTokens
<1> HIDE DEF closed, left
<1>8. /\ share \in [Token -> Int]
      /\ \A u \in Token : closed[u].state # "active" => share[u] = 0
  <2>1. share = IF CanDistribute(closed, left, fee) THEN Shares(closed, left, fee) ELSE NoShares
    OBVIOUS
  <2> HIDE DEF share
  <2> QED BY <1>4, <1>5, <1>6, <2>1, SpreadType
<1> HIDE DEF spread, share
<1>9. /\ Credit(closed, share) \in [Token -> Account]
      /\ ActiveTokens(Credit(closed, share)) = ActiveTokens(closed)
      /\ \A u \in Token :
           /\ Credit(closed, share)[u].state = closed[u].state
           /\ Credit(closed, share)[u].deposit = closed[u].deposit
           /\ Credit(closed, share)[u].pnl = closed[u].pnl + share[u]
           /\ share[u] = 0 => Credit(closed, share)[u] = closed[u]
  BY <1>6, <1>8, CreditKeeps
<1>10. paid \in Withdrawal /\ paid.net = balance - fee /\ paid.amount = balance /\ paid.net + paid.fee = paid.amount
  BY <1>4, <1>5 DEF Withdrawal
<1> HIDE DEF paid, k
<1>11. /\ k.account = Credit(closed, share)
       /\ k.nftsActive = ledger.nftsActive - 1
       /\ k.trades = ledger.trades
       /\ k.withdrawal = [ledger.withdrawal EXCEPT ![t] = paid]
  BY <1>2
<1>12. k.pool = (IF spread THEN left + fee ELSE left) /\ k.stranded = (IF spread THEN ledger.stranded ELSE ledger.stranded + fee)
  BY <1>2
<1>13. ledger.stranded \in Int /\ ledger.nftsActive \in Int /\ ledger.trades \in Seq(Trade) /\ ledger.withdrawal \in [Token -> Withdrawal]
  BY <1>1, LedgerFields
<1>14. /\ k.withdrawal \in [Token -> Withdrawal]
       /\ k.withdrawal[t] = paid
       /\ \A u \in Token \ {t} : k.withdrawal[u] = ledger.withdrawal[u]
  BY <1>10, <1>11, <1>13
<1>15. k.pool + k.stranded = left + fee + ledger.stranded /\ k.pool \in Int /\ k.stranded \in Int
  BY <1>4, <1>5, <1>12, <1>13
<1>16. k \in Ledger
  <2>1. k = [account |-> k.account, pool |-> k.pool, nftsActive |-> k.nftsActive,
             trades |-> k.trades, withdrawal |-> k.withdrawal, stranded |-> k.stranded]
    BY <1>2
  <2>2. ledger.nftsActive - 1 \in Int
    BY <1>13
  <2> QED
    BY <1>9, <1>11, <1>13, <1>14, <1>15, <2>1, <2>2 DEF Ledger
<1>17. k.nftsActive = Cardinality(ActiveTokens(k.account))
  BY <1>1, <1>3, <1>7, <1>9, <1>11, ActiveFinite, FS_RemoveElement
<1>18. \A u \in Token : k.account[u].deposit = ledger.account[u].deposit
  BY <1>4, <1>6, <1>9, <1>11, ClosedRow
<1>19. /\ k.account[t].state = "withdrawn" /\ k.account[t].deposit = ledger.account[t].deposit
       /\ k.account[t].pnl = ledger.account[t].pnl
  <2>1. closed[t].state = "withdrawn" /\ closed[t].deposit = ledger.account[t].deposit /\ closed[t].pnl = ledger.account[t].pnl
    BY <1>4, <1>6, ClosedRow
  <2>2. share[t] = 0
    BY <1>8, <2>1
  <2> QED
    BY <1>9, <1>11, <2>1, <2>2
<1>20. \A u \in Token \ {t} : k.account[u].state = ledger.account[u].state
  BY <1>6, <1>9, <1>11
<1>21. \A u \in Token : ledger.account[u].state = "withdrawn" =>
          u # t /\ k.account[u] = ledger.account[u] /\ k.withdrawal[u] = ledger.withdrawal[u]
  <2> SUFFICES ASSUME NEW u \in Token, ledger.account[u].state = "withdrawn"
               PROVE  u # t /\ k.account[u] = ledger.account[u] /\ k.withdrawal[u] = ledger.withdrawal[u]
    OBVIOUS
  <2>1. u # t
    OBVIOUS
  <2>2. closed[u] = ledger.account[u] /\ share[u] = 0
    BY <1>6, <1>8, <2>1
  <2> QED
    BY <1>9, <1>11, <1>14, <2>1, <2>2
<1>22. PaidWhole(k)
  <2>1. balance = ledger.account[t].deposit + ledger.account[t].pnl
    BY <1>3 DEF FundInv, Checked, InvariantsHold, balance
  <2> QED
    BY <1>1, <1>10, <1>14, <1>19, <1>20, <1>21, <2>1 DEF PaidWhole
<1>23. Untouched(k)
  BY <1>1, <1>14, <1>18, <1>19, <1>20 DEF Untouched
<1>24. Books(k)
  <2>1. DepositOf(k) = DepositOf(ledger) /\ Earned(k) = Earned(ledger) /\ DOMAIN k.trades = DOMAIN ledger.trades
    BY <1>1, <1>11, <1>16, <1>18, SameDeposits, SameEarned
  <2>2. SumFunctionOnSet(PaidTo(k), Token) = SumFunctionOnSet(PaidTo(ledger), Token) + (balance - fee) - 0
    <3>1. \A u \in Token \ {t} : k.withdrawal[u].net = ledger.withdrawal[u].net
      BY <1>14
    <3>2. k.withdrawal[t].net = balance - fee /\ ledger.withdrawal[t].net = 0
      BY <1>1, <1>10, <1>14 DEF Untouched
    <3> QED
      BY <1>1, <1>16, <3>1, <3>2, PaidChanges
  <2> DEFINE D == SumFunctionOnSet(DepositOf(ledger), Token)
             E == SumFunctionOnSet(Earned(ledger), DOMAIN ledger.trades)
             P == SumFunctionOnSet(PaidTo(ledger), Token)
  <2>3. D \in Int /\ E \in Int /\ P \in Int
    BY <1>1, SumsType
  <2>4. D + E = ledger.pool + P + ledger.stranded
    BY <1>1 DEF Books
  <2>5. left = ledger.pool - balance
    BY DEF left
  <2>6. D + E = k.pool + (P + (balance - fee) - 0) + k.stranded
    <3>1. balance \in Int /\ fee \in Int /\ ledger.pool \in Int /\ ledger.stranded \in Int
          /\ k.pool \in Int /\ k.stranded \in Int
      BY <1>4, <1>5, <1>13, <1>15
    <3>2. k.pool + k.stranded = (ledger.pool - balance) + fee + ledger.stranded
      BY <1>15, <2>5
    <3> HIDE DEF D, E, P
    <3> QED BY <2>3, <2>4, <3>1, <3>2
  <2> QED
    BY <2>1, <2>2, <2>6 DEF Books
<1> QED
  BY <1>16, <1>17, <1>21, <1>22, <1>23, <1>24 DEF Kept, k

-----------------------------------------------------------------------------
(* Sharing over the accounts *)

\* Whether account u comes before t when the remainder is handed out.
Before(account, u, t) ==
    \/ account[u].balance > account[t].balance
    \/ account[u].balance = account[t].balance /\ u < t

(* The sort order is a strict total order. *)
LEMMA RankIsCount ==
    ASSUME NEW account, NEW t
    PROVE  Rank(account, t) = Cardinality({u \in ActiveTokens(account) : Before(account, u, t)})
BY DEF Rank, Before

(* Who comes before has the lower rank. *)
LEMMA BeforeRanksLower ==
    ASSUME NEW account \in [Token -> Account], NEW t \in ActiveTokens(account), NEW u \in ActiveTokens(account),
           Before(account, u, t)
    PROVE  Rank(account, u) < Rank(account, t)
<1> DEFINE A == ActiveTokens(account)
           U == {x \in A : Before(account, x, u)}
           T == {x \in A : Before(account, x, t)}
<1>1. \A x \in A : x \in Int /\ account[x].balance \in Int
  BY TokenFinite, ActiveFinite DEF Account
<1>2. U \cup {u} \subseteq T /\ u \notin U
  BY <1>1 DEF Before
<1>3. IsFiniteSet(U) /\ IsFiniteSet(T)
  BY ActiveFinite, FS_Subset
<1>4. Cardinality(U \cup {u}) = Cardinality(U) + 1 /\ Cardinality(U) \in Nat /\ Cardinality(T) \in Nat
  BY <1>2, <1>3, FS_AddElement, FS_CardinalityType
<1>5. Cardinality(U \cup {u}) <= Cardinality(T)
  BY <1>2, <1>3, FS_Subset
<1>6. Rank(account, u) = Cardinality(U) /\ Rank(account, t) = Cardinality(T)
  BY RankIsCount
<1> HIDE DEF U, T
<1> QED
  BY <1>4, <1>5, <1>6

(* Ranks are the positions of the sorted rows. *)
LEMMA RankRange ==
    ASSUME NEW account \in [Token -> Account], NEW t \in ActiveTokens(account)
    PROVE  Rank(account, t) \in 0 .. Cardinality(ActiveTokens(account)) - 1
<1> DEFINE A == ActiveTokens(account)
           T == {x \in A : Before(account, x, t)}
<1>1. \A x \in A : x \in Int /\ account[x].balance \in Int
  BY TokenFinite, ActiveFinite DEF Account
<1>2. T \subseteq A /\ t \notin T
  BY <1>1 DEF Before
<1>3. IsFiniteSet(A) /\ IsFiniteSet(T)
  BY ActiveFinite, FS_Subset
<1>4. Cardinality(T) <= Cardinality(A) /\ Cardinality(T) # Cardinality(A)
  BY <1>2, <1>3, FS_Subset
<1>5. Cardinality(T) \in Nat /\ Cardinality(A) \in Nat
  BY <1>3, FS_CardinalityType
<1>6. Rank(account, t) = Cardinality(T)
  BY RankIsCount
<1> HIDE DEF A, T
<1> QED
  BY <1>4, <1>5, <1>6 DEF A

(* The sort gives every place to one account, so a remainder of r units goes *)
(* to exactly r accounts.                                                    *)
LEMMA FirstInRank ==
    ASSUME NEW account \in [Token -> Account], NEW r \in 0 .. Cardinality(ActiveTokens(account))
    PROVE  Cardinality({t \in ActiveTokens(account) : Rank(account, t) < r}) = r
<1> DEFINE A    == ActiveTokens(account)
           n    == Cardinality(A)
           rank == [t \in A |-> Rank(account, t)]
           F    == {t \in A : Rank(account, t) < r}
           part == [t \in F |-> Rank(account, t)]
<1>1. \A t \in A : Rank(account, t) \in 0 .. n - 1
  BY RankRange
<1>2. \A t, u \in A : Rank(account, t) = Rank(account, u) => t = u
  <2> SUFFICES ASSUME NEW t \in A, NEW u \in A, t # u
               PROVE  Rank(account, t) # Rank(account, u)
    OBVIOUS
  <2>1. t \in Int /\ u \in Int /\ account[t].balance \in Int /\ account[u].balance \in Int
    BY TokenFinite, ActiveFinite DEF Account
  <2>2. Before(account, t, u) \/ Before(account, u, t)
    BY <2>1 DEF Before
  <2>3. Rank(account, t) \in Int /\ Rank(account, u) \in Int
    BY <1>1
  <2> QED
    BY <2>2, <2>3, BeforeRanksLower
<1>3. IsFiniteSet(A) /\ n \in Nat
  BY ActiveFinite
<1>4. rank \in Injection(A, 0 .. n - 1)
  BY <1>1, <1>2 DEF Injection, IsInjective
<1>5. IsFiniteSet(0 .. n - 1) /\ Cardinality(0 .. n - 1) = n
  BY <1>3, PlacesBelow
<1>6. rank \in Surjection(A, 0 .. n - 1)
  <2> HIDE DEF rank, A
  <2> QED BY <1>4, <1>5, FS_Injection DEF A
<1>7. \A i \in 0 .. n - 1 : \E t \in A : Rank(account, t) = i
  BY <1>6 DEF Surjection
<1>8. part \in Injection(F, 0 .. r - 1)
  BY <1>1, <1>2 DEF Injection, IsInjective
<1>9. \A i \in 0 .. r - 1 : \E t \in F : part[t] = i
  BY <1>3, <1>7
<1>10. part \in Surjection(F, 0 .. r - 1)
  BY <1>8, <1>9 DEF Injection, Surjection
<1>11. IsFiniteSet(0 .. r - 1) /\ Cardinality(0 .. r - 1) = r
  BY <1>3, PlacesBelow
<1> HIDE DEF part, F
<1>12. Cardinality(F) = r
  BY <1>8, <1>10, <1>11, FS_Injection
<1> QED
  BY <1>12 DEF F

-----------------------------------------------------------------------------

\* The tables a distribution starts from: the pool is the sum of the active
\* balances, and none is negative.
Shareable(account, pool) ==
    /\ account \in [Token -> Account]
    /\ pool \in Int /\ pool > 0
    /\ SumBalances(account) = pool
    /\ \A t \in ActiveTokens(account) : account[t].balance >= 0

\* The proportional parts of a > 0, rounded down.
Floors(account, pool, a) ==
    [t \in Token |-> IF account[t].state = "active" THEN (account[t].balance * a) \div pool ELSE 0]

\* What rounding down leaves over.
Over(account, pool, a) == a - SumFunctionOnSet(Floors(account, pool, a), ActiveTokens(account))

\* The accounts with money.
Funded(account) == {t \in ActiveTokens(account) : account[t].balance > 0}

(* The accounts with money are among the active ones. *)
LEMMA FundedFinite ==
    ASSUME NEW account
    PROVE  /\ Funded(account) \subseteq ActiveTokens(account)
           /\ IsFiniteSet(Funded(account))
           /\ Cardinality(Funded(account)) \in Nat
           /\ Cardinality(Funded(account)) <= Cardinality(ActiveTokens(account))
<1>1. Funded(account) \subseteq ActiveTokens(account)
  BY DEF Funded
<1> QED
  BY <1>1, ActiveFinite, FS_Subset, FS_CardinalityType

(* Somebody has money, and an account without any is ranked after all that have. *)
LEMMA FundedExists ==
    ASSUME NEW account, NEW pool, Shareable(account, pool)
    PROVE  Cardinality(Funded(account)) > 0 /\ ActiveTokens(account) # {}
<1> DEFINE A == ActiveTokens(account)
           f == Balances(account)
<1>1. \A t \in A : f[t] \in Int /\ f[t] >= 0 /\ (t \in Funded(account) <=> f[t] > 0)
  BY ActiveFinite DEF Shareable, Balances, Account, Funded
<1>2. SumFunctionOnSet(f, A) = pool /\ pool \in Int /\ pool > 0
  BY DEF Shareable, SumBalances
<1>3. ASSUME Funded(account) = {} PROVE FALSE
  <2>1. \A t \in A : f[t] = 0
    BY <1>1, <1>3
  <2> HIDE DEF A, f
  <2>2. SumFunctionOnSet(f, A) = 0
    BY <2>1, ActiveFinite, SumZero DEF A
  <2> QED BY <1>2, <2>2
<1>4. Cardinality(Funded(account)) # 0
  BY <1>3, FundedFinite, FS_EmptySet
<1> QED
  BY <1>3, <1>4, FundedFinite

(* An account without money is ranked after all that have some. *)
LEMMA EmptyRanksLast ==
    ASSUME NEW account, NEW pool, Shareable(account, pool),
           NEW t \in ActiveTokens(account), account[t].balance = 0
    PROVE  Rank(account, t) >= Cardinality(Funded(account))
<1> DEFINE T == {u \in ActiveTokens(account) : Before(account, u, t)}
<1>1. Funded(account) \subseteq T
  BY DEF Funded, Before
<1>2. IsFiniteSet(T)
  BY ActiveFinite, FS_Subset
<1>3. Cardinality(Funded(account)) <= Cardinality(T)
  BY <1>1, <1>2, FS_Subset
<1>4. Cardinality(T) \in Nat /\ Rank(account, t) = Cardinality(T)
  BY <1>2, FS_CardinalityType, RankIsCount
<1> QED
  BY <1>3, <1>4, FundedFinite

(* Rounding down leaves less than one unit for every account that has money, *)
(* and gives nobody more than a proportional part.                           *)
LEMMA FloorsType ==
    ASSUME NEW account, NEW pool, Shareable(account, pool), NEW a \in Nat
    PROVE  /\ Floors(account, pool, a) \in [Token -> Int]
           /\ \A t \in ActiveTokens(account) :
                 /\ account[t].balance \in Nat
                 /\ Floors(account, pool, a)[t] \in Nat
                 /\ pool * Floors(account, pool, a)[t] <= account[t].balance * a
                 /\ account[t].balance * a < pool * Floors(account, pool, a)[t] + pool
<1>1. ASSUME NEW t \in Token
      PROVE  account[t].balance \in Int /\ account[t].balance * a \in Int
    BY DEF Shareable, Account
<1>2. ASSUME NEW t \in Token
      PROVE  (account[t].balance * a) \div pool \in Int
  BY <1>1, DivBounds DEF Shareable
<1>3. ASSUME NEW t \in ActiveTokens(account)
      PROVE  /\ account[t].balance \in Nat
             /\ Floors(account, pool, a)[t] \in Nat
             /\ pool * Floors(account, pool, a)[t] <= account[t].balance * a
             /\ account[t].balance * a < pool * Floors(account, pool, a)[t] + pool
  <2>1. t \in Token /\ account[t].state = "active" /\ account[t].balance >= 0
    BY DEF ActiveTokens, Shareable
  <2>2. account[t].balance \in Nat
    BY <1>1, <2>1
  <2>3. account[t].balance * a \in Int /\ account[t].balance * a >= 0
    BY <2>2
  <2>4. Floors(account, pool, a)[t] = (account[t].balance * a) \div pool
    BY <2>1 DEF Floors
  <2>5. pool \in Int /\ pool > 0
    BY DEF Shareable
  <2> DEFINE x == account[t].balance * a
  <2>6. x \in Int /\ x >= 0 /\ Floors(account, pool, a)[t] = x \div pool
    BY <2>3, <2>4
  <2> HIDE DEF x
  <2>7. /\ x \div pool \in Int /\ x \div pool >= 0
        /\ pool * (x \div pool) <= x
        /\ x < pool * (x \div pool) + pool
    BY <2>5, <2>6, DivBounds
  <2>8. x \div pool \in Nat
    BY <2>7
  <2> QED
    BY <2>2, <2>6, <2>7, <2>8 DEF x
<1> QED
  BY <1>2, <1>3 DEF Floors

(* Less is left over than there are accounts with money. *)
LEMMA OverRange ==
    ASSUME NEW account, NEW pool, Shareable(account, pool), NEW a \in Nat
    PROVE  /\ Over(account, pool, a) \in Nat
           /\ Over(account, pool, a) < Cardinality(Funded(account))
           /\ SumFunctionOnSet(Floors(account, pool, a), ActiveTokens(account)) \in Int
<1> DEFINE A == ActiveTokens(account)
           m == Cardinality(Funded(account))
           b == Balances(account)
           q == Floors(account, pool, a)
           exact == [t \in Token |-> a * b[t]]
           whole == [t \in Token |-> pool * q[t]]
           rest  == [t \in Token |-> exact[t] - whole[t]]
           one   == [t \in Token |-> IF t \in Funded(account) THEN 1 ELSE 0]
           most  == [t \in Token |-> (pool - 1) * one[t]]
           slack == [t \in Token |-> most[t] - rest[t]]
<1>1. IsFiniteSet(A) /\ A \subseteq Token /\ pool \in Int /\ pool > 0
  BY ActiveFinite DEF Shareable
<1>2. \A t \in A : b[t] = account[t].balance /\ b[t] \in Nat /\ q[t] \in Nat
         /\ pool * q[t] <= b[t] * a /\ b[t] * a < pool * q[t] + pool
  BY <1>1, FloorsType DEF Balances
<1>3. SumFunctionOnSet(b, A) = pool
  BY DEF Shareable, SumBalances
<1>4. m \in Nat /\ m > 0 /\ Funded(account) \subseteq A
  BY FundedExists, FundedFinite
<1>5. \A t \in A : t \in Funded(account) <=> b[t] > 0
  BY <1>1, <1>2 DEF Funded
<1> HIDE DEF A, b, q, m
<1>6. \A t \in A : exact[t] = a * b[t] /\ exact[t] \in Int /\ whole[t] = pool * q[t] /\ whole[t] \in Int
  BY <1>1, <1>2
<1>7. \A t \in A : rest[t] \in Int /\ rest[t] >= 0 /\ exact[t] = whole[t] + rest[t]
  BY <1>1, <1>2, <1>6
<1>8. \A t \in A : one[t] = (IF t \in Funded(account) THEN 1 ELSE 0) /\ one[t] \in Int
                   /\ most[t] = (pool - 1) * one[t] /\ most[t] \in Int
  BY <1>1
<1>26. \A t \in A : slack[t] = most[t] - rest[t]
  BY <1>1
<1> HIDE DEF exact, whole, rest, one, most, slack
<1>9. ASSUME NEW t \in A
      PROVE  slack[t] \in Int /\ slack[t] >= 0 /\ most[t] = rest[t] + slack[t]
  <2>1. slack[t] = most[t] - rest[t]
    BY <1>26
  <2>2. CASE b[t] > 0
    <3>1. most[t] = pool - 1
      BY <1>1, <1>5, <1>8, <2>2
    <3>2. rest[t] <= pool - 1
      BY <1>1, <1>2, <1>6, <1>7
    <3> QED BY <1>1, <1>7, <1>8, <2>1, <3>1, <3>2
  <2>3. CASE b[t] = 0
    <3>1. most[t] = 0
      BY <1>1, <1>5, <1>8, <2>3
    <3>4. exact[t] = 0
      BY <1>6, <2>3
    <3>5. pool * q[t] >= 0
      BY <1>1, <1>2
    <3>2. exact[t] = 0 /\ whole[t] >= 0
      BY <1>6, <3>4, <3>5
    <3>3. rest[t] <= 0
      BY <1>6, <1>7, <3>2
    <3> QED BY <1>1, <1>7, <1>8, <2>1, <3>1, <3>3
  <2> QED BY <1>2, <2>2, <2>3
<1>10. \A t \in A : b[t] \in Int /\ q[t] \in Int
  BY <1>2
<1> DEFINE sq == SumFunctionOnSet(q, A)
           sr == SumFunctionOnSet(rest, A)
           ss == SumFunctionOnSet(slack, A)
<1>11. sq \in Int
  <2>1. \A t \in A : q[t] \in Int
    BY <1>10
  <2> QED BY <1>1, <2>1, SumType
<1>12. SumFunctionOnSet(exact, A) = a * pool
  <2>1. \A t \in A : b[t] \in Int /\ exact[t] = a * b[t]
    BY <1>6, <1>10
  <2>2. a \in Int
    OBVIOUS
  <2> QED BY <1>1, <1>3, <2>1, <2>2, SumTimes
<1>13. SumFunctionOnSet(whole, A) = pool * sq
  <2>1. \A t \in A : q[t] \in Int /\ whole[t] = pool * q[t]
    BY <1>6, <1>10
  <2> QED BY <1>1, <2>1, SumTimes
<1>14. SumFunctionOnSet(one, A) = m
  <2>1. \A t \in A : one[t] = IF t \in Funded(account) THEN 1 ELSE 0
    BY <1>8
  <2> QED BY <1>1, <1>4, <2>1, SumOnes DEF m
<1>15. SumFunctionOnSet(most, A) = (pool - 1) * m
  <2>1. \A t \in A : one[t] \in Int /\ most[t] = (pool - 1) * one[t]
    BY <1>8
  <2>2. pool - 1 \in Int
    BY <1>1
  <2> QED BY <1>1, <1>14, <2>1, <2>2, SumTimes
<1>16. a * pool = pool * sq + sr
  <2>1. \A t \in A : whole[t] \in Int /\ rest[t] \in Int /\ exact[t] = whole[t] + rest[t]
    BY <1>6, <1>7
  <2> QED BY <1>1, <1>12, <1>13, <2>1, SumPlus
<1>17. (pool - 1) * m = sr + ss
  <2>1. \A t \in A : rest[t] \in Int /\ slack[t] \in Int /\ most[t] = rest[t] + slack[t]
    BY <1>7, <1>9
  <2> QED BY <1>1, <1>15, <2>1, SumPlus
<1>18. sr \in Int /\ sr >= 0 /\ ss \in Int /\ ss >= 0
  <2>1. \A t \in A : rest[t] \in Int /\ rest[t] >= 0
    BY <1>7
  <2>2. \A t \in A : slack[t] \in Int /\ slack[t] >= 0
    BY <1>9
  <2>3. (\A t \in A : rest[t] \in Int) /\ (\A t \in A : slack[t] \in Int)
    BY <2>1, <2>2
  <2> QED BY <1>1, <2>1, <2>2, <2>3, SumType, SumNonNegative
<1>19. Over(account, pool, a) = a - sq
  BY DEF Over, A, q
<1> HIDE DEF sq, sr, ss
<1>20. pool * sq <= pool * a
  BY <1>1, <1>11, <1>16, <1>18
<1>21. pool * (a - sq) = sr
  BY <1>1, <1>11, <1>16, <1>18
<1>22. (pool - 1) * m = pool * m - m
  BY <1>1, <1>4
<1>23. pool * m = sr + ss + m
  <2>1. pool * m \in Int
    BY <1>1, <1>4
  <2> QED BY <1>4, <1>17, <1>18, <1>22, <2>1
<1>24. sq <= a
  BY <1>1, <1>11, <1>20, ScaledOrder
<1>25. a - sq < m
  <2> SUFFICES ASSUME m <= a - sq PROVE FALSE
    BY <1>4, <1>11
  <2>1. pool * m <= pool * (a - sq)
    <3>1. pool * ((a - sq) - m) >= 0
      BY <1>1, <1>4, <1>11
    <3>2. pool * ((a - sq) - m) = pool * (a - sq) - pool * m
      BY <1>1, <1>4, <1>11
    <3> QED BY <1>1, <1>4, <1>11, <3>1, <3>2
  <2> QED BY <1>4, <1>18, <1>21, <1>23, <2>1
<1> QED
  BY <1>11, <1>19, <1>24, <1>25 DEF sq, A, q, m

\* The unit of the remainder an account gets, and all it gets.
Extra(account, pool, a, t) == IF Rank(account, t) < Over(account, pool, a) THEN 1 ELSE 0
Part(account, pool, a, t)  == Floors(account, pool, a)[t] + Extra(account, pool, a, t)

\* |amount|
Size(amount) == Sign(amount) * amount

(* An amount is its sign times its size. *)
LEMMA SizeType ==
    ASSUME NEW amount \in Int
    PROVE  /\ Sign(amount) \in {1, -1}
           /\ Size(amount) \in Nat
           /\ amount = Sign(amount) * Size(amount)
           /\ amount > 0 => Sign(amount) = 1 /\ Size(amount) = amount
           /\ ~ (amount > 0) => Sign(amount) = -1 /\ Size(amount) = -amount
BY DEF Sign, Size

(* Truncation towards zero is rounding down of the size. *)
LEMMA TruncIsFloor ==
    ASSUME NEW b \in Nat, NEW amount \in Int, NEW pool \in Int, pool > 0
    PROVE  Trunc(b * amount, pool) = Sign(amount) * ((b * Size(amount)) \div pool)
<1> DEFINE x == b * Size(amount)
<1>1. x \in Nat /\ x \div pool \in Int
  <2>1. x \in Nat
    BY SizeType
  <2> HIDE DEF x
  <2> QED BY <2>1, DivBounds
<1>2. CASE amount > 0
  <2>1. b * amount = x /\ Sign(amount) = 1
    BY <1>2, SizeType
  <2> HIDE DEF x
  <2> QED BY <1>1, <2>1 DEF Trunc, x
<1>3. CASE ~ (amount > 0)
  <2>1. b * amount = -x /\ Sign(amount) = -1
    <3>1. Size(amount) = -amount /\ Sign(amount) = -1
      BY <1>3, SizeType
    <3>2. b * (-amount) = -(b * amount) /\ b * amount \in Int
      OBVIOUS
    <3> QED BY <3>1, <3>2
  <2> HIDE DEF x
  <2>2. CASE x = 0
    <3>1. 0 \div pool = 0
      OBVIOUS
    <3>2. b * amount = 0
      BY <2>1, <2>2
    <3> QED BY <2>1, <2>2, <3>1, <3>2 DEF Trunc, x
  <2>3. CASE x > 0
    <3>1. ~ (b * amount >= 0) /\ -(b * amount) = x
      BY <1>1, <2>1, <2>3
    <3>2. Trunc(b * amount, pool) = -(x \div pool)
      BY <3>1 DEF Trunc
    <3> QED BY <1>1, <2>1, <3>2 DEF x
  <2> QED BY <1>1, <2>2, <2>3
<1> QED
  BY <1>2, <1>3

(* The remainder in units of the amount's sign is what rounding down left over. *)
LEMMA RemainderIsOver ==
    ASSUME NEW account, NEW pool, Shareable(account, pool), NEW amount \in Int
    PROVE  /\ Remainder(account, pool, amount) = Over(account, pool, Size(amount))
           /\ \A t \in ActiveTokens(account) :
                 Truncated(account, pool, amount)[t] = Sign(amount) * Floors(account, pool, Size(amount))[t]
<1> DEFINE A == ActiveTokens(account)
           a == Size(amount)
           s == Sign(amount)
           q == Floors(account, pool, a)
           T == Truncated(account, pool, amount)
<1>1. a \in Nat /\ s \in {1, -1} /\ amount = s * a
  BY SizeType
<1>2. IsFiniteSet(A) /\ A \subseteq Token /\ pool \in Int /\ pool > 0
  BY ActiveFinite DEF Shareable
<1>3. ASSUME NEW t \in A
      PROVE  q[t] \in Int /\ T[t] = s * q[t]
  <2>1. t \in Token /\ account[t].state = "active"
    BY DEF ActiveTokens
  <2>2. account[t].balance \in Nat /\ q[t] \in Nat
    BY <1>1, FloorsType
  <2>3. T[t] = Trunc(account[t].balance * amount, pool) /\ q[t] = (account[t].balance * a) \div pool
    BY <2>1 DEF Truncated, Floors
  <2>4. Trunc(account[t].balance * amount, pool) = s * ((account[t].balance * a) \div pool)
    BY <1>2, <2>2, TruncIsFloor
  <2> QED
    BY <2>2, <2>3, <2>4
<1>4. SumFunctionOnSet(T, A) = s * SumFunctionOnSet(q, A)
  <2>1. s \in Int
    BY <1>1
  <2> HIDE DEF A, q, T, s
  <2> QED BY <1>2, <1>3, <2>1, SumTimes
<1>5. SumFunctionOnSet(q, A) \in Int
  BY <1>1, OverRange
<1>6. Remainder(account, pool, amount) = s * (amount - SumFunctionOnSet(T, A))
  BY DEF Remainder
<1>7. Over(account, pool, a) = a - SumFunctionOnSet(q, A)
  BY DEF Over
<1> HIDE DEF A, q, T, s, a
<1>8. s * (s * a - s * SumFunctionOnSet(q, A)) = a - SumFunctionOnSet(q, A)
  BY <1>1, <1>5
<1>9. Remainder(account, pool, amount) = Over(account, pool, a)
  BY <1>1, <1>4, <1>6, <1>7, <1>8
<1> QED
  BY <1>3, <1>9 DEF A, q, T, s, a

(* The round robin gives a unit to who is ranked below the remainder. *)
LEMMA RoundRobin ==
    ASSUME NEW n \in Nat, NEW r \in Nat, r < n, NEW k \in 0 .. n - 1
    PROVE  (r + n - 1 - k) \div n = IF k < r THEN 1 ELSE 0
<1> DEFINE x == r + n - 1 - k
<1>1. x \in Int /\ n \in Int /\ n > 0
  OBVIOUS
<1>2. /\ x \div n \in Int
      /\ n * (x \div n) <= x
      /\ x < n * (x \div n) + n
  <2> HIDE DEF x
  <2> QED BY <1>1, DivBounds
<1>3. CASE k < r
  <2>1. n <= x /\ x < n + n
    BY <1>3
  <2> HIDE DEF x
  <2> DEFINE d == x \div n
  <2>2. d \in Int /\ n * d <= x /\ x < n * d + n
    BY <1>2
  <2> HIDE DEF d
  <2>3. n * d < n + n /\ n * 0 < n * d
    BY <1>1, <2>1, <2>2
  <2>4. d >= 1
    <3> SUFFICES ASSUME d <= 0 PROVE FALSE
      BY <2>2
    <3>1. n * d <= 0 /\ n * d \in Int /\ n * 0 = 0
      BY <1>1, <2>2
    <3> QED BY <2>3, <3>1
  <2>5. d <= 1
    <3> SUFFICES ASSUME d >= 2 PROVE FALSE
      BY <2>2
    <3>1. n * (d - 2) >= 0
      BY <1>1, <2>2
    <3>2. n * (d - 2) = n * d - (n + n)
      BY <1>1, <2>2
    <3>3. n * d \in Int
      BY <1>1, <2>2
    <3> QED BY <1>1, <2>3, <3>1, <3>2, <3>3
  <2> QED BY <1>3, <2>2, <2>4, <2>5 DEF d, x
<1>4. CASE ~ (k < r)
  <2>1. 0 <= x /\ x < n
    BY <1>4
  <2> HIDE DEF x
  <2>2. x \div n = 0
    BY <1>1, <2>1
  <2> QED BY <1>4, <2>2 DEF x
<1> QED
  BY <1>3, <1>4

(* Every active account gets its rounded part and perhaps one unit more. *)
LEMMA ShareForm ==
    ASSUME NEW account, NEW pool, Shareable(account, pool), NEW amount \in Int,
           NEW t \in ActiveTokens(account)
    PROVE  /\ Shares(account, pool, amount)[t] = Sign(amount) * Part(account, pool, Size(amount), t)
           /\ Part(account, pool, Size(amount), t) \in Nat
           /\ Extra(account, pool, Size(amount), t) \in {0, 1}
<1> DEFINE n == Cardinality(ActiveTokens(account))
           a == Size(amount)
           s == Sign(amount)
           r == Over(account, pool, a)
           k == Rank(account, t)
           q == Floors(account, pool, a)[t]
<1>1. a \in Nat /\ s \in {1, -1}
  BY SizeType
<1>2. n \in Nat /\ r \in Nat /\ r < n
  <2>1. Cardinality(Funded(account)) <= n /\ Cardinality(Funded(account)) \in Nat /\ n \in Nat
    BY FundedFinite, ActiveFinite
  <2>2. r \in Nat /\ r < Cardinality(Funded(account))
    BY <1>1, OverRange
  <2> QED BY <2>1, <2>2
<1>3. k \in 0 .. n - 1
  BY RankRange DEF Shareable
<1>4. t \in Token /\ account[t].state = "active"
  BY DEF ActiveTokens
<1>5. q \in Nat
  BY <1>1, FloorsType
<1>6. Truncated(account, pool, amount)[t] = s * q /\ Remainder(account, pool, amount) = r
  BY RemainderIsOver
<1>7. Shares(account, pool, amount)[t] = s * q + s * ((r + n - 1 - k) \div n)
  BY <1>4, <1>6 DEF Shares
<1>8. (r + n - 1 - k) \div n = Extra(account, pool, a, t)
  <2> HIDE DEF n, r, k
  <2>1. (r + n - 1 - k) \div n = IF k < r THEN 1 ELSE 0
    BY <1>2, <1>3, RoundRobin
  <2> QED BY <2>1 DEF Extra, k, r
<1>9. Extra(account, pool, a, t) \in {0, 1}
  BY DEF Extra
<1> HIDE DEF n, r, k, q, a, s
<1>10. s * q + s * Extra(account, pool, a, t) = s * (q + Extra(account, pool, a, t))
  BY <1>1, <1>5, <1>9
<1>11. Part(account, pool, a, t) = q + Extra(account, pool, a, t)
  BY DEF Part, q
<1>12. Part(account, pool, a, t) \in Nat
  BY <1>5, <1>9, <1>11
<1> QED
  BY <1>7, <1>8, <1>9, <1>10, <1>11, <1>12 DEF a, s

(* A distribution hands out the amount to the cent. *)
LEMMA SharesSum ==
    ASSUME NEW account, NEW pool, Shareable(account, pool), NEW amount \in Int
    PROVE  SumFunctionOnSet(Shares(account, pool, amount), ActiveTokens(account)) = amount
<1> DEFINE A    == ActiveTokens(account)
           a    == Size(amount)
           s    == Sign(amount)
           r    == Over(account, pool, a)
           q    == Floors(account, pool, a)
           one  == [t \in Token |-> Extra(account, pool, a, t)]
           part == [t \in Token |-> Part(account, pool, a, t)]
           F    == {t \in A : Rank(account, t) < r}
           sh   == Shares(account, pool, amount)
<1>1. a \in Nat /\ s \in {1, -1} /\ amount = s * a
  BY SizeType
<1>2. IsFiniteSet(A) /\ A \subseteq Token
  BY ActiveFinite
<1>3. r \in Nat /\ r <= Cardinality(A) /\ SumFunctionOnSet(q, A) \in Int
  <2>1. Cardinality(Funded(account)) <= Cardinality(A) /\ Cardinality(Funded(account)) \in Nat /\ Cardinality(A) \in Nat
    BY FundedFinite, ActiveFinite
  <2>2. r \in Nat /\ r < Cardinality(Funded(account)) /\ SumFunctionOnSet(q, A) \in Int
    BY <1>1, OverRange
  <2> QED BY <2>1, <2>2
<1>4. Cardinality(F) = r
  <2>1. r \in 0 .. Cardinality(ActiveTokens(account))
    BY <1>3, ActiveFinite
  <2> QED BY <2>1, FirstInRank DEF Shareable
<1>5. r = a - SumFunctionOnSet(q, A)
  BY DEF Over
<1>6. \A t \in A : one[t] = IF t \in F THEN 1 ELSE 0
  BY <1>2 DEF Extra
<1>7. \A t \in A : q[t] \in Int /\ one[t] \in Int /\ part[t] = q[t] + one[t]
  BY <1>1, <1>2, FloorsType DEF Extra, Part
<1>8. \A t \in A : part[t] \in Int /\ sh[t] = s * part[t]
  BY <1>1, <1>2, ShareForm
<1>9. F \subseteq A
  OBVIOUS
<1> HIDE DEF A, a, s, r, q, one, part, F, sh
<1>10. SumFunctionOnSet(one, A) = Cardinality(F)
  BY <1>2, <1>6, <1>9, SumOnes
<1>11. SumFunctionOnSet(part, A) = SumFunctionOnSet(q, A) + SumFunctionOnSet(one, A)
  BY <1>2, <1>7, SumPlus
<1>12. SumFunctionOnSet(sh, A) = s * SumFunctionOnSet(part, A)
  <2>1. s \in Int
    BY <1>1
  <2> QED BY <1>2, <1>8, <2>1, SumTimes
<1>13. SumFunctionOnSet(part, A) = a
  BY <1>1, <1>3, <1>4, <1>5, <1>10, <1>11
<1> QED
  BY <1>1, <1>12, <1>13 DEF A, sh

(* An empty account gets and pays nothing. *)
LEMMA EmptyGetsNothing ==
    ASSUME NEW account, NEW pool, Shareable(account, pool), NEW a \in Nat,
           NEW t \in ActiveTokens(account), account[t].balance = 0
    PROVE  Part(account, pool, a, t) = 0
<1> DEFINE q == Floors(account, pool, a)[t]
<1>1. pool \in Int /\ pool > 0
  BY DEF Shareable
<1>2. q \in Nat /\ pool * q <= account[t].balance * a
  BY FloorsType
<1>3. account[t].balance * a = 0
  OBVIOUS
<1> HIDE DEF q
<1>4. q = 0
  <2>1. pool * q <= pool * 0
    BY <1>1, <1>2, <1>3
  <2>2. q <= 0
    BY <1>1, <1>2, <2>1, ScaledOrder
  <2> QED BY <1>2, <2>2
<1>5. Extra(account, pool, a, t) = 0
  <2>1. Rank(account, t) >= Cardinality(Funded(account)) /\ Cardinality(Funded(account)) \in Nat
    BY EmptyRanksLast, FundedFinite
  <2>2. Over(account, pool, a) \in Nat /\ Over(account, pool, a) < Cardinality(Funded(account))
    BY OverRange
  <2>3. Rank(account, t) \in Int
    BY RankRange DEF Shareable
  <2> QED BY <2>1, <2>2, <2>3 DEF Extra
<1> QED
  BY <1>4, <1>5 DEF Part, q

(* No part of a loss that the pool covers is more than the account's balance. *)
LEMMA LossIsCovered ==
    ASSUME NEW account, NEW pool, Shareable(account, pool), NEW a \in Nat, a <= pool,
           NEW t \in ActiveTokens(account)
    PROVE  Part(account, pool, a, t) <= account[t].balance
<1> DEFINE b == account[t].balance
           q == Floors(account, pool, a)[t]
           e == Extra(account, pool, a, t)
<1>1. pool \in Int /\ pool > 0
  BY DEF Shareable
<1>2. b \in Nat /\ q \in Nat /\ pool * q <= b * a
  BY FloorsType
<1>3. e \in {0, 1} /\ Part(account, pool, a, t) = q + e
  BY DEF Extra, Part
<1>4. CASE b = 0
  BY <1>2, <1>4, EmptyGetsNothing
<1>5. CASE b > 0 /\ a < pool
  <2> HIDE DEF b, q, e
  <2>1. b * a < b * pool /\ b * pool = pool * b
    <3>1. b * (pool - a) > 0
      BY <1>1, <1>2, <1>5
    <3>2. b * (pool - a) = b * pool - b * a
      BY <1>1, <1>2
    <3>3. b * pool \in Int /\ b * a \in Int
      BY <1>1, <1>2
    <3> QED BY <1>1, <1>2, <3>1, <3>2, <3>3
  <2>2. q < b
    <3> SUFFICES ASSUME b <= q PROVE FALSE
      BY <1>2
    <3>1. pool * b <= pool * q
      <4>1. pool * (q - b) >= 0
        BY <1>1, <1>2
      <4>2. pool * (q - b) = pool * q - pool * b
        BY <1>1, <1>2
      <4>3. pool * q \in Int /\ pool * b \in Int
        BY <1>1, <1>2
      <4> QED BY <4>1, <4>2, <4>3
    <3>2. pool * q \in Int /\ pool * b \in Int /\ b * a \in Int
      BY <1>1, <1>2
    <3> QED BY <1>2, <2>1, <3>1, <3>2
  <2> QED BY <1>2, <1>3, <2>2 DEF b
<1>6. CASE a = pool
  <2> DEFINE A == ActiveTokens(account)
             f == Floors(account, pool, a)
             g == Balances(account)
  <2>1. ASSUME NEW u \in A
        PROVE  g[u] \in Int /\ f[u] = g[u]
    <3>1. /\ account[u].balance \in Nat /\ f[u] \in Nat
          /\ pool * f[u] <= account[u].balance * a
          /\ account[u].balance * a < pool * f[u] + pool
      BY FloorsType
    <3>2. g[u] = account[u].balance
      BY ActiveFinite DEF Balances
    <3> HIDE DEF f, g
    <3> DEFINE x == f[u]
               y == g[u]
    <3>3. x \in Nat /\ y \in Nat /\ pool * x <= y * pool /\ y * pool < pool * x + pool
      BY <1>6, <3>1, <3>2
    <3> HIDE DEF x, y
    <3>4. y * pool = pool * y /\ pool * (x + 1) = pool * x + pool /\ pool * x \in Int /\ pool * y \in Int
      BY <1>1, <3>3
    <3>5. x <= y
      BY <1>1, <3>3, <3>4, ScaledOrder
    <3>6. y <= x
      <4> SUFFICES ASSUME x + 1 <= y PROVE FALSE
        BY <3>3
      <4>1. pool * (y - (x + 1)) >= 0
        BY <1>1, <3>3
      <4>2. pool * (y - (x + 1)) = pool * y - pool * (x + 1)
        BY <1>1, <3>3
      <4> QED BY <1>1, <3>3, <3>4, <4>1, <4>2
    <3> QED BY <3>3, <3>5, <3>6 DEF x, y
  <2>2. IsFiniteSet(A) /\ SumFunctionOnSet(g, A) = pool
    BY ActiveFinite DEF Shareable, SumBalances
  <2>3. Over(account, pool, a) = a - SumFunctionOnSet(f, A)
    BY DEF Over
  <2>4. t \in A /\ q = f[t] /\ b = g[t]
    BY ActiveFinite DEF Balances
  <2> HIDE DEF A, f, g
  <2>5. SumFunctionOnSet(f, A) = SumFunctionOnSet(g, A)
    <3>1. \A u \in A : g[u] \in Int /\ f[u] = g[u]
      BY <2>1
    <3> QED BY <2>2, <3>1, SumExt
  <2>6. Over(account, pool, a) = 0
    BY <1>1, <1>6, <2>2, <2>3, <2>5
  <2>7. e = 0
    <3>1. Rank(account, t) \in Int /\ Rank(account, t) >= 0
      BY RankRange DEF Shareable
    <3> QED BY <2>6, <3>1 DEF Extra
  <2>8. q = b
    BY <2>1, <2>4
  <2> HIDE DEF b, q, e
  <2> QED BY <1>2, <1>3, <2>7, <2>8 DEF b
<1> QED
  BY <1>1, <1>2, <1>4, <1>5, <1>6

(* A distribution that runs: it hands out the amount to the cent, everybody   *)
(* gets or everybody pays, and a loss the pool covers takes nobody below zero. *)
LEMMA SharesWork ==
    ASSUME NEW account, NEW pool, Shareable(account, pool),
           NEW amount \in Int, amount # 0, amount >= -pool
    PROVE  /\ Shares(account, pool, amount) \in [Token -> Int]
           /\ \A t \in Token : account[t].state # "active" => Shares(account, pool, amount)[t] = 0
           /\ SumFunctionOnSet(Shares(account, pool, amount), Token) = amount
           /\ SumFunctionOnSet(Shares(account, pool, amount), ActiveTokens(account)) = amount
           /\ \A t \in ActiveTokens(account) :
                 /\ account[t].balance + Shares(account, pool, amount)[t] >= 0
                 /\ amount > 0 => Shares(account, pool, amount)[t] >= 0
                 /\ amount < 0 => Shares(account, pool, amount)[t] <= 0
<1> DEFINE sh == Shares(account, pool, amount)
           A  == ActiveTokens(account)
           a  == Size(amount)
<1>1. pool \in Int /\ pool > 0 /\ account \in [Token -> Account] /\ A # {}
  BY FundedExists DEF Shareable
<1>2. sh \in [Token -> Int] /\ \A t \in Token : account[t].state # "active" => sh[t] = 0
  BY <1>1, SharesType
<1>3. SumFunctionOnSet(sh, A) = amount
  BY SharesSum
<1>4. IsFiniteSet(Token) /\ A \in SUBSET Token
  BY TokenFinite, ActiveFinite
<1>5. \A t \in Token \ A : sh[t] = 0
  BY <1>2 DEF ActiveTokens
<1>6. SumFunctionOnSet(sh, Token) = amount
  <2> HIDE DEF sh, A
  <2> QED BY <1>2, <1>3, <1>4, <1>5, SumSupport
<1>7. ASSUME NEW t \in A
      PROVE  /\ account[t].balance + sh[t] >= 0
             /\ amount > 0 => sh[t] >= 0
             /\ amount < 0 => sh[t] <= 0
  <2> DEFINE p == Part(account, pool, a, t)
             b == account[t].balance
  <2>1. sh[t] = Sign(amount) * p /\ p \in Nat
    BY ShareForm
  <2>2. b \in Nat
    BY FloorsType
  <2>3. CASE amount > 0
    <3>1. Sign(amount) = 1
      BY <2>3, SizeType
    <3> HIDE DEF p, b, sh
    <3>2. sh[t] = p
      BY <2>1, <3>1
    <3> QED BY <2>1, <2>2, <2>3, <3>2 DEF b
  <2>4. CASE amount < 0
    <3>1. Sign(amount) = -1 /\ a = -amount
      BY <2>4, SizeType
    <3>2. a \in Nat /\ a <= pool
      BY <1>1, <2>4, <3>1
    <3>3. p <= b
      BY <3>2, LossIsCovered
    <3> HIDE DEF p, b, sh
    <3>4. sh[t] = -p
      BY <2>1, <3>1
    <3> QED BY <2>1, <2>2, <2>4, <3>3, <3>4 DEF b
  <2> QED BY <2>3, <2>4
<1> QED
  BY <1>2, <1>3, <1>6, <1>7

(* What recordTrade and recordWithdrawal leave on the accounts, whether the *)
(* distribution runs or returns early.                                      *)
LEMMA SpreadWorks ==
    ASSUME NEW account \in [Token -> Account], NEW pool \in Int, pool >= 0,
           SumBalances(account) = pool,
           \A t \in Token : account[t].balance >= 0,
           NEW amount \in Int, amount >= -pool, NEW share,
           share = IF CanDistribute(account, pool, amount) THEN Shares(account, pool, amount) ELSE NoShares
    PROVE  /\ share \in [Token -> Int]
           /\ SumBalances(Credit(account, share)) =
                 IF CanDistribute(account, pool, amount) THEN pool + amount ELSE pool
           /\ CanDistribute(account, pool, amount) => SumFunctionOnSet(share, Token) = amount
           /\ \A t \in Token :
                 /\ account[t].balance \in Int
                 /\ Credit(account, share)[t].balance = account[t].balance + share[t]
                 /\ Credit(account, share)[t].balance >= 0
                 /\ account[t].state # "active" => share[t] = 0
                 /\ amount >= 0 => share[t] >= 0
                 /\ amount <= 0 => share[t] <= 0
<1> DEFINE c == Credit(account, share)
           A == ActiveTokens(account)
<1>1. /\ share \in [Token -> Int]
      /\ \A t \in Token : account[t].state # "active" => share[t] = 0
  BY SpreadType
<1>2. /\ ActiveTokens(c) = A
      /\ c \in [Token -> Account]
  BY <1>1, CreditKeeps
<1>3. \A t \in Token : account[t].balance \in Int /\ share[t] \in Int /\ c[t].balance = account[t].balance + share[t]
  <2> SUFFICES ASSUME NEW t \in Token
               PROVE  account[t].balance \in Int /\ share[t] \in Int /\ c[t].balance = account[t].balance + share[t]
    OBVIOUS
  <2>1. account[t].balance \in Int /\ share[t] \in Int
    BY <1>1 DEF Account
  <2>2. c[t] = Booked(account[t], 0, share[t])
    BY DEF Credit
  <2>3. c[t].balance = account[t].balance + 0 + share[t]
    BY <2>2 DEF Booked
  <2> HIDE DEF c
  <2> QED BY <2>1, <2>3
<1>4. SumBalances(c) = pool + SumFunctionOnSet(share, A)
  <2> DEFINE f == Balances(account)
             g == Balances(c)
  <2>1. \A t \in A : f[t] \in Int /\ share[t] \in Int /\ g[t] = f[t] + share[t]
    BY <1>3, ActiveFinite DEF Balances
  <2>2. SumFunctionOnSet(f, A) = pool /\ SumBalances(c) = SumFunctionOnSet(g, A)
    BY <1>2 DEF SumBalances
  <2>3. IsFiniteSet(A)
    BY ActiveFinite
  <2> HIDE DEF f, g, A, c
  <2> QED BY <2>1, <2>2, <2>3, SumPlus
<1>5. CASE CanDistribute(account, pool, amount)
  <2>1. Shareable(account, pool) /\ amount # 0 /\ share = Shares(account, pool, amount)
    BY <1>5, ActiveFinite DEF CanDistribute, Shareable
  <2>2. /\ SumFunctionOnSet(share, Token) = amount
        /\ SumFunctionOnSet(share, A) = amount
        /\ \A t \in A : /\ account[t].balance + share[t] >= 0
                        /\ amount > 0 => share[t] >= 0
                        /\ amount < 0 => share[t] <= 0
    BY <2>1, SharesWork
  <2>3. \A t \in Token : /\ c[t].balance >= 0
                         /\ amount >= 0 => share[t] >= 0
                         /\ amount <= 0 => share[t] <= 0
    <3> SUFFICES ASSUME NEW t \in Token
                 PROVE  /\ c[t].balance >= 0
                        /\ amount >= 0 => share[t] >= 0
                        /\ amount <= 0 => share[t] <= 0
      OBVIOUS
    <3>1. t \notin A => share[t] = 0
      BY <1>1 DEF ActiveTokens
    <3> HIDE DEF A, c
    <3> QED BY <1>3, <2>1, <2>2, <3>1
  <2> HIDE DEF c
  <2> QED BY <1>1, <1>3, <1>4, <1>5, <2>2, <2>3 DEF c
<1>6. CASE ~ CanDistribute(account, pool, amount)
  <2>1. \A t \in Token : share[t] = 0
    BY <1>6 DEF NoShares
  <2>2. SumFunctionOnSet(share, A) = 0
    BY <2>1, ActiveFinite, SumZero
  <2>3. \A t \in Token : c[t].balance >= 0
    <3> HIDE DEF c
    <3> QED BY <1>3, <2>1
  <2> HIDE DEF c
  <2> QED BY <1>1, <1>3, <1>4, <1>6, <2>1, <2>2, <2>3 DEF c
<1> QED
  BY <1>5, <1>6

(* The books of a fund with money in it can be shared over. *)
LEMMA BooksShareable ==
    ASSUME FundInv, ledger.pool > 0
    PROVE  Shareable(ledger.account, ledger.pool)
<1>1. ledger.account \in [Token -> Account] /\ ledger.pool \in Int
  BY LedgerFields DEF FundInv, Kept
<1> QED
  BY <1>1, ActiveFinite DEF FundInv, Checked, ChecksHold, InvariantsHold, Shareable

(* A larger balance gets the larger part. *)
LEMMA PartsAreOrdered ==
    ASSUME NEW account, NEW pool, Shareable(account, pool), NEW a \in Nat,
           NEW t \in ActiveTokens(account), NEW u \in ActiveTokens(account),
           account[t].balance > account[u].balance
    PROVE  Part(account, pool, a, t) >= Part(account, pool, a, u)
<1> DEFINE b  == account[t].balance
           bu == account[u].balance
           q  == Floors(account, pool, a)[t]
           qu == Floors(account, pool, a)[u]
           e  == Extra(account, pool, a, t)
           eu == Extra(account, pool, a, u)
           r  == Over(account, pool, a)
           k  == Rank(account, t)
           ku == Rank(account, u)
<1>1. pool \in Int /\ pool > 0 /\ account \in [Token -> Account]
  BY DEF Shareable
<1>2. /\ b \in Nat /\ q \in Nat /\ b * a < pool * q + pool
      /\ bu \in Nat /\ qu \in Nat /\ pool * qu <= bu * a
  BY FloorsType
<1>3. k < ku /\ k \in Int /\ ku \in Int /\ r \in Int
  <2>1. k < ku
    BY <1>1, BeforeRanksLower DEF Before
  <2>2. k \in Int /\ ku \in Int
    BY <1>1, RankRange
  <2> QED BY <2>1, <2>2, OverRange
<1>4. e = (IF k < r THEN 1 ELSE 0) /\ eu = (IF ku < r THEN 1 ELSE 0)
  BY DEF Extra
<1>5. b > bu
  OBVIOUS
<1> HIDE DEF b, bu, q, qu, e, eu, r, k, ku
<1>6. bu * a <= b * a
  <2>1. (b - bu) * a \in Nat
    BY <1>2, <1>5
  <2>2. (b - bu) * a = b * a - bu * a /\ b * a \in Int /\ bu * a \in Int
    BY <1>2
  <2> QED BY <2>1, <2>2
<1>7. pool * qu < pool * (q + 1)
  <2>1. pool * (q + 1) = pool * q + pool /\ pool * q \in Int /\ pool * qu \in Int /\ b * a \in Int /\ bu * a \in Int
    BY <1>1, <1>2
  <2> QED BY <1>1, <1>2, <1>6, <2>1
<1>8. qu < q + 1
  BY <1>1, <1>2, <1>7, ScaledStrictly
<1>9. q + e >= qu + eu
  BY <1>2, <1>3, <1>4, <1>8
<1> QED
  BY <1>9 DEF Part, q, qu, e, eu

(* Every part is within a cent of the exact proportion. *)
LEMMA PartsAreClose ==
    ASSUME NEW account, NEW pool, Shareable(account, pool), NEW a \in Nat,
           NEW t \in ActiveTokens(account)
    PROVE  Part(account, pool, a, t) * pool - account[t].balance * a \in -pool + 1 .. pool
<1> DEFINE b == account[t].balance
           q == Floors(account, pool, a)[t]
           e == Extra(account, pool, a, t)
<1>1. pool \in Int /\ pool > 0
  BY DEF Shareable
<1>2. b \in Nat /\ q \in Nat /\ pool * q <= b * a /\ b * a < pool * q + pool
  BY FloorsType
<1>3. e \in {0, 1} /\ Part(account, pool, a, t) = q + e
  BY DEF Extra, Part
<1> HIDE DEF b, q, e
<1>4. pool * q \in Int /\ b * a \in Int
  BY <1>1, <1>2
<1>5. (q + e) * pool = pool * q + (IF e = 1 THEN pool ELSE 0)
  <2>1. CASE e = 0
    BY <1>1, <1>2, <2>1
  <2>2. CASE e = 1
    <3>1. (q + 1) * pool = pool * q + pool
      BY <1>1, <1>2
    <3> QED BY <2>2, <3>1
  <2> QED BY <1>3, <2>1, <2>2
<1>6. (q + e) * pool - b * a \in -pool + 1 .. pool
  BY <1>1, <1>2, <1>4, <1>5
<1> QED
  BY <1>3, <1>6 DEF b

(* The invariant makes every distribution fair. *)
LEMMA InvFair == FundInv => SharesAreFair
<1> SUFFICES ASSUME FundInv, NEW pnl \in PnLs, CanDistribute(ledger.account, ledger.pool, pnl),
                    NEW t \in ActiveTokens(ledger.account), NEW u \in ActiveTokens(ledger.account)
             PROVE  LET balance == Balances(ledger.account)
                        share   == Shares(ledger.account, ledger.pool, pnl)
                        part(v) == Sign(pnl) * share[v]
                    IN  /\ balance[t] > balance[u] => part(t) >= part(u)
                        /\ part(t) * ledger.pool - balance[t] * Sign(pnl) * pnl
                               \in -ledger.pool + 1 .. ledger.pool
                        /\ balance[t] = 0 => part(t) = 0
  BY DEF SharesAreFair
<1> DEFINE account == ledger.account
           pool    == ledger.pool
           a       == Size(pnl)
           b       == account[t].balance
<1>1. pnl \in Int
  BY AmountsAssumption
<1>2. pool \in Int /\ pool > 0
  BY LedgerFields DEF FundInv, Kept, Checked, ChecksHold, CanDistribute
<1>3. Shareable(account, pool)
  BY <1>2, BooksShareable
<1>4. a \in Nat /\ Sign(pnl) \in {1, -1} /\ a = Sign(pnl) * pnl
  BY <1>1, SizeType DEF Size
<1>5. Balances(account)[t] = b /\ Balances(account)[u] = account[u].balance /\ b \in Nat
  BY <1>3, <1>4, ActiveFinite, FloorsType DEF Balances
<1> HIDE DEF account, pool, a, b
<1>6. ASSUME NEW v \in ActiveTokens(account)
      PROVE  Sign(pnl) * Shares(account, pool, pnl)[v] = Part(account, pool, a, v)
  <2> DEFINE p == Part(account, pool, a, v)
  <2>1. Shares(account, pool, pnl)[v] = Sign(pnl) * p /\ p \in Nat
    BY <1>1, <1>3, ShareForm DEF a
  <2> HIDE DEF p
  <2>2. Sign(pnl) * (Sign(pnl) * p) = p
    BY <1>4, <2>1
  <2> QED BY <2>1, <2>2 DEF p
<1>7. t \in ActiveTokens(account) /\ u \in ActiveTokens(account)
  BY DEF account
<1>8. b * Sign(pnl) * pnl = b * a
  BY <1>1, <1>4, <1>5
<1>9. b > account[u].balance => Part(account, pool, a, t) >= Part(account, pool, a, u)
  BY <1>3, <1>4, <1>7, PartsAreOrdered DEF b
<1>10. Part(account, pool, a, t) * pool - b * a \in -pool + 1 .. pool
  BY <1>3, <1>4, <1>7, PartsAreClose DEF b
<1>11. b = 0 => Part(account, pool, a, t) = 0
  BY <1>3, <1>4, <1>7, EmptyGetsNothing DEF b
<1> QED
  BY <1>5, <1>6, <1>7, <1>8, <1>9, <1>10, <1>11 DEF account, pool

-----------------------------------------------------------------------------
(* What the invariant lets commit *)

(* A transaction commits when its tables pass the checks. *)
LEMMA CheckedCommits ==
    ASSUME NEW l
    PROVE  Outcome(l) = "ok" <=> Checked(l)
BY DEF Outcome, Checked

(* What the invariant says of the rows. *)
LEMMA CheckedRows ==
    ASSUME FundInv
    PROVE  /\ ledger \in Ledger
           /\ ledger.account \in [Token -> Account]
           /\ ledger.withdrawal \in [Token -> Withdrawal]
           /\ ledger.pool \in Int /\ ledger.pool >= 0
           /\ ledger.nftsActive \in Int /\ ledger.nftsActive >= 0
           /\ ledger.nftsActive = Cardinality(ActiveTokens(ledger.account))
           /\ SumBalances(ledger.account) = ledger.pool
           /\ \A t \in Token :
                 /\ ledger.account[t] \in Account
                 /\ ledger.account[t].deposit \in Int /\ ledger.account[t].pnl \in Int
                 /\ ledger.account[t].balance \in Int /\ ledger.account[t].balance >= 0
                 /\ ledger.account[t].state # "absent" => ledger.account[t].deposit > 0
                 /\ ledger.account[t].state = "withdrawn" =>
                       /\ ledger.withdrawal[t].amount > 0
                       /\ ledger.withdrawal[t].fee >= 0
                       /\ ledger.withdrawal[t].net >= 0
                 /\ ledger.account[t].state = "active" =>
                       ledger.account[t].balance = ledger.account[t].deposit + ledger.account[t].pnl
           /\ ledger.trades \in Seq(Trade)
           /\ \A i \in DOMAIN ledger.trades : SumFunctionOnSet(ledger.trades[i].share, Token) = ledger.trades[i].pnl
<1>1. ledger \in Ledger /\ Checked(ledger) /\ ledger.nftsActive = Cardinality(ActiveTokens(ledger.account))
  BY DEF FundInv, Kept
<1>2. /\ ledger.account \in [Token -> Account]
      /\ ledger.withdrawal \in [Token -> Withdrawal]
      /\ ledger.pool \in Int /\ ledger.nftsActive \in Int /\ ledger.trades \in Seq(Trade)
  BY <1>1, LedgerFields
<1>3. \A t \in Token : /\ ledger.account[t] \in Account
                       /\ ledger.account[t].deposit \in Int /\ ledger.account[t].pnl \in Int
                       /\ ledger.account[t].balance \in Int
  BY <1>2 DEF Account
<1>4. ChecksHold(ledger)
  BY <1>1 DEF Checked
<1>5. InvariantsHold(ledger)
  BY <1>1 DEF Checked
<1>6. \A t \in Token : ledger.account[t].state = "active" =>
         ledger.account[t].balance = ledger.account[t].deposit + ledger.account[t].pnl
  BY <1>5 DEF InvariantsHold, ActiveTokens
<1>7. /\ SumBalances(ledger.account) = ledger.pool
      /\ \A i \in DOMAIN ledger.trades : SumFunctionOnSet(ledger.trades[i].share, Token) = ledger.trades[i].pnl
  BY <1>5 DEF InvariantsHold
<1> QED
  BY <1>1, <1>2, <1>3, <1>4, <1>6, <1>7 DEF ChecksHold

(* A trade commits when the pool covers its loss. *)
LEMMA TradeCommits ==
    ASSUME FundInv, NEW pnl \in Int, ledger.pool > 0, pnl >= -ledger.pool
    PROVE  Checked(AfterTrade(pnl))
<1> DEFINE account == ledger.account
           pool    == ledger.pool
           spread  == CanDistribute(account, pool, pnl)
           share   == IF spread THEN Shares(account, pool, pnl) ELSE NoShares
           trade   == [pnl |-> pnl, share |-> share]
           after   == Credit(account, share)
           k       == AfterTrade(pnl)
<1>1. /\ k.account = after
      /\ k.pool = IF spread THEN pool + pnl ELSE pool
      /\ k.nftsActive = ledger.nftsActive
      /\ k.trades = Append(ledger.trades, trade)
      /\ k.withdrawal = ledger.withdrawal
  BY DEF AfterTrade
<1>2. /\ account \in [Token -> Account] /\ pool \in Int /\ pool > 0
      /\ SumBalances(account) = pool
      /\ \A t \in Token : account[t].balance >= 0
  BY CheckedRows
<1>3. /\ share \in [Token -> Int]
      /\ SumBalances(after) = IF spread THEN pool + pnl ELSE pool
      /\ spread => SumFunctionOnSet(share, Token) = pnl
      /\ \A t \in Token :
            /\ account[t].balance \in Int
            /\ after[t].balance = account[t].balance + share[t]
            /\ after[t].balance >= 0
            /\ account[t].state # "active" => share[t] = 0
  <2> DEFINE s == share
  <2>1. s = IF CanDistribute(account, pool, pnl) THEN Shares(account, pool, pnl) ELSE NoShares
    OBVIOUS
  <2>2. pool >= 0 /\ pnl >= -pool
    BY <1>2
  <2> HIDE DEF s
  <2>3. /\ s \in [Token -> Int]
        /\ SumBalances(Credit(account, s)) = IF CanDistribute(account, pool, pnl) THEN pool + pnl ELSE pool
        /\ CanDistribute(account, pool, pnl) => SumFunctionOnSet(s, Token) = pnl
        /\ \A t \in Token :
              /\ account[t].balance \in Int
              /\ Credit(account, s)[t].balance = account[t].balance + s[t]
              /\ Credit(account, s)[t].balance >= 0
              /\ account[t].state # "active" => s[t] = 0
    <3> HIDE DEF account, pool
    <3> QED BY <1>2, <2>1, <2>2, SpreadWorks
  <2> QED BY <2>3 DEF s
<1>4. spread <=> pnl # 0
  BY <1>2, BooksShareable, FundedExists DEF CanDistribute
<1>5. SumFunctionOnSet(share, Token) = pnl
  <2>1. CASE spread
    BY <1>3, <2>1
  <2>2. CASE ~ spread
    <3>1. \A t \in Token : NoShares[t] = 0
      BY DEF NoShares
    <3>2. SumFunctionOnSet(NoShares, Token) = 0
      BY <3>1, TokenFinite, SumZero
    <3> QED BY <1>4, <2>2, <3>2
  <2> QED BY <2>1, <2>2
<1>6. /\ ActiveTokens(after) = ActiveTokens(account)
      /\ \A t \in Token :
           /\ after[t].state = account[t].state
           /\ after[t].deposit = account[t].deposit
           /\ after[t].pnl = account[t].pnl + share[t]
  BY <1>2, <1>3, CreditKeeps
<1>7. trade.share = share /\ trade.pnl = pnl
  OBVIOUS
<1> HIDE DEF k, trade, after, share, spread
<1>8. ChecksHold(k)
  <2>1. \A t \in Token : /\ k.account[t].balance >= 0
                         /\ k.account[t].state # "absent" => k.account[t].deposit > 0
                         /\ k.account[t].state = "withdrawn" => /\ k.withdrawal[t].amount > 0
                                                                /\ k.withdrawal[t].fee >= 0
                                                                /\ k.withdrawal[t].net >= 0
    BY <1>1, <1>3, <1>6, CheckedRows DEF account
  <2>2. k.pool >= 0 /\ k.nftsActive >= 0
    BY <1>1, <1>2, CheckedRows DEF pool
  <2> QED BY <2>1, <2>2 DEF ChecksHold
<1>9. InvariantsHold(k)
  <2>1. SumBalances(k.account) = k.pool
    BY <1>1, <1>3
  <2>2. \A t \in ActiveTokens(k.account) : k.account[t].balance = k.account[t].deposit + k.account[t].pnl
    <3> SUFFICES ASSUME NEW t \in ActiveTokens(k.account)
                 PROVE  k.account[t].balance = k.account[t].deposit + k.account[t].pnl
      OBVIOUS
    <3>1. t \in Token /\ account[t].state = "active"
      BY <1>1, <1>6 DEF ActiveTokens
    <3>2. account[t].balance = account[t].deposit + account[t].pnl /\ account[t].deposit \in Int /\ account[t].pnl \in Int
      BY <3>1, CheckedRows DEF account
    <3>3. share[t] \in Int
      BY <1>3, <3>1
    <3> QED BY <1>1, <1>3, <1>6, <3>1, <3>2, <3>3
  <2>3. \A i \in DOMAIN k.trades : SumFunctionOnSet(k.trades[i].share, Token) = k.trades[i].pnl
    <3> DEFINE n == Len(ledger.trades)
    <3>1. ledger.trades \in Seq(Trade)
      BY CheckedRows
    <3>2. DOMAIN k.trades = 1 .. n + 1 /\ n \in Nat /\ DOMAIN ledger.trades = 1 .. n
      BY <1>1, <3>1
    <3>3. k.trades[n + 1] = trade /\ \A i \in 1 .. n : k.trades[i] = ledger.trades[i]
      BY <1>1, <3>1
    <3>4. \A i \in 1 .. n : SumFunctionOnSet(k.trades[i].share, Token) = k.trades[i].pnl
      BY <3>2, <3>3, CheckedRows
    <3>5. SumFunctionOnSet(k.trades[n + 1].share, Token) = k.trades[n + 1].pnl
      BY <1>5, <1>7, <3>3
    <3> HIDE DEF n
    <3>6. \A i \in DOMAIN k.trades : i \in 1 .. n \/ i = n + 1
      BY <3>2
    <3> QED BY <3>4, <3>5, <3>6
  <2> QED BY <2>1, <2>2, <2>3 DEF InvariantsHold
<1> QED
  BY <1>8, <1>9 DEF Checked, k

(* A row with more money in it. *)
LEMMA SumBalancesChange ==
    ASSUME NEW account \in [Token -> Account], NEW after \in [Token -> Account], NEW t \in Token,
           ActiveTokens(after) = ActiveTokens(account), t \in ActiveTokens(account),
           \A u \in Token \ {t} : after[u] = account[u]
    PROVE  SumBalances(after) = SumBalances(account) + after[t].balance - account[t].balance
<1> DEFINE A == ActiveTokens(account)
           f == Balances(account)
           g == Balances(after)
<1>1. A \subseteq Token /\ IsFiniteSet(A) /\ t \in A
  BY ActiveFinite
<1>2. /\ \A u \in A : f[u] \in Int /\ g[u] \in Int
      /\ \A u \in A \ {t} : g[u] = f[u]
      /\ f[t] = account[t].balance /\ g[t] = after[t].balance
  BY <1>1 DEF Balances, Account
<1>3. SumBalances(account) = SumFunctionOnSet(f, A) /\ SumBalances(after) = SumFunctionOnSet(g, A)
  BY DEF SumBalances
<1>4. SumFunctionOnSet(g, A) = SumFunctionOnSet(f, A) + g[t] - f[t]
  <2> HIDE DEF A, f, g
  <2> QED BY <1>1, <1>2, SumChangeOne
<1> HIDE DEF A, f, g
<1> QED
  BY <1>2, <1>3, <1>4

(* An addition commits. *)
LEMMA AddFundsCommits ==
    ASSUME FundInv, NEW t \in ActiveTokens(ledger.account), NEW amount \in Int, amount > 0
    PROVE  Checked(AfterAddFunds(t, amount))
<1> DEFINE row == ledger.account[t]
           after == [ledger.account EXCEPT ![t] = Booked(row, amount, 0)]
           k == AfterAddFunds(t, amount)
<1>1. /\ k.account = after
      /\ k.pool = ledger.pool + amount
      /\ k.nftsActive = ledger.nftsActive
      /\ k.trades = ledger.trades
      /\ k.withdrawal = ledger.withdrawal
  BY DEF AfterAddFunds
<1>2. t \in Token /\ row.state = "active" /\ row \in Account
  BY CheckedRows DEF ActiveTokens
<1>3. /\ row.deposit \in Int /\ row.balance \in Int /\ row.pnl \in Int
      /\ row.balance = row.deposit + row.pnl /\ row.balance >= 0 /\ row.deposit > 0
  BY <1>2, CheckedRows
<1>4. /\ after[t].state = "active"
      /\ after[t].deposit = row.deposit + amount
      /\ after[t].balance = row.balance + amount
      /\ after[t].pnl = row.pnl
  <2>1. after[t] = Booked(row, amount, 0)
    BY <1>2, CheckedRows
  <2>2. row.balance + amount + 0 = row.balance + amount /\ row.pnl + 0 = row.pnl
    BY <1>3
  <2> HIDE DEF after, row
  <2> QED BY <1>2, <2>1, <2>2 DEF Booked
<1>5. /\ after \in [Token -> Account]
      /\ \A u \in Token \ {t} : after[u] = ledger.account[u]
  <2>1. Booked(row, amount, 0) \in Account
    BY <1>2, BookedRow
  <2> QED BY <2>1, CheckedRows
<1> HIDE DEF k, after
<1>6. ActiveTokens(after) = ActiveTokens(ledger.account)
  BY <1>2, <1>4, <1>5 DEF ActiveTokens
<1>7. ChecksHold(k)
  <2>1. ASSUME NEW u \in Token
        PROVE  /\ k.account[u].balance >= 0
               /\ k.account[u].state # "absent" => k.account[u].deposit > 0
               /\ k.account[u].state = "withdrawn" => /\ k.withdrawal[u].amount > 0
                                                      /\ k.withdrawal[u].fee >= 0
                                                      /\ k.withdrawal[u].net >= 0
    <3>1. CASE u = t
      <4> HIDE DEF row
      <4> QED BY <1>1, <1>3, <1>4, <3>1
    <3>2. CASE u # t
      BY <1>1, <1>5, <3>2, CheckedRows
    <3> QED BY <3>1, <3>2
  <2>2. k.pool >= 0 /\ k.nftsActive >= 0
    BY <1>1, CheckedRows
  <2> QED BY <2>1, <2>2 DEF ChecksHold
<1>8. InvariantsHold(k)
  <2>1. SumBalances(after) = SumBalances(ledger.account) + after[t].balance - row.balance
    BY <1>2, <1>5, <1>6, CheckedRows, SumBalancesChange
  <2>2. SumBalances(k.account) = k.pool
    <3>1. SumBalances(ledger.account) = ledger.pool /\ ledger.pool \in Int
      BY CheckedRows
    <3> HIDE DEF row
    <3> QED BY <1>1, <1>3, <1>4, <2>1, <3>1
  <2>3. ASSUME NEW u \in ActiveTokens(k.account)
        PROVE  k.account[u].balance = k.account[u].deposit + k.account[u].pnl
    <3>1. u \in Token /\ u \in ActiveTokens(ledger.account)
      BY <1>1, <1>6 DEF ActiveTokens
    <3>2. CASE u = t
      <4> HIDE DEF row
      <4> QED BY <1>1, <1>3, <1>4, <3>2
    <3>3. CASE u # t
      BY <1>1, <1>5, <3>1, <3>3, CheckedRows DEF ActiveTokens
    <3> QED BY <3>2, <3>3
  <2>4. \A i \in DOMAIN k.trades : SumFunctionOnSet(k.trades[i].share, Token) = k.trades[i].pnl
    BY <1>1, CheckedRows
  <2> QED BY <2>2, <2>3, <2>4 DEF InvariantsHold
<1> QED
  BY <1>7, <1>8 DEF Checked, k

(* So does the first deposit of a new account. *)
LEMMA CreateCommits ==
    ASSUME FundInv, NEW t \in Token, ledger.account[t].state = "absent", NEW deposit \in Int, deposit > 0
    PROVE  Checked(AfterCreate(t, deposit))
<1> DEFINE row   == [state |-> "active", deposit |-> deposit, balance |-> deposit, pnl |-> 0]
           after == [ledger.account EXCEPT ![t] = row]
           A     == ActiveTokens(ledger.account)
           k     == AfterCreate(t, deposit)
<1>1. /\ k.account = after
      /\ k.pool = ledger.pool + deposit
      /\ k.nftsActive = ledger.nftsActive + 1
      /\ k.trades = ledger.trades
      /\ k.withdrawal = ledger.withdrawal
  BY DEF AfterCreate
<1>2. /\ after[t].state = "active"
      /\ after[t].deposit = deposit
      /\ after[t].balance = deposit
      /\ after[t].pnl = 0
      /\ \A u \in Token \ {t} : after[u] = ledger.account[u]
  BY CheckedRows
<1> HIDE DEF k, after
<1>3. ActiveTokens(after) = A \cup {t} /\ t \notin A
  BY <1>2 DEF ActiveTokens
<1>4. ChecksHold(k)
  <2>1. ASSUME NEW u \in Token
        PROVE  /\ k.account[u].balance >= 0
               /\ k.account[u].state # "absent" => k.account[u].deposit > 0
               /\ k.account[u].state = "withdrawn" => /\ k.withdrawal[u].amount > 0
                                                      /\ k.withdrawal[u].fee >= 0
                                                      /\ k.withdrawal[u].net >= 0
    <3>1. CASE u = t
      BY <1>1, <1>2, <3>1
    <3>2. CASE u # t
      BY <1>1, <1>2, <3>2, CheckedRows
    <3> QED BY <3>1, <3>2
  <2>2. k.pool >= 0 /\ k.nftsActive >= 0
    BY <1>1, CheckedRows
  <2> QED BY <2>1, <2>2 DEF ChecksHold
<1>5. InvariantsHold(k)
  <2>1. SumBalances(after) = deposit + SumBalances(ledger.account)
    <3> DEFINE f == Balances(ledger.account)
               g == Balances(after)
    <3>1. A \subseteq Token /\ IsFiniteSet(A)
      BY ActiveFinite
    <3>2. /\ \A u \in A : f[u] \in Int /\ g[u] = f[u]
          /\ g[t] = deposit
      BY <1>2, <1>3, <3>1, CheckedRows DEF Balances
    <3>3. SumBalances(ledger.account) = SumFunctionOnSet(f, A) /\ SumBalances(after) = SumFunctionOnSet(g, A \cup {t})
      BY <1>3 DEF SumBalances
    <3> HIDE DEF A, f, g
    <3>4. SumFunctionOnSet(g, A) = SumFunctionOnSet(f, A)
      BY <3>1, <3>2, SumExt
    <3>5. \A u \in A \cup {t} : g[u] \in Int
      BY <3>2
    <3>6. SumFunctionOnSet(g, A \cup {t}) = g[t] + SumFunctionOnSet(g, A)
      BY <1>3, <3>1, <3>5, SumAdd
    <3> QED BY <3>2, <3>3, <3>4, <3>6
  <2>2. SumBalances(k.account) = k.pool
    BY <1>1, <2>1, CheckedRows
  <2>3. ASSUME NEW u \in ActiveTokens(k.account)
        PROVE  k.account[u].balance = k.account[u].deposit + k.account[u].pnl
    <3>1. CASE u = t
      BY <1>1, <1>2, <3>1
    <3>2. CASE u # t
      <4>1. u \in Token /\ k.account[u] = ledger.account[u] /\ ledger.account[u].state = "active"
        BY <1>1, <1>2, <3>2 DEF ActiveTokens
      <4> QED BY <4>1, CheckedRows
    <3> QED BY <3>1, <3>2
  <2>4. \A i \in DOMAIN k.trades : SumFunctionOnSet(k.trades[i].share, Token) = k.trades[i].pnl
    BY <1>1, CheckedRows
  <2> QED BY <2>2, <2>3, <2>4 DEF InvariantsHold
<1> QED
  BY <1>4, <1>5 DEF Checked, k

(* The fee is a part of the balance. *)
LEMMA FeeRange ==
    ASSUME NEW balance \in Nat
    PROVE  /\ WithdrawalFee(balance) \in Nat
           /\ WithdrawalFee(balance) <= balance
           /\ balance > 0 => WithdrawalFee(balance) < balance
<1>1. WithdrawalFee(balance) = (balance * 2) \div 100
  BY DEF WithdrawalFee, Trunc
<1> QED
  BY <1>1

(* Closing one account takes its balance out of the pool. *)
LEMMA ClosedBalances ==
    ASSUME FundInv, NEW t \in ActiveTokens(ledger.account), NEW closed,
           closed = [ledger.account EXCEPT ![t] = Closed(@)]
    PROVE  /\ closed \in [Token -> Account]
           /\ t \in Token
           /\ closed[t] = Closed(ledger.account[t])
           /\ closed[t].state = "withdrawn" /\ closed[t].balance = 0
           /\ closed[t].deposit = ledger.account[t].deposit
           /\ \A u \in Token \ {t} : closed[u] = ledger.account[u]
           /\ ActiveTokens(closed) = ActiveTokens(ledger.account) \ {t}
           /\ ledger.account[t].balance \in Nat
           /\ SumBalances(closed) = ledger.pool - ledger.account[t].balance
           /\ ledger.pool - ledger.account[t].balance >= 0
           /\ \A u \in Token : closed[u].balance >= 0
<1> DEFINE A == ActiveTokens(ledger.account)
           f == Balances(ledger.account)
           g == Balances(closed)
<1>1. t \in Token /\ ledger.account[t].state = "active" /\ ledger.account[t] \in Account
  BY CheckedRows DEF ActiveTokens
<1>2. /\ closed \in [Token -> Account]
      /\ closed[t] = Closed(ledger.account[t])
      /\ \A u \in Token \ {t} : closed[u] = ledger.account[u]
  BY <1>1, ClosedRow, CheckedRows
<1>3. closed[t].state = "withdrawn" /\ closed[t].balance = 0 /\ closed[t].deposit = ledger.account[t].deposit
  BY <1>2 DEF Closed
<1>4. ActiveTokens(closed) = A \ {t}
  BY <1>1, <1>2, <1>3 DEF ActiveTokens
<1>5. ledger.account[t].balance \in Nat
  BY <1>1, CheckedRows
<1>6. A \subseteq Token /\ IsFiniteSet(A) /\ IsFiniteSet(A \ {t}) /\ t \in A
  BY ActiveFinite, FS_Subset
<1>7. /\ \A u \in A : f[u] \in Int
      /\ \A u \in A \ {t} : f[u] \in Int /\ g[u] = f[u]
      /\ f[t] = ledger.account[t].balance
  BY <1>1, <1>2, <1>6, CheckedRows DEF Balances
<1>8. SumBalances(ledger.account) = SumFunctionOnSet(f, A) /\ SumBalances(closed) = SumFunctionOnSet(g, A \ {t})
  BY <1>4 DEF SumBalances
<1>9. SumBalances(closed) = ledger.pool - ledger.account[t].balance
  <2> HIDE DEF A, f, g
  <2>1. SumFunctionOnSet(g, A \ {t}) = SumFunctionOnSet(f, A \ {t})
    BY <1>6, <1>7, SumExt
  <2>2. SumFunctionOnSet(f, A) = f[t] + SumFunctionOnSet(f, A \ {t})
    BY <1>6, <1>7, SumRemove
  <2>3. SumFunctionOnSet(f, A \ {t}) \in Int
    BY <1>6, <1>7, SumType
  <2>4. SumBalances(ledger.account) = ledger.pool
    BY CheckedRows
  <2> QED BY <1>5, <1>7, <1>8, <2>1, <2>2, <2>3, <2>4
<1>10. ledger.pool - ledger.account[t].balance >= 0
  BY BalanceInPool
<1>11. \A u \in Token : closed[u].balance >= 0
  <2> SUFFICES ASSUME NEW u \in Token PROVE closed[u].balance >= 0
    OBVIOUS
  <2>1. CASE u = t
    BY <1>3, <2>1
  <2>2. CASE u # t
    BY <1>2, <2>2, CheckedRows
  <2> QED BY <2>1, <2>2
<1> QED
  BY <1>1, <1>2, <1>3, <1>4, <1>5, <1>9, <1>10, <1>11

(* What a withdrawal leaves on the accounts. *)
LEMMA WithdrawalLeaves ==
    ASSUME FundInv, NEW t \in ActiveTokens(ledger.account)
    PROVE  LET balance == ledger.account[t].balance
               fee     == WithdrawalFee(balance)
               closed  == [ledger.account EXCEPT ![t] = Closed(@)]
               left    == ledger.pool - balance
               spread  == CanDistribute(closed, left, fee)
               share   == IF spread THEN Shares(closed, left, fee) ELSE NoShares
               k       == AfterWithdrawal(t)
           IN  /\ k.account = Credit(closed, share)
               /\ k.pool = IF spread THEN left + fee ELSE left
               /\ k.nftsActive = ledger.nftsActive - 1
               /\ k.trades = ledger.trades
               /\ k.withdrawal = [ledger.withdrawal EXCEPT ![t] = [amount |-> balance, fee |-> fee, net |-> balance - fee]]
               /\ left \in Nat /\ fee \in Nat
               /\ SumBalances(k.account) = k.pool
               /\ ActiveTokens(k.account) = ActiveTokens(ledger.account) \ {t}
               /\ \A u \in Token :
                     /\ share[u] \in Nat
                     /\ closed[u].state # "active" => share[u] = 0
                     /\ k.account[u].balance = closed[u].balance + share[u]
                     /\ k.account[u].pnl = closed[u].pnl + share[u]
                     /\ k.account[u].deposit = closed[u].deposit
                     /\ k.account[u].state = closed[u].state
<1> DEFINE balance == ledger.account[t].balance
           fee     == WithdrawalFee(balance)
           closed  == [ledger.account EXCEPT ![t] = Closed(@)]
           left    == ledger.pool - balance
           spread  == CanDistribute(closed, left, fee)
           share   == IF spread THEN Shares(closed, left, fee) ELSE NoShares
           k       == AfterWithdrawal(t)
<1>1. /\ k.account = Credit(closed, share)
      /\ k.pool = IF spread THEN left + fee ELSE left
      /\ k.nftsActive = ledger.nftsActive - 1
      /\ k.trades = ledger.trades
      /\ k.withdrawal = [ledger.withdrawal EXCEPT ![t] = [amount |-> balance, fee |-> fee, net |-> balance - fee]]
  BY DEF AfterWithdrawal
<1>2. /\ closed \in [Token -> Account]
      /\ ActiveTokens(closed) = ActiveTokens(ledger.account) \ {t}
      /\ balance \in Nat
      /\ SumBalances(closed) = left
      /\ left \in Int /\ left >= 0
      /\ \A u \in Token : closed[u].balance >= 0
  <2>1. closed = [ledger.account EXCEPT ![t] = Closed(@)]
    OBVIOUS
  <2> HIDE DEF closed
  <2> QED BY <2>1, ClosedBalances, CheckedRows
<1> HIDE DEF balance
<1>3. fee \in Nat
  BY <1>2, FeeRange
<1>4. share = IF CanDistribute(closed, left, fee) THEN Shares(closed, left, fee) ELSE NoShares
  OBVIOUS
<1> HIDE DEF closed, left, fee, share, k
<1>5. /\ share \in [Token -> Int]
      /\ SumBalances(Credit(closed, share)) = IF CanDistribute(closed, left, fee) THEN left + fee ELSE left
      /\ \A u \in Token :
            /\ closed[u].balance \in Int
            /\ Credit(closed, share)[u].balance = closed[u].balance + share[u]
            /\ closed[u].state # "active" => share[u] = 0
            /\ share[u] >= 0
  <2>1. fee \in Int /\ fee >= -left /\ fee >= 0
    BY <1>2, <1>3
  <2> QED BY <1>2, <1>4, <2>1, SpreadWorks
<1>6. /\ ActiveTokens(Credit(closed, share)) = ActiveTokens(closed)
      /\ \A u \in Token :
           /\ Credit(closed, share)[u].state = closed[u].state
           /\ Credit(closed, share)[u].deposit = closed[u].deposit
           /\ Credit(closed, share)[u].pnl = closed[u].pnl + share[u]
  BY <1>2, <1>5, CreditKeeps
<1>7. \A u \in Token : share[u] \in Nat
  BY <1>5
<1>8. SumBalances(k.account) = k.pool
  BY <1>1, <1>5
<1>9. ActiveTokens(k.account) = ActiveTokens(ledger.account) \ {t}
  BY <1>1, <1>2, <1>6
<1>10. \A u \in Token :
                     /\ share[u] \in Nat
                     /\ closed[u].state # "active" => share[u] = 0
                     /\ k.account[u].balance = closed[u].balance + share[u]
                     /\ k.account[u].pnl = closed[u].pnl + share[u]
                     /\ k.account[u].deposit = closed[u].deposit
                     /\ k.account[u].state = closed[u].state
  BY <1>1, <1>5, <1>6, <1>7
<1>11. left \in Nat
  BY <1>2
<1> HIDE DEF spread
<1> QED
  BY <1>1, <1>3, <1>8, <1>9, <1>10, <1>11 DEF balance, closed, left, fee, share, k, spread

(* The withdrawal of an account that is worth something commits. *)
LEMMA WithdrawalCommits ==
    ASSUME FundInv, NEW t \in ActiveTokens(ledger.account), ledger.account[t].balance > 0
    PROVE  Checked(AfterWithdrawal(t))
<1> DEFINE balance == ledger.account[t].balance
           fee     == WithdrawalFee(balance)
           closed  == [ledger.account EXCEPT ![t] = Closed(@)]
           left    == ledger.pool - balance
           spread  == CanDistribute(closed, left, fee)
           share   == IF spread THEN Shares(closed, left, fee) ELSE NoShares
           paid    == [amount |-> balance, fee |-> fee, net |-> balance - fee]
           k       == AfterWithdrawal(t)
<1>1. /\ k.pool = IF spread THEN left + fee ELSE left
      /\ k.nftsActive = ledger.nftsActive - 1
      /\ k.trades = ledger.trades
      /\ k.withdrawal = [ledger.withdrawal EXCEPT ![t] = paid]
      /\ left \in Nat /\ fee \in Nat
      /\ SumBalances(k.account) = k.pool
      /\ ActiveTokens(k.account) = ActiveTokens(ledger.account) \ {t}
      /\ \A u \in Token :
            /\ share[u] \in Nat
            /\ closed[u].state # "active" => share[u] = 0
            /\ k.account[u].balance = closed[u].balance + share[u]
            /\ k.account[u].pnl = closed[u].pnl + share[u]
            /\ k.account[u].deposit = closed[u].deposit
            /\ k.account[u].state = closed[u].state
  BY WithdrawalLeaves
<1>2. /\ t \in Token
      /\ closed[t].state = "withdrawn" /\ closed[t].balance = 0
      /\ closed[t].deposit = ledger.account[t].deposit
      /\ \A u \in Token \ {t} : closed[u] = ledger.account[u]
      /\ balance \in Nat
  <2>1. closed = [ledger.account EXCEPT ![t] = Closed(@)]
    OBVIOUS
  <2> HIDE DEF closed
  <2> QED BY <2>1, ClosedBalances
<1>3. balance > 0
  OBVIOUS
<1> HIDE DEF closed, left, spread, share, k, balance
<1>4. paid.amount > 0 /\ paid.fee >= 0 /\ paid.net >= 0
  BY <1>2, <1>3, FeeRange
<1>5. k.withdrawal[t] = paid /\ \A u \in Token \ {t} : k.withdrawal[u] = ledger.withdrawal[u]
  BY <1>1, <1>2, CheckedRows
<1> HIDE DEF paid, fee
<1>6. ChecksHold(k)
  <2>1. ASSUME NEW u \in Token
        PROVE  /\ k.account[u].balance >= 0
               /\ k.account[u].state # "absent" => k.account[u].deposit > 0
               /\ k.account[u].state = "withdrawn" => /\ k.withdrawal[u].amount > 0
                                                      /\ k.withdrawal[u].fee >= 0
                                                      /\ k.withdrawal[u].net >= 0
    <3>1. CASE u = t
      <4>1. ledger.account[t].deposit > 0
        BY <1>2, CheckedRows DEF ActiveTokens
      <4>2. share[t] = 0
        BY <1>1, <1>2
      <4>3. k.account[t].balance = 0 /\ k.account[t].deposit > 0
        BY <1>1, <1>2, <4>1, <4>2
      <4> QED BY <1>4, <1>5, <3>1, <4>3
    <3>2. CASE u # t
      <4>1. /\ k.account[u].balance = ledger.account[u].balance + share[u]
            /\ k.account[u].deposit = ledger.account[u].deposit
            /\ k.account[u].state = ledger.account[u].state
            /\ share[u] \in Nat
            /\ k.withdrawal[u] = ledger.withdrawal[u]
        BY <1>1, <1>2, <1>5, <3>2
      <4> QED BY <4>1, CheckedRows
    <3> QED BY <3>1, <3>2
  <2>2. k.pool >= 0
    BY <1>1
  <2>3. k.nftsActive >= 0
    <3>1. Cardinality(ActiveTokens(ledger.account)) > 0 /\ Cardinality(ActiveTokens(ledger.account)) \in Nat
      BY ActiveFinite
    <3>2. ledger.nftsActive = Cardinality(ActiveTokens(ledger.account))
      BY CheckedRows
    <3> QED BY <1>1, <3>1, <3>2
  <2> QED BY <2>1, <2>2, <2>3 DEF ChecksHold
<1>7. InvariantsHold(k)
  <2>1. ASSUME NEW u \in ActiveTokens(k.account)
        PROVE  k.account[u].balance = k.account[u].deposit + k.account[u].pnl
    <3>1. u \in Token /\ u # t /\ ledger.account[u].state = "active"
      BY <1>1 DEF ActiveTokens
    <3>2. /\ k.account[u].balance = ledger.account[u].balance + share[u]
          /\ k.account[u].deposit = ledger.account[u].deposit
          /\ k.account[u].pnl = ledger.account[u].pnl + share[u]
          /\ share[u] \in Nat
      BY <1>1, <1>2, <3>1
    <3>3. /\ ledger.account[u].balance = ledger.account[u].deposit + ledger.account[u].pnl
          /\ ledger.account[u].deposit \in Int /\ ledger.account[u].pnl \in Int
      BY <3>1, CheckedRows
    <3> QED BY <3>2, <3>3
  <2>2. \A i \in DOMAIN k.trades : SumFunctionOnSet(k.trades[i].share, Token) = k.trades[i].pnl
    BY <1>1, CheckedRows
  <2> QED BY <1>1, <2>1, <2>2 DEF InvariantsHold
<1> QED
  BY <1>6, <1>7 DEF Checked, k

(* The invariant lets every legitimate operation commit. *)
LEMMA InvCommits == FundInv => LegitimateOperationsCommit
<1> SUFFICES ASSUME FundInv PROVE LegitimateOperationsCommit
  OBVIOUS
<1>1. ASSUME NEW pnl \in PnLs, ledger.pool > 0, pnl >= -ledger.pool
      PROVE  Outcome(AfterTrade(pnl)) = "ok"
  <2>1. pnl \in Int
    BY AmountsAssumption
  <2> QED BY <1>1, <2>1, TradeCommits, CheckedCommits
<1>2. ASSUME NEW t \in ActiveTokens(ledger.account), ledger.account[t].balance > 0
      PROVE  Outcome(AfterWithdrawal(t)) = "ok"
  BY <1>2, WithdrawalCommits, CheckedCommits
<1>3. ASSUME NEW amount \in Deposits
      PROVE  amount \in Int /\ amount > 0
  BY AmountsAssumption
<1>4. ASSUME NEW t \in ActiveTokens(ledger.account), NEW amount \in Deposits
      PROVE  Outcome(AfterAddFunds(t, amount)) = "ok"
  BY <1>3, AddFundsCommits, CheckedCommits
<1>5. ASSUME NEW t \in Token, NEW amount \in Deposits, ledger.account[t].state = "absent"
      PROVE  Outcome(AfterCreate(t, amount)) = "ok"
  BY <1>3, <1>5, CreateCommits, CheckedCommits
<1> QED
  BY <1>1, <1>2, <1>4, <1>5 DEF LegitimateOperationsCommit

-----------------------------------------------------------------------------
(* The steps *)

\* No operation touches what a withdrawn token left behind.
ExitsStay ==
    \A t \in Token : ledger.account[t].state = "withdrawn" =>
        /\ ledger'.account[t] = ledger.account[t]
        /\ ledger'.withdrawal[t] = ledger.withdrawal[t]

(* How a transaction ends. *)
LEMMA TransactEnds ==
    ASSUME NEW l, Transact(l)
    PROVE  /\ result' \in Results
           /\ paused' = paused
           /\ \/ ledger' = ledger
              \/ ledger' = l /\ Checked(l)
<1>1. Outcome(l) \in Results
  BY DEF Outcome, Results
<1>2. Outcome(l) = "ok" => Checked(l)
  BY DEF Outcome, Checked
<1> QED
  BY <1>1, <1>2 DEF Transact

(* The empty fund satisfies the invariant. *)
LEMMA InitInv == Init => FundInv
<1> SUFFICES ASSUME Init PROVE FundInv
  OBVIOUS
<1>1. /\ ledger = [account |-> [t \in Token |-> NoAccount], pool |-> 0, nftsActive |-> 0,
                   trades |-> <<>>, withdrawal |-> [t \in Token |-> NoWithdrawal], stranded |-> 0]
      /\ paused \in BOOLEAN /\ result \in Results
  BY DEF Init, Results
<1>2. NoAccount \in Account /\ NoWithdrawal \in Withdrawal
  BY DEF NoAccount, Account, NoWithdrawal, Withdrawal
<1>3. ledger \in Ledger
  <2>1. <<>> \in Seq(Trade)
    OBVIOUS
  <2> QED
    BY <1>1, <1>2, <2>1 DEF Ledger
<1>4. ActiveTokens(ledger.account) = {}
  BY <1>1 DEF ActiveTokens, NoAccount
<1>5. ledger.nftsActive = Cardinality(ActiveTokens(ledger.account))
  BY <1>1, <1>4, FS_EmptySet
<1>6. PaidWhole(ledger) /\ Untouched(ledger)
  BY <1>1 DEF PaidWhole, Untouched, NoAccount, NoWithdrawal
<1>7. DOMAIN ledger.trades = {}
  BY <1>1
<1>8. Books(ledger)
  <2>1. DepositOf(ledger) = [t \in Token |-> 0] /\ PaidTo(ledger) = [t \in Token |-> 0]
    BY <1>1 DEF DepositOf, PaidTo, NoAccount, NoWithdrawal
  <2>2. SumFunctionOnSet(Earned(ledger), DOMAIN ledger.trades) = 0
    BY <1>7, SumEmpty
  <2>3. SumFunctionOnSet(DepositOf(ledger), Token) = SumFunctionOnSet(PaidTo(ledger), Token)
        /\ SumFunctionOnSet(DepositOf(ledger), Token) \in Int
    BY <1>3, <2>1, SumsType
  <2>4. ledger.pool = 0 /\ ledger.stranded = 0
    BY <1>1
  <2> QED
    BY <2>2, <2>3, <2>4 DEF Books
<1>9. Checked(ledger)
  <2>1. ChecksHold(ledger)
    BY <1>1 DEF ChecksHold, NoAccount
  <2>2. SumBalances(ledger.account) = ledger.pool
    BY <1>1, <1>4, SumEmpty DEF SumBalances
  <2> QED
    BY <1>4, <1>7, <2>1, <2>2 DEF Checked, InvariantsHold
<1> QED
  BY <1>1, <1>3, <1>5, <1>6, <1>8, <1>9 DEF FundInv, Kept

(* Every step keeps the invariant and every exit. *)
LEMMA StepInv == FundInv /\ [Next]_vars => FundInv' /\ ExitsStay
<1> SUFFICES ASSUME FundInv, [Next]_vars PROVE FundInv' /\ ExitsStay
  OBVIOUS
<1>1. ASSUME ledger' = ledger, paused' \in BOOLEAN, result' \in Results
      PROVE  FundInv' /\ ExitsStay
  <2>1. Kept(ledger)' /\ Checked(ledger)'
    BY <1>1 DEF FundInv, Kept, PaidWhole, Untouched, Books, DepositOf, PaidTo, Earned, Checked, ChecksHold,
                InvariantsHold, SumBalances, Balances, ActiveTokens
  <2> QED
    BY <1>1, <2>1 DEF FundInv, ExitsStay
<1>2. ASSUME NEW l, Transact(l),
             Checked(l) => /\ Kept(l)
                           /\ \A t \in Token : ledger.account[t].state = "withdrawn" =>
                                 /\ l.account[t] = ledger.account[t]
                                 /\ l.withdrawal[t] = ledger.withdrawal[t]
      PROVE  FundInv' /\ ExitsStay
  <2>1. paused' \in BOOLEAN /\ result' \in Results
    BY <1>2, TransactEnds DEF FundInv
  <2>2. CASE ledger' = ledger
    BY <1>1, <2>1, <2>2
  <2>3. CASE ledger' = l /\ Checked(l)
    <3>1. Kept(ledger') /\ Checked(ledger')
      BY <1>2, <2>3
    <3> QED
      BY <1>2, <2>1, <2>3, <3>1 DEF FundInv, ExitsStay
  <2> QED
    BY <1>2, <2>2, <2>3, TransactEnds
<1>3. CASE \E t \in Token, amount \in Deposits : CreateNFTAccount(t, amount)
  <2> PICK t \in Token, amount \in Deposits : CreateNFTAccount(t, amount)
    BY <1>3
  <2>1. amount \in Int /\ ledger.account[t].state = "absent" /\ Transact(AfterCreate(t, amount))
    BY AmountsAssumption DEF CreateNFTAccount
  <2>2. Kept(AfterCreate(t, amount))
    BY <2>1, CreateKeeps
  <2>3. \A u \in Token : ledger.account[u].state = "withdrawn" =>
           /\ AfterCreate(t, amount).account[u] = ledger.account[u]
           /\ AfterCreate(t, amount).withdrawal[u] = ledger.withdrawal[u]
    BY <2>1 DEF AfterCreate, FundInv, Kept, Ledger
  <2> QED
    BY <1>2, <2>1, <2>2, <2>3
<1>4. CASE \E t \in Token, amount \in Deposits : AddFundsToNFT(t, amount)
  <2> PICK t \in Token, amount \in Deposits : AddFundsToNFT(t, amount)
    BY <1>4
  <2>1. amount \in Int /\ ledger.account[t].state = "active" /\ Transact(AfterAddFunds(t, amount))
    BY AmountsAssumption DEF AddFundsToNFT
  <2>2. Kept(AfterAddFunds(t, amount))
    BY <2>1, AddFundsKeeps
  <2>3. \A u \in Token : ledger.account[u].state = "withdrawn" =>
           /\ AfterAddFunds(t, amount).account[u] = ledger.account[u]
           /\ AfterAddFunds(t, amount).withdrawal[u] = ledger.withdrawal[u]
    BY <2>1 DEF AfterAddFunds, FundInv, Kept, Ledger
  <2> QED
    BY <1>2, <2>1, <2>2, <2>3
<1>5. CASE \E pnl \in PnLs : RecordTrade(pnl)
  <2> PICK pnl \in PnLs : RecordTrade(pnl)
    BY <1>5
  <2>1. pnl \in Int /\ Transact(AfterTrade(pnl))
    BY AmountsAssumption DEF RecordTrade
  <2> QED
    BY <1>2, <2>1, TradeKeeps
<1>6. CASE \E t \in Token : RecordWithdrawal(t)
  <2> PICK t \in Token : RecordWithdrawal(t)
    BY <1>6
  <2>1. ledger.account[t].state = "active" /\ Transact(AfterWithdrawal(t))
    BY DEF RecordWithdrawal
  <2> QED
    BY <1>2, <2>1, WithdrawalKeeps
<1>7. CASE VerifyInvariants \/ PauseFund \/ UnpauseFund
  <2>1. ledger' = ledger /\ paused' \in BOOLEAN /\ result' \in Results
    BY <1>7 DEF VerifyInvariants, PauseFund, UnpauseFund, FundInv, Results
  <2> QED
    BY <1>1, <2>1
<1>8. CASE UNCHANGED vars
  <2>1. ledger' = ledger /\ paused' \in BOOLEAN /\ result' \in Results
    BY <1>8 DEF vars, FundInv
  <2> QED
    BY <1>1, <2>1
<1> QED
  BY <1>3, <1>4, <1>5, <1>6, <1>7, <1>8 DEF Next

-----------------------------------------------------------------------------
(* The promise of PooledFund *)

(* The promise, in terms of the tables. *)
LEMMA PromiseOfTables ==
    /\ Promise!Members = ActiveTokens(ledger.account)
    /\ \A t \in Token : Balances(ledger.account)[t] = ledger.account[t].balance
    /\ \A t \in Token : Balances(ledger.account)'[t] = ledger'.account[t].balance
BY DEF Promise!Members, ActiveTokens, Balances

(* A committed createNFTAccount is a joining. *)
LEMMA CreateJoins ==
    ASSUME FundInv, ~ paused, NEW t \in Token, ledger.account[t].state = "absent",
           NEW deposit \in Int, deposit > 0,
           ledger' = AfterCreate(t, deposit), paused' = paused
    PROVE  Promise!Join(t)
<1>1. /\ ledger'.account[t].state = "active"
      /\ ledger'.account[t].balance = deposit
      /\ \A u \in Token \ {t} : ledger'.account[u] = ledger.account[u]
  BY CheckedRows DEF AfterCreate
<1>2. [u \in Token |-> ledger'.account[u].state] = [[u \in Token |-> ledger.account[u].state] EXCEPT ![t] = "active"]
  BY <1>1
<1>3. Balances(ledger.account)'[t] > 0
  BY <1>1, PromiseOfTables
<1>4. \A u \in Token \ {t} : Balances(ledger.account)'[u] = Balances(ledger.account)[u]
  BY <1>1, PromiseOfTables
<1> QED
  BY <1>2, <1>3, <1>4 DEF Promise!Join, Promise!OthersKeep

(* A committed addFundsToNFT is a deposit. *)
LEMMA AddFundsDeposits ==
    ASSUME FundInv, ~ paused, NEW t \in Token, ledger.account[t].state = "active",
           NEW amount \in Int, amount > 0,
           ledger' = AfterAddFunds(t, amount), paused' = paused
    PROVE  Promise!Deposit(t)
<1>1. /\ ledger'.account[t] = Booked(ledger.account[t], amount, 0)
      /\ \A u \in Token \ {t} : ledger'.account[u] = ledger.account[u]
  BY CheckedRows DEF AfterAddFunds
<1>2. ledger'.account[t].state = "active" /\ ledger'.account[t].balance = ledger.account[t].balance + amount + 0
  BY <1>1 DEF Booked
<1>3. ledger'.account[t].balance > ledger.account[t].balance
  BY <1>2, CheckedRows
<1>4. [u \in Token |-> ledger'.account[u].state] = [u \in Token |-> ledger.account[u].state]
  BY <1>1, <1>2
<1>5. t \in Promise!Members
  BY PromiseOfTables DEF ActiveTokens
<1>6. Balances(ledger.account)'[t] > Balances(ledger.account)[t]
  BY <1>3, PromiseOfTables
<1>7. \A u \in Token \ {t} : Balances(ledger.account)'[u] = Balances(ledger.account)[u]
  BY <1>1, PromiseOfTables
<1> QED
  BY <1>4, <1>5, <1>6, <1>7 DEF Promise!Deposit, Promise!OthersKeep

(* A committed recordTrade is a move of the market. *)
LEMMA TradeMoves ==
    ASSUME FundInv, ~ paused, NEW pnl \in Int, Checked(AfterTrade(pnl)),
           ledger' = AfterTrade(pnl), paused' = paused
    PROVE  Promise!Market
<1> DEFINE account == ledger.account
           pool    == ledger.pool
           spread  == CanDistribute(account, pool, pnl)
           share   == IF spread THEN Shares(account, pool, pnl) ELSE NoShares
           after   == Credit(account, share)
<1>1. /\ ledger'.account = after
      /\ ledger'.pool = IF spread THEN pool + pnl ELSE pool
      /\ ledger'.pool >= 0
  BY DEF AfterTrade, Checked, ChecksHold
<1>2. /\ account \in [Token -> Account] /\ pool \in Int /\ pool >= 0
      /\ SumBalances(account) = pool
      /\ \A t \in Token : account[t].balance >= 0 /\ account[t].balance \in Int
  BY CheckedRows
<1>3. /\ share \in [Token -> Int]
      /\ \A t \in Token :
            /\ after[t].state = account[t].state
            /\ after[t].balance = account[t].balance + share[t]
            /\ after[t].balance >= 0
            /\ account[t].state # "active" => share[t] = 0
      /\ (\A t \in Token : share[t] >= 0) \/ (\A t \in Token : share[t] <= 0)
  <2> DEFINE s == share
  <2>1. s = IF CanDistribute(account, pool, pnl) THEN Shares(account, pool, pnl) ELSE NoShares
    OBVIOUS
  <2> HIDE DEF s, account, pool
  <2>2. s \in [Token -> Int] /\ \A t \in Token : account[t].state # "active" => s[t] = 0
    BY <1>2, <2>1, SpreadType
  <2>3. \A t \in Token : Credit(account, s)[t].state = account[t].state
    BY <1>2, <2>2, CreditKeeps
  <2>4. ASSUME pnl >= -pool
        PROVE  /\ \A t \in Token : /\ Credit(account, s)[t].balance = account[t].balance + s[t]
                                   /\ Credit(account, s)[t].balance >= 0
               /\ (\A t \in Token : s[t] >= 0) \/ (\A t \in Token : s[t] <= 0)
    <3>1. \A t \in Token : /\ Credit(account, s)[t].balance = account[t].balance + s[t]
                           /\ Credit(account, s)[t].balance >= 0
                           /\ pnl >= 0 => s[t] >= 0
                           /\ pnl <= 0 => s[t] <= 0
      BY <1>2, <2>1, <2>4, SpreadWorks
    <3>2. pnl >= 0 \/ pnl <= 0
      OBVIOUS
    <3> QED BY <3>1, <3>2
  <2>5. CASE spread
    <3>1. pnl >= -pool
      BY <1>1, <1>2, <2>5
    <3> QED BY <2>2, <2>3, <2>4, <3>1 DEF s
  <2>6. CASE ~ spread
    <3>1. \A t \in Token : s[t] = 0
      BY <2>6 DEF s, NoShares
    <3>2. \A t \in Token : Credit(account, s)[t] = account[t]
      BY <1>2, <2>2, <3>1, CreditKeeps
    <3>3. \A t \in Token : Credit(account, s)[t].balance = account[t].balance + s[t] /\ Credit(account, s)[t].balance >= 0
      BY <1>2, <3>1, <3>2
    <3>4. \A t \in Token : s[t] <= 0
      BY <3>1
    <3> QED BY <2>2, <2>3, <3>3, <3>4 DEF s
  <2> QED BY <2>5, <2>6
<1> HIDE DEF account, pool, spread, share, after
<1>4. [u \in Token |-> ledger'.account[u].state] = [u \in Token |-> ledger.account[u].state]
  BY <1>1, <1>3 DEF account
<1>5. \A t \in Token : /\ Balances(ledger.account)'[t] = Balances(ledger.account)[t] + share[t]
                       /\ Balances(ledger.account)'[t] >= 0
                       /\ share[t] \in Int /\ Balances(ledger.account)[t] \in Int
  BY <1>1, <1>2, <1>3, PromiseOfTables DEF account
<1>6. \A t \in Token \ Promise!Members : Balances(ledger.account)'[t] = Balances(ledger.account)[t]
  <2> SUFFICES ASSUME NEW t \in Token \ Promise!Members
               PROVE  Balances(ledger.account)'[t] = Balances(ledger.account)[t]
    OBVIOUS
  <2>1. account[t].state # "active"
    BY PromiseOfTables DEF ActiveTokens, account
  <2> QED BY <1>3, <1>5, <2>1
<1>7. \/ \A t \in Promise!Members : Balances(ledger.account)'[t] >= Balances(ledger.account)[t]
      \/ \A t \in Promise!Members : /\ Balances(ledger.account)'[t] <= Balances(ledger.account)[t]
                                    /\ Balances(ledger.account)'[t] >= 0
  <2>1. \A t \in Promise!Members : t \in Token
    BY PromiseOfTables DEF ActiveTokens
  <2>2. CASE \A t \in Token : share[t] >= 0
    BY <1>5, <2>1, <2>2
  <2>3. CASE \A t \in Token : share[t] <= 0
    BY <1>5, <2>1, <2>3
  <2> QED BY <1>3, <2>2, <2>3
<1> QED
  BY <1>4, <1>6, <1>7 DEF Promise!Market

(* A committed recordWithdrawal is a departure. *)
LEMMA WithdrawalLeavesFund ==
    ASSUME FundInv, ~ paused, NEW t \in ActiveTokens(ledger.account),
           ledger' = AfterWithdrawal(t), paused' = paused
    PROVE  Promise!Leave(t)
<1> DEFINE balance == ledger.account[t].balance
           fee     == WithdrawalFee(balance)
           closed  == [ledger.account EXCEPT ![t] = Closed(@)]
           left    == ledger.pool - balance
           spread  == CanDistribute(closed, left, fee)
           share   == IF spread THEN Shares(closed, left, fee) ELSE NoShares
<1>1. \A u \in Token :
            /\ share[u] \in Nat
            /\ closed[u].state # "active" => share[u] = 0
            /\ ledger'.account[u].balance = closed[u].balance + share[u]
            /\ ledger'.account[u].state = closed[u].state
  BY WithdrawalLeaves
<1>2. /\ t \in Token
      /\ closed[t].state = "withdrawn" /\ closed[t].balance = 0
      /\ \A u \in Token \ {t} : closed[u] = ledger.account[u]
  <2>1. closed = [ledger.account EXCEPT ![t] = Closed(@)]
    OBVIOUS
  <2> HIDE DEF closed
  <2> QED BY <2>1, ClosedBalances
<1> HIDE DEF closed, share
<1>3. [u \in Token |-> ledger'.account[u].state] = [[u \in Token |-> ledger.account[u].state] EXCEPT ![t] = "withdrawn"]
  BY <1>1, <1>2
<1>4. Balances(ledger.account)'[t] = 0
  BY <1>1, <1>2, PromiseOfTables
<1>5. \A u \in Token \ {t} : /\ Balances(ledger.account)'[u] = Balances(ledger.account)[u] + share[u]
                             /\ share[u] \in Nat /\ Balances(ledger.account)[u] \in Int
                             /\ ledger.account[u].state # "active" => share[u] = 0
  <2> SUFFICES ASSUME NEW u \in Token \ {t}
               PROVE  /\ Balances(ledger.account)'[u] = Balances(ledger.account)[u] + share[u]
                      /\ share[u] \in Nat /\ Balances(ledger.account)[u] \in Int
                      /\ ledger.account[u].state # "active" => share[u] = 0
    OBVIOUS
  <2>1. closed[u] = ledger.account[u]
    BY <1>2
  <2>2. ledger.account[u].balance \in Int
    BY CheckedRows
  <2> QED BY <1>1, <2>1, <2>2, PromiseOfTables
<1>6. t \in Promise!Members
  BY PromiseOfTables
<1>7. \A u \in Promise!Members \ {t} : Balances(ledger.account)'[u] >= Balances(ledger.account)[u]
  <2>1. \A u \in Promise!Members : u \in Token
    BY PromiseOfTables DEF ActiveTokens
  <2> QED BY <1>5, <2>1
<1>8. \A u \in Token \ Promise!Members : Balances(ledger.account)'[u] = Balances(ledger.account)[u]
  <2> SUFFICES ASSUME NEW u \in Token \ Promise!Members
               PROVE  Balances(ledger.account)'[u] = Balances(ledger.account)[u]
    OBVIOUS
  <2>1. u # t /\ ledger.account[u].state # "active"
    BY <1>6, PromiseOfTables DEF ActiveTokens
  <2> QED BY <1>5, <2>1
<1> QED
  BY <1>3, <1>4, <1>6, <1>7, <1>8 DEF Promise!Leave

(* Every step of the ledger is a step of the promise or leaves it alone. *)
LEMMA StepPromise == FundInv /\ [Next]_vars => [Promise!PooledNext]_(Promise!pooledVars)
<1> SUFFICES ASSUME FundInv, [Next]_vars
             PROVE  Promise!PooledNext \/ UNCHANGED Promise!pooledVars
  OBVIOUS
<1>1. ASSUME ledger' = ledger, paused' = paused
      PROVE  UNCHANGED Promise!pooledVars
  BY <1>1 DEF Promise!pooledVars
<1>2. CASE \E t \in Token, amount \in Deposits : CreateNFTAccount(t, amount)
  <2> PICK t \in Token, amount \in Deposits : CreateNFTAccount(t, amount)
    BY <1>2
  <2>1. amount \in Int /\ amount > 0 /\ ~ paused /\ ledger.account[t].state = "absent" /\ Transact(AfterCreate(t, amount))
    BY AmountsAssumption DEF CreateNFTAccount
  <2>2. CASE ledger' = AfterCreate(t, amount)
    <3>1. paused' = paused
      BY <2>1, TransactEnds
    <3> QED BY <2>1, <2>2, <3>1, CreateJoins DEF Promise!PooledNext
  <2> QED BY <1>1, <2>1, <2>2, TransactEnds
<1>3. CASE \E t \in Token, amount \in Deposits : AddFundsToNFT(t, amount)
  <2> PICK t \in Token, amount \in Deposits : AddFundsToNFT(t, amount)
    BY <1>3
  <2>1. amount \in Int /\ amount > 0 /\ ~ paused /\ ledger.account[t].state = "active" /\ Transact(AfterAddFunds(t, amount))
    BY AmountsAssumption DEF AddFundsToNFT
  <2>2. CASE ledger' = AfterAddFunds(t, amount)
    <3>1. paused' = paused
      BY <2>1, TransactEnds
    <3> QED BY <2>1, <2>2, <3>1, AddFundsDeposits DEF Promise!PooledNext
  <2> QED BY <1>1, <2>1, <2>2, TransactEnds
<1>4. CASE \E pnl \in PnLs : RecordTrade(pnl)
  <2> PICK pnl \in PnLs : RecordTrade(pnl)
    BY <1>4
  <2>1. pnl \in Int /\ ~ paused /\ Transact(AfterTrade(pnl))
    BY AmountsAssumption DEF RecordTrade
  <2>2. CASE ledger' = AfterTrade(pnl) /\ Checked(AfterTrade(pnl))
    <3>1. paused' = paused
      BY <2>1, TransactEnds
    <3> QED BY <2>1, <2>2, <3>1, TradeMoves DEF Promise!PooledNext
  <2> QED BY <1>1, <2>1, <2>2, TransactEnds
<1>5. CASE \E t \in Token : RecordWithdrawal(t)
  <2> PICK t \in Token : RecordWithdrawal(t)
    BY <1>5
  <2>1. t \in ActiveTokens(ledger.account) /\ ~ paused /\ Transact(AfterWithdrawal(t))
    BY DEF RecordWithdrawal, ActiveTokens
  <2>2. CASE ledger' = AfterWithdrawal(t)
    <3>1. paused' = paused
      BY <2>1, TransactEnds
    <3> QED BY <2>1, <2>2, <3>1, WithdrawalLeavesFund DEF Promise!PooledNext
  <2> QED BY <1>1, <2>1, <2>2, TransactEnds
<1>6. CASE VerifyInvariants
  <2>1. InvariantsHold(ledger)
    BY DEF FundInv, Checked
  <2>2. ledger' = ledger /\ paused' = paused
    BY <1>6, <2>1 DEF VerifyInvariants, FundInv
  <2> QED BY <1>1, <2>2
<1>7. CASE PauseFund \/ UnpauseFund
  <2>1. ledger' = ledger /\ paused' \in BOOLEAN /\ paused \in BOOLEAN
    BY <1>7 DEF PauseFund, UnpauseFund, FundInv
  <2>2. CASE paused' = paused
    BY <1>1, <2>1, <2>2
  <2>3. CASE paused' = ~ paused
    BY <2>1, <2>3 DEF Promise!FreezeOrThaw, Promise!PooledNext
  <2> QED BY <2>1, <2>2, <2>3
<1>8. CASE UNCHANGED vars
  BY <1>1, <1>8 DEF vars
<1> QED
  BY <1>2, <1>3, <1>4, <1>5, <1>6, <1>7, <1>8 DEF Next

(* The empty fund is the empty promise. *)
LEMMA InitPromise == Init => Promise!PooledInit
<1> SUFFICES ASSUME Init PROVE Promise!PooledInit
  OBVIOUS
<1>1. ledger.account = [t \in Token |-> NoAccount] /\ paused = FALSE
  BY DEF Init
<1>2. Balances(ledger.account) = [t \in Token |-> 0]
  BY <1>1 DEF Balances, NoAccount
<1>3. [t \in Token |-> ledger.account[t].state] = [t \in Token |-> "absent"]
  BY <1>1 DEF NoAccount
<1> QED
  BY <1>1, <1>2, <1>3 DEF Promise!PooledInit

-----------------------------------------------------------------------------
(* The theorems *)

(* The inductive invariant holds of every reachable state. *)
THEOREM FundInvariant == Spec => []FundInv
<1> QED
  BY InitInv, StepInv, PTL DEF Spec

(* The tables always hold what their columns can hold. *)
THEOREM TypeCorrect == Spec => []TypeOK
<1> QED
  BY FundInvariant, InvImplies, PTL

(* total_nfts_active is the number of active accounts. *)
THEOREM ActiveCountCorrect == Spec => []ActiveCountIsExact
<1> QED
  BY FundInvariant, InvImplies, PTL

(* The invariants of verifyInvariants hold between any two operations. *)
THEOREM LedgerInvariantsHold == Spec => []LedgerInvariants
<1> QED
  BY FundInvariant, InvImplies, PTL

(* Who leaves is paid all deposits and all profit shares, less the fee. *)
THEOREM PayoutCorrect == Spec => []PayoutIsWholeClaim
<1> QED
  BY FundInvariant, InvImplies, PTL

(* No cent appears or disappears. *)
THEOREM BooksCorrect == Spec => []BooksBalance
<1> QED
  BY FundInvariant, InvImplies, PTL

(* An exit is final. *)
THEOREM WithdrawnFinal == Spec => WithdrawnIsFinal
<1>1. FundInv /\ [Next]_vars => [ExitsStay]_vars
  BY StepInv
<1> QED
  BY <1>1, FundInvariant, PTL DEF Spec, WithdrawnIsFinal, ExitsStay

(* Profits, losses and fees are shared fairly. *)
THEOREM FairShares == Spec => []SharesAreFair
<1> QED
  BY FundInvariant, InvFair, PTL

(* What should commit commits. *)
THEOREM LegitimateCommit == Spec => []LegitimateOperationsCommit
<1> QED
  BY FundInvariant, InvCommits, PTL

(* The ledger keeps the promise of PooledFund. *)
THEOREM ImplementsPromise == Spec => ImplementsPooledFund
<1> QED
  BY InitPromise, StepPromise, FundInvariant, PTL DEF Spec, ImplementsPooledFund, Promise!PooledSpec
=============================================================================
