------------------------------ MODULE SalesDesk ------------------------------
(***************************************************************************)
(* How the agent sells: the Telegram handler (agent/telegram.ts), the LLM  *)
(* client with retries and circuit breaker around its tool loop            *)
(* (resilient-llm.ts, llm.ts), and the tools it runs for sales             *)
(* (tools.ts, sales.ts, nft/minter.ts).                                    *)
(*                                                                         *)
(* The bot handles one message after the other, so tools of two messages   *)
(* never overlap; what overlaps with them are trades, pauses and crashes.  *)
(* A failed completion starts the whole tool loop again, with the tools    *)
(* that have run already, and a restart redelivers the messages that       *)
(* Telegram has not seen confirmed.  The model is taken to do what the     *)
(* message asks for, each tool at most once per run of the loop; balances  *)
(* are those of FundLedger and left out, prices are computed exactly.      *)
(***************************************************************************)
EXTENDS Integers, Sequences, FiniteSets

CONSTANTS
    Customer,
    MaxNFTs,           \* MAX_NFTS
    Crowds,            \* what other customers hold: records [active, gone]
    Markets,           \* results of the last 20 trades: [sentiment, performance], in tenths
    OfferPercents,     \* offers considered, in percent of the listed price
    MaxRetries,        \* attempts of ResilientLLM.run
    CircuitThreshold,  \* failed runs that open the circuit
    MaxToolIterations, \* completions of one tool loop
    MaxMessages,       \* bound: messages sent
    MaxFaults          \* bound: crashes

ASSUME CountAssumption ==
    /\ MaxRetries \in Nat \ {0} /\ CircuitThreshold \in Nat \ {0}
    /\ MaxToolIterations \in Nat \ {0}
    /\ MaxNFTs \in Nat \ {0} /\ MaxMessages \in Nat /\ MaxFaults \in Nat
ASSUME CrowdAssumption ==
    Crowds \subseteq [active: Nat, gone: Nat] /\ \A c \in Crowds : c.active + c.gone <= MaxNFTs
ASSUME MarketAssumption == Markets \subseteq [sentiment: -10..10, performance: -5..5]
ASSUME OfferAssumption == OfferPercents \subseteq Nat

VARIABLES
    accounts,   \* accounts of the customers, in the order they were created
    crowd,      \* accounts of everybody else
    trend,      \* what the recent trades say
    fundPaused, \* fund_state.is_paused
    sent,       \* messages of the customers
    confirmed,  \* messages Telegram will not deliver again
    fetched,    \* messages of the batches the bot has fetched
    handled,    \* messages the handler is done with
    credited,   \* how often the deposit of each message was added to the books
    desk,       \* the tool loop: its step, attempt, completions and tools that ran
    circuit,    \* consecutiveFailures, and whether the cooldown still runs
    faults

ledger == <<accounts, crowd, trend, fundPaused, credited>>
inbox == <<sent, confirmed, fetched, handled>>
salesVars == <<ledger, inbox, desk, circuit, faults>>

Kind == {"buy", "topup", "exit", "mint", "ask"}
Account == [owner: Customer, active: BOOLEAN, minted: BOOLEAN, assets: Nat]
Message == [from: Customer, kind: Kind]

\* The tools the model may call for a message; "ask" needs only those that read.
Intended == [buy |-> {"purchase_nft", "retry_mint"}, topup |-> {"add_funds_to_nft"},
             exit |-> {"execute_withdrawal"}, mint |-> {"retry_mint"}, ask |-> {}]

-----------------------------------------------------------------------------
(* sales.ts: prices and negotiation *)

Mine == DOMAIN accounts
ActiveOf(c) == {i \in Mine : accounts[i].owner = c /\ accounts[i].active}
PastOf(c)   == {i \in Mine : accounts[i].owner = c /\ ~accounts[i].active}

ActiveCount == crowd.active + Cardinality({i \in Mine : accounts[i].active})
TotalMinted == crowd.active + crowd.gone + Len(accounts)
Remaining   == MaxNFTs - TotalMinted

Larger(a, b) == IF a > b THEN a ELSE b
Smaller(a, b) == IF a < b THEN a ELSE b

\* $20, with sentiment, performance, scarcity and activity on top, in cents and
\* not below $1; the count of active accounts is the scarcity here.
ListedPrice ==
    Larger(100, ((20 + trend.sentiment) * (10 + trend.performance)
                 * (10 * MaxNFTs + 3 * ActiveCount) * (500 + Smaller(ActiveCount, 100)))
                \div (500 * MaxNFTs))

\* The tier counts withdrawn accounts too.
ScarcityTier ==
    CASE Remaining <= 2                     -> "final_few"
      [] Remaining > 2 /\ TotalMinted * 100 >= 70 * MaxNFTs -> "scarce"
      [] Remaining > 2 /\ TotalMinted * 100 < 70 * MaxNFTs
           /\ TotalMinted * 100 >= 40 * MaxNFTs             -> "moderate"
      [] OTHER                              -> "abundant"

Returning(c) == PastOf(c) # {} /\ ActiveOf(c) = {}
Leeway(c) == IF Returning(c) THEN 3 ELSE 0

\* get_buyer_context: the floor suggested to the model before it negotiates.
SuggestedFloor(c) ==
    LET percent == [final_few |-> 92, scarce |-> 85, moderate |-> 80, abundant |-> 75]
    IN (ListedPrice * (percent[ScarcityTier] - Leeway(c))) \div 100

Threshold == [abundant  |-> [accept |-> 85, counter |-> 70, maxDiscount |-> 25],
              moderate  |-> [accept |-> 88, counter |-> 75, maxDiscount |-> 20],
              scarce    |-> [accept |-> 92, counter |-> 82, maxDiscount |-> 15],
              final_few |-> [accept |-> 95, counter |-> 88, maxDiscount |-> 8]]

\* Bug: the counter offer meets the customer half way.
CounterHalfWay(offer) == (offer + ListedPrice) \div 2

CounterOffer(offer) == (offer + 2 * ListedPrice) \div 3

\* evaluate_offer: the verdict on an offer, and the floor it names.
EvaluateOffer(c, offer) ==
    LET t == Threshold[ScarcityTier]
    IN [verdict |-> IF offer * 100 >= (t.accept - Leeway(c)) * ListedPrice THEN "accept"
                    ELSE IF offer * 100 >= (t.counter - Leeway(c)) * ListedPrice THEN "counter"
                    ELSE "reject",
        floor |-> (ListedPrice * (100 - (t.maxDiscount + Leeway(c)))) \div 100]

-----------------------------------------------------------------------------
(* The tool loop *)

Desk == [step: {"idle", "asking", "minting", "burning", "recording"}, attempt: 0..MaxRetries,
         turn: 0..MaxToolIterations, ran: SUBSET UNION {Intended[k] : k \in Kind}, target: Nat]

Idle == [step |-> "idle", attempt |-> 0, turn |-> 0, ran |-> {}, target |-> 0]
Asking(n) == [Idle EXCEPT !.step = "asking", !.attempt = n]

Current == sent[handled + 1]
CircuitOpen == circuit.failures >= CircuitThreshold /\ circuit.cooling

SalesInit ==
    /\ accounts = <<>> /\ crowd \in Crowds /\ trend \in Markets /\ fundPaused = FALSE
    /\ sent = <<>> /\ confirmed = 0 /\ fetched = 0 /\ handled = 0
    /\ credited = [m \in 1..MaxMessages |-> 0]
    /\ desk = Idle
    /\ circuit = [failures |-> 0, cooling |-> FALSE]
    /\ faults = 0

Send(c, k) ==
    /\ Len(sent) < MaxMessages
    /\ sent' = Append(sent, [from |-> c, kind |-> k])
    /\ UNCHANGED <<ledger, confirmed, fetched, handled, desk, circuit, faults>>

\* A new batch confirms the batch before it.
Fetch ==
    IF handled = fetched
    THEN fetched' = Len(sent) /\ confirmed' = handled
    ELSE UNCHANGED <<fetched, confirmed>>

\* The handler takes the next message; an open circuit makes run() throw at
\* once, and the customer gets the answer of the degraded mode.
StartMessage ==
    /\ desk.step = "idle" /\ handled < Len(sent)
    /\ Fetch
    /\ IF CircuitOpen
       THEN handled' = handled + 1 /\ UNCHANGED desk
       ELSE desk' = Asking(1) /\ UNCHANGED handled
    /\ UNCHANGED <<ledger, sent, circuit, faults>>

\* Bug: the attempt counter never moves.
CompletionRetriesForEver ==
    /\ desk.step = "asking" /\ desk.turn < MaxToolIterations
    /\ desk' = Asking(desk.attempt)
    /\ UNCHANGED <<ledger, inbox, circuit, faults>>

\* A completion that fails or times out ends the attempt: the loop starts anew
\* from the message alone, or, after the last attempt, counts as a failed run.
CompletionFails ==
    /\ desk.step = "asking" /\ desk.turn < MaxToolIterations
    /\ IF desk.attempt < MaxRetries
       THEN desk' = Asking(desk.attempt + 1) /\ UNCHANGED <<handled, circuit>>
       ELSE /\ desk' = Idle /\ handled' = handled + 1
            /\ circuit' = LET n == Smaller(circuit.failures + 1, CircuitThreshold)
                          IN [failures |-> n, cooling |-> n = CircuitThreshold]
    /\ UNCHANGED <<ledger, sent, confirmed, fetched, faults>>

\* The model answers in text, or the iterations are used up: a successful run.
Answer ==
    /\ desk.step = "asking"
    /\ desk' = Idle /\ handled' = handled + 1
    /\ circuit' = [failures |-> 0, cooling |-> FALSE]
    /\ UNCHANGED <<ledger, sent, confirmed, fetched, faults>>

\* circuitCooldownMs has passed: half-open.
CooldownEnds ==
    /\ circuit.cooling
    /\ circuit' = [circuit EXCEPT !.cooling = FALSE]
    /\ UNCHANGED <<ledger, inbox, desk, faults>>

\* The model calls a tool; the loop goes on with the next completion once the
\* tool returned or threw, unless the tool awaits something (step s, account i).
Calls(tool, s, i) ==
    /\ desk.step = "asking" /\ desk.turn < MaxToolIterations
    /\ tool \in Intended[Current.kind] \ desk.ran
    /\ desk' = [desk EXCEPT !.step = s, !.turn = @ + 1, !.ran = @ \cup {tool}, !.target = i]

Returns == desk' = [desk EXCEPT !.step = "asking", !.target = 0]

\* get_buyer_context, evaluate_offer, verify_deposit, ...: tools that only read.
LookUp ==
    /\ desk.step = "asking" /\ desk.turn < MaxToolIterations
    /\ desk' = [desk EXCEPT !.turn = @ + 1]
    /\ UNCHANGED <<ledger, inbox, circuit, faults>>

Credit == credited' = [credited EXCEPT ![handled + 1] = @ + 1]

-----------------------------------------------------------------------------
(* tools.ts: the tools that change something *)

\* Bugs: one of the checks of purchase_nft is missing.
MayBuyAgain(c) == Remaining > 0 /\ ~fundPaused
MayBuyWhenSoldOut(c) == ActiveOf(c) = {} /\ ~fundPaused

MayBuy(c) == ActiveOf(c) = {} /\ Remaining > 0 /\ ~fundPaused

\* purchase_nft up to the mint.  Whether the deposit covers the price, agreed
\* or listed, is the customer's choice; too little of it is an error.
PurchaseNFT ==
    /\ \/ /\ Calls("purchase_nft", "minting", Len(accounts) + 1)
          /\ MayBuy(Current.from)
          /\ accounts' = Append(accounts, [owner |-> Current.from, active |-> TRUE,
                                           minted |-> FALSE, assets |-> 0])
          /\ Credit
       \/ /\ Calls("purchase_nft", "asking", 0)
          /\ UNCHANGED <<accounts, credited>>
    /\ UNCHANGED <<crowd, trend, fundPaused, inbox, circuit, faults>>

\* retry_mint, for an account without a mint address, withdrawn or not.
RetryMint ==
    /\ \/ \E i \in Mine : /\ Calls("retry_mint", "minting", i)
                          /\ accounts[i].owner = Current.from /\ ~accounts[i].minted
       \/ Calls("retry_mint", "asking", 0)
    /\ UNCHANGED <<ledger, inbox, circuit, faults>>

\* mintToUser succeeds and the address is saved; or it throws, before the
\* transaction was sent or while a transaction that lands was being confirmed.
MintEnds ==
    /\ desk.step = "minting"
    /\ \E landed, ok \in BOOLEAN :
         /\ ok => landed
         /\ accounts' = [accounts EXCEPT ![desk.target].minted = @ \/ ok,
                                         ![desk.target].assets = IF landed THEN @ + 1 ELSE @]
    /\ Returns
    /\ UNCHANGED <<crowd, trend, fundPaused, credited, inbox, circuit, faults>>

\* add_funds_to_nft, with the transaction the message names.
AddFunds ==
    /\ Calls("add_funds_to_nft", "asking", 0)
    /\ IF ActiveOf(Current.from) # {} /\ ~fundPaused THEN Credit ELSE UNCHANGED credited
    /\ UNCHANGED <<accounts, crowd, trend, fundPaused, inbox, circuit, faults>>

\* execute_withdrawal: of an account with a mint address the NFT is burnt
\* first, which is an await; burnNFT only logs that it was asked.
ExecuteWithdrawal ==
    /\ \/ \E i \in Mine :
            /\ Calls("execute_withdrawal", IF accounts[i].minted THEN "burning" ELSE "recording", i)
            /\ accounts[i].owner = Current.from
       \/ Calls("execute_withdrawal", "asking", 0)
    /\ UNCHANGED <<ledger, inbox, circuit, faults>>

BurnEnds ==
    /\ desk.step = "burning"
    /\ desk' = [desk EXCEPT !.step = "recording"]
    /\ UNCHANGED <<ledger, inbox, circuit, faults>>

\* recordWithdrawal throws when the fund is paused or the account closed.
RecordWithdrawal ==
    /\ desk.step = "recording"
    /\ accounts' = [accounts EXCEPT ![desk.target].active = @ /\ fundPaused]
    /\ Returns
    /\ UNCHANGED <<crowd, trend, fundPaused, credited, inbox, circuit, faults>>

-----------------------------------------------------------------------------
(* What happens besides *)

\* The trading job records a trade.
Trade ==
    /\ trend' \in Markets /\ trend' # trend
    /\ UNCHANGED <<accounts, crowd, fundPaused, credited, inbox, desk, circuit, faults>>

\* Pause and unpause by governance or the tools.
PauseOrResume ==
    /\ fundPaused' = ~fundPaused
    /\ UNCHANGED <<accounts, crowd, trend, credited, inbox, desk, circuit, faults>>

\* Others buy or leave; their messages are handled between those of Customer.
OthersTrade ==
    /\ desk.step = "idle"
    /\ crowd' \in Crowds
    /\ crowd'.active + crowd'.gone >= crowd.active + crowd.gone /\ crowd'.gone >= crowd.gone
    /\ crowd' # crowd /\ crowd'.active + crowd'.gone + Len(accounts) <= MaxNFTs
    /\ UNCHANGED <<accounts, trend, fundPaused, credited, inbox, desk, circuit, faults>>

\* The process dies, also when a reply cannot be sent (nothing catches that);
\* Telegram delivers every message again that it has not seen confirmed.
Crash ==
    /\ faults < MaxFaults /\ faults' = faults + 1
    /\ handled' = confirmed /\ fetched' = confirmed
    /\ desk' = Idle
    /\ circuit' = [failures |-> 0, cooling |-> FALSE]
    /\ UNCHANGED <<ledger, sent, confirmed>>

Completion == CompletionFails \/ Answer \/ LookUp \/ PurchaseNFT \/ RetryMint \/ AddFunds \/ ExecuteWithdrawal

SalesNext ==
    \/ \E c \in Customer, k \in Kind : Send(c, k)
    \/ StartMessage \/ Completion \/ MintEnds \/ BurnEnds \/ RecordWithdrawal
    \/ CooldownEnds \/ Trade \/ PauseOrResume \/ OthersTrade \/ Crash

\* The bot polls; fetch has a timeout of 60 s, and confirming a mint and asking
\* for an asset end in an answer or an error.
SalesFairness ==
    /\ WF_salesVars(StartMessage) /\ WF_salesVars(Completion)
    /\ WF_salesVars(MintEnds) /\ WF_salesVars(BurnEnds \/ RecordWithdrawal)

SalesSpec == SalesInit /\ [][SalesNext]_salesVars /\ SalesFairness
-----------------------------------------------------------------------------
(* Properties *)

\* The state is what the tables and the one message at the desk can hold: no
\* more tokens than MAX_NFTS are ever minted, and the bot confirms nothing that
\* it has not handled.
SalesTypeOK ==
    /\ accounts \in Seq(Account) /\ crowd \in Crowds /\ trend \in Markets /\ fundPaused \in BOOLEAN
    /\ TotalMinted <= MaxNFTs
    /\ sent \in Seq(Message)
    /\ {confirmed, handled, fetched} \subseteq Nat
    /\ confirmed <= handled /\ handled <= fetched /\ fetched <= Len(sent)
    /\ credited \in [1..MaxMessages -> Nat]
    /\ desk \in Desk
    /\ desk.step \in {"minting", "burning", "recording"} <=> desk.target \in Mine
    /\ desk.step # "idle" => handled < fetched
    /\ circuit \in [failures: 0..CircuitThreshold, cooling: BOOLEAN]
    /\ circuit.cooling => circuit.failures = CircuitThreshold
    /\ faults \in 0..MaxFaults

\* tools.ts:635 allows one account per Telegram user: no retry of the tool loop
\* and no redelivered message opens a second one.
OneAccountPerCustomer == \A c \in Customer : Cardinality(ActiveOf(c)) <= 1

\* Three tables must agree in every state of supply and trades: an offer the
\* agent accepts is not below the floor its buyer context suggests, a counter
\* offer lies between the offer and the price, and the agent accepts its own.
NegotiationIsCoherent ==
    \A c \in Customer, p \in OfferPercents :
        LET offer   == (ListedPrice * p) \div 100
            result  == EvaluateOffer(c, offer)
            counter == CounterOffer(offer)
        IN /\ result.floor = SuggestedFloor(c)
           /\ result.verdict = "accept" => offer >= result.floor
           /\ result.verdict = "counter" => /\ offer <= counter /\ counter <= ListedPrice
                                            /\ EvaluateOffer(c, counter).verdict = "accept"

\* Every message gets an answer, by the model or in degraded mode, whatever
\* completions and mints fail and although a crash hands messages out again.
EveryMessageAnswered ==
    \A m \in 1..MaxMessages : Len(sent) >= m ~> handled >= m

\* docs/ARCHITECTURE.md:77 "tx_hash TEXT UNIQUE": one transaction, one deposit
\* in the books.  It does not hold: a tool loop that is run again, and a message
\* that is delivered again, add the funds again.
DepositCreditedOnce == \A m \in 1..MaxMessages : credited[m] <= 1
=============================================================================
