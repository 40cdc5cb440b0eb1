---------------------------- MODULE Marketplace ----------------------------
(***************************************************************************)
(* Who owns which NFT account: the P2P marketplace of                      *)
(* panthers-fund/src/marketplace/marketplace.ts over the ownership,        *)
(* listing and swap operations of database/ledger.ts.  A holder lists an   *)
(* NFT and another user buys it, or two holders agree to exchange theirs.  *)
(*                                                                         *)
(* Each operation runs to its end without an await, so it is one action.   *)
(* Balances never move here: verifyInvariants, which ends a sale and a     *)
(* swap, depends on balances only and always holds (FundLedger), so the    *)
(* actions leave it out.                                                   *)
(***************************************************************************)
EXTENDS Integers, Sequences, FiniteSets

CONSTANTS
    User,          \* Telegram accounts
    NoUser,        \* owner of a token without a row
    Token,         \* token ids
    SwapLifetime,  \* expiresInHours, in clock ticks
    MaxTime,       \* bound: the clock stops there
    MaxListings,   \* bound: rows of p2p_listings
    MaxSwaps       \* bound: rows of p2p_swap_requests

ASSUME UserAssumption == NoUser \notin User
ASSUME TimeAssumption == SwapLifetime \in Nat /\ MaxTime \in Nat
ASSUME TableAssumption == MaxListings \in Nat /\ MaxSwaps \in Nat

VARIABLES
    owner,     \* owner_telegram_id of every token
    active,    \* is_active of every token
    listings,  \* table p2p_listings, by id
    swaps,     \* table p2p_swap_requests, by id
    sales,     \* table p2p_sales, by id
    paused,    \* fund_state.is_paused
    now        \* the clock

market == <<listings, swaps, sales>>
vars == <<owner, active, listings, swaps, sales, paused, now>>

Listing == [token: Token, seller: User, status: {"active", "sold", "cancelled"}]

Swap == [from: Token, proposer: User, to: Token, target: User, expiresAt: Nat,
         status: {"pending", "accepted", "rejected", "cancelled", "expired"}]

Sale == [token: Token, seller: User, buyer: User]

ActiveListings == {l \in DOMAIN listings : listings[l].status = "active"}
PendingSwaps == {s \in DOMAIN swaps : swaps[s].status = "pending"}

Touches(s, tokens) == swaps[s].from \in tokens \/ swaps[s].to \in tokens

-----------------------------------------------------------------------------
(* Accounts come and go *)

\* create_nft_account and purchase_nft: one account per user, never a reused id.
CreateAccount(t, u) ==
    /\ ~paused
    /\ owner[t] = NoUser
    /\ \A x \in Token : active[x] => owner[x] # u       \* ownerHasNFT
    /\ owner' = [owner EXCEPT ![t] = u]
    /\ active' = [active EXCEPT ![t] = TRUE]
    /\ UNCHANGED <<market, paused, now>>

\* recordWithdrawal; the token's listings and swap requests stay as they are.
Withdraw(t) ==
    /\ ~paused
    /\ active[t]
    /\ active' = [active EXCEPT ![t] = FALSE]
    /\ UNCHANGED <<owner, market, paused, now>>

-----------------------------------------------------------------------------
(* Listings *)

\* Bug: the duplicate check is missing.
ListTwice(u, t) ==
    /\ ~paused
    /\ active[t]
    /\ owner[t] = u
    /\ Len(listings) < MaxListings
    /\ listings' = Append(listings, [token |-> t, seller |-> u, status |-> "active"])
    /\ UNCHANGED <<owner, active, swaps, sales, paused, now>>

\* createListing
CreateListing(u, t) ==
    /\ ~paused
    /\ active[t]
    /\ owner[t] = u
    /\ \A l \in ActiveListings : listings[l].token # t
    /\ Len(listings) < MaxListings
    /\ listings' = Append(listings, [token |-> t, seller |-> u, status |-> "active"])
    /\ UNCHANGED <<owner, active, swaps, sales, paused, now>>

\* cancelListing; allowed while the fund is paused.
CancelListing(u, l) ==
    /\ l \in ActiveListings
    /\ listings[l].seller = u
    /\ listings' = [listings EXCEPT ![l].status = "cancelled"]
    /\ UNCHANGED <<owner, active, swaps, sales, paused, now>>

\* recordP2PSale: the sale is booked as sold by whoever owns the token now, and
\* every active listing of the token is sold.
RecordP2PSale(t, u) ==
    /\ active[t]
    /\ owner' = [owner EXCEPT ![t] = u]
    /\ sales' = Append(sales, [token |-> t, seller |-> owner[t], buyer |-> u])
    /\ listings' = [k \in DOMAIN listings |->
                       IF k \in ActiveListings /\ listings[k].token = t
                       THEN [listings[k] EXCEPT !.status = "sold"] ELSE listings[k]]

\* Bug: a paused fund still sells.
PurchaseWhilePaused(u, l) ==
    /\ l \in ActiveListings
    /\ listings[l].seller # u
    /\ RecordP2PSale(listings[l].token, u)
    /\ UNCHANGED <<active, swaps, paused, now>>

\* executePurchase: anybody but the seller the listing names.
ExecutePurchase(u, l) ==
    /\ l \in ActiveListings
    /\ listings[l].seller # u
    /\ ~paused
    /\ RecordP2PSale(listings[l].token, u)
    /\ UNCHANGED <<active, swaps, paused, now>>

-----------------------------------------------------------------------------
(* Swaps *)

\* createSwapRequest: one pending request for a pair and a direction.
CreateSwapRequest(u, t1, t2, target) ==
    /\ ~paused
    /\ active[t1] /\ active[t2]
    /\ owner[t1] = u
    /\ target # u
    /\ \A s \in PendingSwaps : ~ (swaps[s].from = t1 /\ swaps[s].to = t2)
    /\ Len(swaps) < MaxSwaps
    /\ swaps' = Append(swaps, [from |-> t1, proposer |-> u, to |-> t2, target |-> target,
                               expiresAt |-> now + SwapLifetime, status |-> "pending"])

\* proposeSwap: the target is whoever owns t2 now.
ProposeSwap(u, t1, t2) ==
    /\ CreateSwapRequest(u, t1, t2, owner[t2])
    /\ UNCHANGED <<owner, active, listings, sales, paused, now>>

\* executeSwap, once the request has passed its checks: both accounts change
\* hands, and no other request for either of them stays pending.
Exchange(s) ==
    LET from == swaps[s].from
        to   == swaps[s].to
    IN  /\ owner' = [owner EXCEPT ![from] = swaps[s].target, ![to] = swaps[s].proposer]
        /\ swaps' = [r \in DOMAIN swaps |->
                        IF r = s THEN [swaps[r] EXCEPT !.status = "accepted"]
                        ELSE IF r \in PendingSwaps /\ Touches(r, {from, to})
                             THEN [swaps[r] EXCEPT !.status = "cancelled"] ELSE swaps[r]]

\* The checks of executeSwap.  An expired request, a withdrawn account or a
\* changed owner throws, and the transaction leaves nothing behind: not even
\* the status "expired" that executeSwap writes before it throws.
Executable(s) ==
    /\ ~paused
    /\ s \in PendingSwaps
    /\ now <= swaps[s].expiresAt
    /\ active[swaps[s].from] /\ active[swaps[s].to]
    /\ owner[swaps[s].from] = swaps[s].proposer
    /\ owner[swaps[s].to] = swaps[s].target

\* Bug: the parties' ownership is not checked again.
AcceptStaleSwap(u, s) ==
    /\ swaps[s].target = u
    /\ ~paused
    /\ s \in PendingSwaps
    /\ now <= swaps[s].expiresAt
    /\ active[swaps[s].from] /\ active[swaps[s].to]
    /\ Exchange(s)
    /\ UNCHANGED <<active, listings, sales, paused, now>>

\* acceptSwap, by the target only.
AcceptSwap(u, s) ==
    /\ swaps[s].target = u
    /\ Executable(s)
    /\ Exchange(s)
    /\ UNCHANGED <<active, listings, sales, paused, now>>

\* rejectSwap by the target and cancelSwap by the proposer; allowed while the
\* fund is paused and after the request has expired.
CloseSwap(s, status) ==
    /\ s \in PendingSwaps
    /\ swaps' = [swaps EXCEPT ![s].status = status]
    /\ UNCHANGED <<owner, active, listings, sales, paused, now>>

RejectSwap(u, s) == swaps[s].target = u /\ CloseSwap(s, "rejected")

CancelSwap(u, s) == swaps[s].proposer = u /\ CloseSwap(s, "cancelled")

\* expireOldSwapRequests
ExpireOldSwapRequests ==
    LET old == {s \in PendingSwaps : swaps[s].expiresAt < now}
    IN  /\ old # {}
        /\ swaps' = [s \in DOMAIN swaps |->
                        IF s \in old THEN [swaps[s] EXCEPT !.status = "expired"] ELSE swaps[s]]

\* getSwapRequestsView: requests expire only when somebody looks at them.
ViewSwapRequests ==
    /\ ExpireOldSwapRequests
    /\ UNCHANGED <<owner, active, listings, sales, paused, now>>

-----------------------------------------------------------------------------
(* The environment *)

\* pauseFund and unpauseFund.
TogglePause ==
    /\ paused' = ~paused
    /\ UNCHANGED <<owner, active, market, now>>

Tick ==
    /\ now < MaxTime
    /\ now' = now + 1
    /\ UNCHANGED <<owner, active, market, paused>>

Init ==
    /\ owner = [t \in Token |-> NoUser]
    /\ active = [t \in Token |-> FALSE]
    /\ listings = <<>>
    /\ swaps = <<>>
    /\ sales = <<>>
    /\ paused = FALSE
    /\ now = 0

\* create_p2p_listing, cancel_p2p_listing, execute_p2p_purchase.
ListingTools ==
    \/ \E u \in User, t \in Token : CreateListing(u, t)
    \/ \E u \in User, l \in DOMAIN listings : CancelListing(u, l) \/ ExecutePurchase(u, l)

\* propose_swap, accept_swap, reject_swap, cancel_swap, get_swap_requests.
SwapTools ==
    \/ \E u \in User, t1, t2 \in Token : ProposeSwap(u, t1, t2)
    \/ \E u \in User, s \in DOMAIN swaps : AcceptSwap(u, s) \/ RejectSwap(u, s) \/ CancelSwap(u, s)
    \/ ViewSwapRequests

Next ==
    \/ \E u \in User, t \in Token : CreateAccount(t, u)
    \/ \E t \in Token : Withdraw(t)
    \/ ListingTools
    \/ SwapTools
    \/ TogglePause
    \/ Tick

Spec == Init /\ [][Next]_vars

-----------------------------------------------------------------------------
(* Properties *)

\* The state is what the tables can hold.
TypeOK ==
    /\ owner \in [Token -> User \cup {NoUser}]
    /\ active \in [Token -> BOOLEAN]
    /\ listings \in Seq(Listing)
    /\ swaps \in Seq(Swap)
    /\ sales \in Seq(Sale)
    /\ paused \in BOOLEAN
    /\ now \in 0 .. MaxTime

\* Every sale closed one listing and every sold listing was sold once: however
\* listings, cancellations and purchases interleave, no token has more sold
\* listings than sales or two offers standing at the same time.
EverySaleHasItsListing ==
    \A t \in Token :
        /\ Cardinality({l \in DOMAIN listings : listings[l].token = t /\ listings[l].status = "sold"})
               = Cardinality({k \in DOMAIN sales : sales[k].token = t})
        /\ Cardinality({l \in ActiveListings : listings[l].token = t}) <= 1

\* An account changes hands only by a sale of a listing, or by the acceptance,
\* in time, of a swap that names its owner as one party and the new owner as
\* the other; never while the fund is paused and never after its withdrawal.
OwnershipMovesByConsent ==
    [][\A t \in Token : owner'[t] # owner[t] /\ owner[t] # NoUser =>
           /\ ~paused /\ active[t]
           /\ \/ \E l \in ActiveListings : listings[l].token = t /\ listings'[l].status = "sold"
              \/ \E s \in PendingSwaps :
                     /\ swaps'[s].status = "accepted" /\ now <= swaps[s].expiresAt
                     /\ \/ swaps[s].from = t /\ swaps[s].proposer = owner[t] /\ swaps[s].target = owner'[t]
                        \/ swaps[s].to = t /\ swaps[s].target = owner[t] /\ swaps[s].proposer = owner'[t]]_vars

\* A swap gives and takes: whoever loses an account by it gets the other one.
SwapsGiveBothSides ==
    [][\A s \in PendingSwaps : swaps'[s].status = "accepted" =>
           /\ owner[swaps[s].from] = swaps[s].proposer
           /\ owner'[swaps[s].to] = swaps[s].proposer
           /\ owner[swaps[s].to] = swaps[s].target
           /\ owner'[swaps[s].from] = swaps[s].target]_vars
=============================================================================
